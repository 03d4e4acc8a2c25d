--------------------------- MODULE MCHttpBoundary ---------------------------
(* An instance of HttpBoundary small enough for TLC: what the clients send. *)
EXTENDS BoundaryProperties

CONSTANTS opal, root, c1

MCRoles == [s \in Subjects |-> IF s = root THEN {"administrator"} ELSE {"operator"}]

Ask(endpoint, subject) ==
  [endpoint |-> endpoint, correlation |-> c1, credential |-> subject,
   key |-> "good", body |-> "good"]

MCSent ==
  { Ask("create", root), Ask("plan", None), Ask("<unmatched>", None),
    [Ask("approval", opal) EXCEPT !.body = "invalid"],
    [Ask("create", root) EXCEPT !.body = "unparsable"],
    [Ask("process", root) EXCEPT !.key = "bad"],
    [Ask("process", root) EXCEPT !.correlation = "bad"],
    [Ask("workflow", opal) EXCEPT !.correlation = None],
    Ask("metrics", opal), Ask("audit", root), Ask("audit", opal),
    [Ask("audit", root) EXCEPT !.body = "invalid"], Ask("session", opal) }

=============================================================================
