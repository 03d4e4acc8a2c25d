------------------------- MODULE BoundaryProperties -------------------------
(* What the HTTP boundary promises (main.py, security.py, operational.py),  *)
(* over HttpBoundary.                                                       *)
EXTENDS HttpBoundary

(* Every variable holds a value of its type.                                *)
TypeOK ==
  /\ \A n \in Handlers :
       LET self == requests[n]
       IN /\ self.pc \in {"new", "metered", "limiting", "endpoint", "reading",
                          "answered", "done", "crashed"}
          /\ self.sent \in Sent \cup {None}
          /\ self.id \in SentIds \cup Handlers \cup {None, Unavailable}
          /\ self.route \in Endpoints \cup {None, "<unmatched>", "<rejected>"}
          /\ self.status \in {0, 200, 202, 500} \cup {400, 422}
                               \cup {StatusOf[e] : e \in DOMAIN StatusOf}
          /\ self.served \in BOOLEAN /\ self.before \subseteq Handlers
  /\ \A i \in DOMAIN audit : audit[i].request \in Handlers /\ audit[i].subject \in Subjects
  /\ \A i \in DOMAIN telemetry : telemetry[i].request \in Handlers
  /\ Limiter!TypeOK

Observations(n) == {i \in DOMAIN telemetry : telemetry[i].request = n}

(* AC6-001, the middleware of main.py: every response it sends, whichever   *)
(* dependency, handler or endpoint made it, was observed once, with its     *)
(* route and status; what never returned to the middleware (an exception    *)
(* that is no application error) is not observed at all.                    *)
ResponseIsObserved ==
  \A n \in Handlers :
    IF requests[n].pc = "done"
      THEN \E i \in DOMAIN telemetry :
             /\ Observations(n) = {i}
             /\ telemetry[i].status = requests[n].status
             /\ telemetry[i].route  = requests[n].route
      ELSE Observations(n) = {}

(* The ids of one request agree: its audit events, its observation and the  *)
(* client's own when it is well formed.  Two requests share an id only when *)
(* their clients sent the same one or both sent a malformed one, and a      *)
(* malformed one never reaches the audit trail.                             *)
CorrelationIsShared ==
  /\ \A i \in DOMAIN audit, j \in DOMAIN telemetry :
       audit[i].request = telemetry[j].request =>
         audit[i].correlation = telemetry[j].correlation
  /\ \A i \in DOMAIN audit : audit[i].correlation # Unavailable
  /\ \A i, j \in DOMAIN telemetry :
       LET m == requests[telemetry[i].request].sent
           n == requests[telemetry[j].request].sent
       IN /\ m.correlation \in SentIds => telemetry[i].correlation = m.correlation
          /\ i # j /\ telemetry[i].correlation = telemetry[j].correlation =>
               m.correlation = n.correlation /\ m.correlation # None

(* What a request must bring to be counted by the limiter: a mutation of a *)
(* known principal with good metadata and a body that parses.              *)
IsMetered(sent) ==
  /\ sent.endpoint \in Mutations /\ sent.credential # None
  /\ sent.key = "good" /\ sent.correlation # "bad"
  /\ sent.endpoint \in HasBody => sent.body # "unparsable"

Misfits(sent) == sent.endpoint \in HasBody /\ sent.body = "invalid"

HoldsShare(n) ==
  LET self == requests[n]
  IN /\ self.pc \notin {"new", "metered"} /\ IsMetered(self.sent)
     /\ self.pc = "limiting" => calls[n].pc = "allowed"
     /\ self.status # 429

(* enforce_mutation_rate_limit stands between the metadata and the body's  *)
(* contract: a principal has spent exactly one admission for each of its   *)
(* metered mutations that the limiter let through, so that reads,          *)
(* strangers, bad metadata and bodies that do not parse spend none.  Only  *)
(* a mutation that spent one reaches the service, and each one that did    *)
(* gets there, but for a body that violates the contract: that one is      *)
(* answered 422 and its share is gone.                                     *)
SharesArePerRequest ==
  /\ \A s \in Subjects :
       Len(admitted[s]) =
         Cardinality({n \in Handlers : HoldsShare(n) /\ requests[n].sent.credential = s})
  /\ \A n \in Handlers :
       LET self == requests[n]
       IN /\ self.served /\ self.sent.endpoint \in Mutations => HoldsShare(n)
          /\ self.pc \in {"answered", "done", "crashed"} /\ HoldsShare(n) =>
               IF Misfits(self.sent) THEN ~self.served /\ self.status = 422
                                     ELSE self.served

Failed(group) == {n \in group : requests[n].status >= 400}

(* operational_metrics: the totals count every request answered before the  *)
(* reader's arrived, in whatever order they were observed, and never the    *)
(* reader's own or an unanswered one.                                       *)
SnapshotIsCurrent ==
  \A n \in Handlers :
    LET self == requests[n]
        done == {m \in Handlers \ {n} : requests[m].pc = "done"}
    IN self.view # None /\ self.sent.endpoint = "metrics" =>
         /\ self.view.total  \in Cardinality(self.before)..Cardinality(done)
         /\ self.view.errors \in Cardinality(Failed(self.before))..Cardinality(Failed(done))

(* audit_events: the view holds the event of the reader's own access and    *)
(* every event of an earlier request, but for those that AuditLimit later   *)
(* events push out.                                                         *)
AuditViewIsCurrent ==
  \A n \in Handlers :
    LET self  == requests[n]
        shown == {self.view[k] : k \in DOMAIN self.view}
    IN self.view # None /\ self.sent.endpoint = "audit" =>
         \A i \in DOMAIN audit :
           audit[i].request \in self.before \cup {n} /\ audit[i] \notin shown =>
             /\ Cardinality(shown) = AuditLimit
             /\ \A j \in DOMAIN audit : audit[j] \in shown => j > i

(* Nobody holds operational data whose role does not allow it and whose     *)
(* access is not already on the audit trail under the request's own id; the *)
(* trail also names those who were refused.                                 *)
ViewIsAudited ==
  \A n \in Handlers :
    LET self    == requests[n]
        Entry(o) == \E i \in DOMAIN audit :
                      /\ audit[i].request = n /\ audit[i].outcome = o
                      /\ audit[i].subject = self.sent.credential
                      /\ audit[i].correlation = self.id
        privileged == IF self.sent.endpoint = "audit" THEN {"administrator"}
                        ELSE {"operator", "administrator"}
    IN /\ self.view # None =>
            Entry("allowed") /\ Roles[self.sent.credential] \cap privileged # {}
       /\ self.pc = "done" /\ self.route \in {"metrics", "audit"} /\ self.status = 403 =>
            Entry("denied")

=============================================================================
