----------------------------- MODULE MCConsole -----------------------------
(* An instance of Console small enough for TLC.                             *)
EXTENDS Console, TLC

CONSTANTS w1, w2, t1, t2, ann, rob, opal, ada, r1, c1, k1, k2, p1

MCRoles ==
  [p \in Principals |-> CASE p = ann  -> {"requester"}
                          [] p = rob  -> {"reviewer"}
                          [] p = opal -> {"operator"}
                          [] p = ada  -> {"administrator"}]

ConsoleSymmetry ==
  Permutations(Threads) \cup Permutations(WorkflowIds)
    \cup Permutations({k1, k2})

=============================================================================
