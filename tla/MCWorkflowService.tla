------------------------- MODULE MCWorkflowService -------------------------
(* Instances of WorkflowService small enough for TLC.                      *)
EXTENDS WorkflowRefinement, TLC

CONSTANTS w1, w2, w3, t1, t2, t3, ann, rob, opal, ada, r1, r2, bad, c1, c2, c3, k1, k2

(* The four documented local identities, one role each.                    *)
MCRoles ==
  [p \in Principals |-> CASE p = ann  -> {"requester"}
                          [] p = rob  -> {"reviewer"}
                          [] p = opal -> {"operator"}
                          [] p = ada  -> {"administrator"}]

(* A policy engine behind the port that denies something at each stage.    *)
MCPolicyDenies ==
  {<<"workflow_intake", r2, c2>>, <<"agent_planning", bad, c2>>,
   <<"tool_execution", r1, c2>>}

ThreadSymmetry == Permutations(Threads)

(* Ids and keys are opaque too where no constant singles one out.          *)
QueueSymmetry ==
  Permutations(Threads) \cup Permutations(WorkflowIds) \cup Permutations(Keys)

=============================================================================
