------------------------- MODULE WorkflowRefinement -------------------------
(***************************************************************************)
(* The refinement mapping from WorkflowService to ApprovalLifecycle.       *)
(***************************************************************************)
EXTENDS WorkflowInvariant

StageOf(w) == IF Exists(w) THEN workflows[w].status ELSE "absent"

VerdictOf(w) ==
  IF IsDecided(w)
    THEN [decision |-> workflows[w].approval.decision,
          reviewer |-> workflows[w].approval.reviewer]
    ELSE None

Reviewers == {p \in Principals : HasRole(p, {"reviewer", "administrator"})}

Lifecycle == INSTANCE ApprovalLifecycle WITH
  stage   <- [w \in WorkflowIds |-> StageOf(w)],
  owner   <- [w \in WorkflowIds |-> IF Exists(w) THEN workflows[w].owner ELSE None],
  verdict <- [w \in WorkflowIds |-> VerdictOf(w)],
  ticket  <- [w \in WorkflowIds |-> \E e \in executions : e.key[1] = w]

(* Every step of the service, whatever its handlers interleave, is a step  *)
(* of the one-line-per-stage promise or leaves it unchanged.               *)
ImplementsLifecycle == Lifecycle!Spec

=============================================================================
