------------------------- MODULE ApprovalLifecycle -------------------------
(***************************************************************************)
(* What the service promises about each workflow, without threads, queue,  *)
(* snapshots or versions: a request is proposed once, one person who is    *)
(* not its owner decides once, and only an approved proposal that did not  *)
(* lapse before work began leads to one ticket.                            *)
(* The order of the stages is the state diagram of                         *)
(* specs/design/workflow-state-model.md, and WorkflowRefinement shows that *)
(* WorkflowService implements it.                                          *)
(***************************************************************************)
CONSTANTS WorkflowIds, Principals, Reviewers, None

VARIABLES
  stage,    \* where each workflow stands
  owner,    \* who submitted it
  verdict,  \* the decision on it and who made it
  ticket    \* whether its ticket has been created

lifecycle == <<stage, owner, verdict, ticket>>

Stage == {"absent", "received", "awaiting_approval", "approved", "rejected",
          "expired", "executing", "completed"}

Init ==
  /\ stage   = [w \in WorkflowIds |-> "absent"]
  /\ owner   = [w \in WorkflowIds |-> None]
  /\ verdict = [w \in WorkflowIds |-> None]
  /\ ticket  = [w \in WorkflowIds |-> FALSE]

Moves(w, from, to) == stage[w] = from /\ stage' = [stage EXCEPT ![w] = to]

Submit(w) ==
  /\ Moves(w, "absent", "received")
  /\ \E p \in Principals : owner' = [owner EXCEPT ![w] = p]
  /\ UNCHANGED <<verdict, ticket>>

Propose(w) ==
  Moves(w, "received", "awaiting_approval") /\ UNCHANGED <<owner, verdict, ticket>>

Decide(w, decision) ==
  /\ Moves(w, "awaiting_approval", decision)
  /\ \E p \in Reviewers \ {owner[w]} :
       verdict' = [verdict EXCEPT ![w] = [decision |-> decision, reviewer |-> p]]
  /\ UNCHANGED <<owner, ticket>>

Lapse(w) ==
  /\ Moves(w, "awaiting_approval", "expired") \/ Moves(w, "approved", "expired")
  /\ UNCHANGED <<owner, verdict, ticket>>

Start(w) ==
  Moves(w, "approved", "executing") /\ UNCHANGED <<owner, verdict, ticket>>

Issue(w) ==
  /\ stage[w] = "executing" /\ ~ticket[w]
  /\ ticket' = [ticket EXCEPT ![w] = TRUE]
  /\ UNCHANGED <<stage, owner, verdict>>

Finish(w) ==
  /\ ticket[w]
  /\ Moves(w, "executing", "completed")
  /\ UNCHANGED <<owner, verdict, ticket>>

Next ==
  \E w \in WorkflowIds :
    \/ Submit(w) \/ Propose(w) \/ Decide(w, "approved") \/ Decide(w, "rejected")
    \/ Lapse(w) \/ Start(w) \/ Issue(w) \/ Finish(w)

Spec == Init /\ [][Next]_lifecycle

=============================================================================
