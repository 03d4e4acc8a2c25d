--------------------------- MODULE WorkflowDomain ---------------------------
(***************************************************************************)
(* The immutable values of the approval workflow and the pure functions    *)
(* that build them: domain.py (the Workflow aggregate and its five         *)
(* transitions) and execution.py (proposal, approval, task, ticket).       *)
(*                                                                         *)
(* Abstractions.  A normalised request and its locale are one value of     *)
(* Requests.  planning_result and action_proposal are set together by      *)
(* apply_planning_result and stand together as `proposal'.  SHA-256 of the *)
(* canonical arguments is the pair they are computed from, so digests do   *)
(* not collide.  Timestamps of transitions, reasons and display data are   *)
(* left out; expiry and execution times are kept.                          *)
(***************************************************************************)
EXTENDS Naturals, Sequences

CONSTANTS
  WorkflowIds,    \* uuid4 values handed out by the id factory
  Principals,     \* verified subjects
  Requests,       \* normalised request text with its locale
  Contexts,       \* declared categories, purpose, jurisdiction and overlays
  Keys,           \* Idempotency-Key values
  ProposalTTL,    \* life of a proposal (30 minutes in the code)
  ApprovalTTL,    \* life of an approval (15 minutes in the code)
  None            \* Python's None

ASSUME TTLAssumption == ProposalTTL \in Nat /\ ApprovalTTL \in Nat

-----------------------------------------------------------------------------
(* The checkpoints the planning graph reports when it succeeds, and the    *)
(* pause that follows them.                                                *)
PlanningPath ==
  <<"validated", "guarded", "classified", "context_built",
    "knowledge_retrieved", "planned", "evaluated", "awaiting_approval">>

Status ==
  {"received", "awaiting_approval", "approved", "rejected", "expired",
   "executing", "completed"}

(* Every state a transition may name; Status is where a workflow can rest. *)
State ==
  Status \cup {"validated", "guarded", "classified", "context_built",
               "knowledge_retrieved", "planned", "evaluated", "evaluating"}

Decision  == {"approved", "rejected"}
Operation == {"workflow_intake", "agent_planning", "tool_execution"}
Digest    == WorkflowIds \X Requests

Transition == [previous : State \cup {None}, current : State]
Proposal   == [digest : Digest, expires : Nat]
Approval   == [decision : Decision, reviewer : Principals, key : Keys,
               expires : Nat, digest : Digest, consumed : BOOLEAN]
Task       == [workflow : WorkflowIds, digest : Digest, attempt : Nat]
Ticket     == [key : WorkflowIds \X Digest, digest : Digest, executed : Nat]

Workflow ==
  [id : WorkflowIds, owner : Principals, request : Requests,
   context : Contexts, status : Status, version : Nat,
   history : Seq(Transition), governed : Seq(Operation),
   proposal : Proposal \cup {None}, approval : Approval \cup {None},
   ticket : Ticket \cup {None}]

ASSUME NoneAssumption ==
  /\ None \notin Workflow \cup Proposal \cup Approval \cup Task \cup Ticket
  /\ None \notin WorkflowIds \cup Principals \cup Keys \cup State

-----------------------------------------------------------------------------
(* execution.py                                                            *)

Earlier(a, b) == IF a <= b THEN a ELSE b

CreateToolProposal(w, now) ==
  [digest |-> <<w.id, w.request>>, expires |-> now + ProposalTTL]

CreateApprovalDecision(proposal, reviewer, decision, key, now) ==
  [decision |-> decision, reviewer |-> reviewer, key |-> key,
   expires  |-> Earlier(proposal.expires, now + ApprovalTTL),
   digest   |-> proposal.digest, consumed |-> FALSE]

(* Mutant: the task carries the request instead of its digest.             *)
CreateUnboundTask(w) ==
  [workflow |-> w.id, digest |-> w.request, attempt |-> 0]

CreateExecutionTask(w) ==
  [workflow |-> w.id, digest |-> w.proposal.digest, attempt |-> 0]

(* idempotency_key of a task: "ticket:<workflow id>:<digest>".             *)
TicketKey(task) == <<task.workflow, task.digest>>

-----------------------------------------------------------------------------
(* domain.py: each function returns a new snapshot, the old one is kept.   *)

Receive(id, owner, request, context) ==
  [id |-> id, owner |-> owner, request |-> request, context |-> context,
   status |-> "received", version |-> 1,
   history |-> <<[previous |-> None, current |-> "received"]>>,
   governed |-> <<"workflow_intake">>,
   proposal |-> None, approval |-> None, ticket |-> None]

(* The transitions that lead from `from' through `states' one by one.      *)
Path(from, states) ==
  [i \in 1..Len(states) |->
     [previous |-> IF i = 1 THEN from ELSE states[i - 1],
      current  |-> states[i]]]

(* Mutant: a batch of transitions counts as one version.                   *)
AdvanceByOne(w, states) ==
  [w EXCEPT !.status  = states[Len(states)],
            !.version = @ + 1,
            !.history = @ \o Path(w.status, states)]

Advance(w, states) ==
  [w EXCEPT !.status  = states[Len(states)],
            !.version = @ + Len(states),
            !.history = @ \o Path(w.status, states)]

ApplyPlanningResult(w, proposal) ==
  [Advance(w, PlanningPath) EXCEPT
     !.governed = Append(@, "agent_planning"),
     !.proposal = proposal]

RecordApproval(w, approval) ==
  [Advance(w, <<approval.decision>>) EXCEPT !.approval = approval]

Expire(w) == Advance(w, <<"expired">>)

BeginExecution(w) ==
  [Advance(w, <<"executing">>) EXCEPT !.governed = Append(@, "tool_execution")]

CompleteExecution(w, ticket) ==
  [Advance(w, <<"evaluating", "completed">>) EXCEPT
     !.approval.consumed = TRUE,
     !.ticket            = ticket]

=============================================================================
