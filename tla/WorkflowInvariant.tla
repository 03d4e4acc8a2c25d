------------------------- MODULE WorkflowInvariant -------------------------
(***************************************************************************)
(* The inductive invariants behind the theorems of WorkflowProofs,         *)
(* AuthorisationProofs and OutcomeProofs, kept apart from the proofs so    *)
(* that TLC can check them on small instances.                             *)
(***************************************************************************)
EXTENDS WorkflowProperties

-----------------------------------------------------------------------------
(* Type correctness.  TypeOK alone is not inductive: a handler writes back *)
(* what it holds in local variables, so the invariant also says which of   *)
(* them are set at each point of the code.                                 *)

Deciding  == {"decide_requeue", "decide_clock", "decide_store", "decide_enqueue"}
Executing == {"task_clock", "task_expire", "task_policy", "task_begin",
              "task_execute", "task_store"}
HoldsSnap == {"plan_policy", "plan_clock", "plan_store", "task_discard",
              "task_complete", "task_done"} \cup Deciding \cup Executing
HoldsTask == {"task_load", "task_discard", "task_complete", "task_done"}
               \cup Executing

Shape(s) ==
  /\ s.pc = "create_store" =>
       /\ s.call.by \in Principals /\ s.call.id \in WorkflowIds
       /\ s.call.request \in Requests /\ s.call.context \in Contexts
       /\ s.call.key \in Keys
  /\ s.pc \in HoldsSnap => s.snap \in Workflow
  /\ s.pc \in HoldsTask => s.task \in Task
  /\ s.pc \in Deciding => s.snap.proposal \in Proposal
  /\ s.pc \in {"decide_clock", "decide_store"} =>
       /\ s.call.by \in Principals /\ s.call.key \in Keys
       /\ s.call.decision \in Decision
  /\ s.pc \in Executing =>
       s.snap.proposal \in Proposal /\ s.snap.approval \in Approval
  /\ s.pc = "task_complete" => s.snap.proposal \in Proposal
  /\ s.pc = "task_store" => s.result \in Ticket
  /\ s.pc = "audit" => s.event \in AuditEvent

(* A key of the idempotency index leads to a stored workflow.              *)
KeysResolve ==
  \A k \in Principals \X Keys :
    idempotency[k] # None => workflows[idempotency[k]] # None

(* Every task id in the queue's order has its task.                        *)
OrderHasTasks == \A i \in DOMAIN order : tasks[order[i]] # None

TypeInv ==
  /\ TypeOK /\ KeysResolve /\ OrderHasTasks
  /\ \A t \in Threads : Shape(thread[t])

-----------------------------------------------------------------------------
(* Authorisation.  A handler acts on a snapshot, so what a ticket relies   *)
(* on must hold of every snapshot a handler may still write back, and the  *)
(* stored workflow must have come from that snapshot by legal steps.       *)

Started == {"executing", "completed"}
Planned == {"awaiting_approval", "approved", "rejected", "expired"} \cup Started

(* What the gates on the way to a status have established.                 *)
Legal(w) ==
  /\ Allows("workflow_intake", w)
  /\ w.status \in Planned =>
       /\ Allows("agent_planning", w)
       /\ w.request \notin Injected \cup Ungrounded
  /\ w.status \in Started => Allows("tool_execution", w)
  /\ w.proposal # None => w.proposal.digest = <<w.id, w.request>>
  /\ w.approval # None =>
       /\ w.approval.reviewer # w.owner
       /\ HasRole(w.approval.reviewer, {"reviewer", "administrator"})
       /\ w.approval.digest = <<w.id, w.request>>
  /\ w.status \in {"approved"} \cup Started =>
       w.approval # None /\ w.approval.decision = "approved"
  /\ w.status \in {"received", "awaiting_approval"} => w.approval = None
  /\ w.status = "received" => w.governed = <<"workflow_intake">>
  /\ w.status \in {"awaiting_approval", "approved"} =>
       w.governed = <<"workflow_intake", "agent_planning">>
  /\ w.status \in Started =>
       w.governed = <<"workflow_intake", "agent_planning", "tool_execution">>

(* A later snapshot of the same workflow: identity and submission stay,    *)
(* the version counts the changes, history grows, a decision stands and    *)
(* work that has started stays started.                                    *)
Follows(new, old) ==
  /\ new.id = old.id /\ new.owner = old.owner
  /\ new.request = old.request /\ new.context = old.context
  /\ old.version <= new.version /\ (old.version = new.version => new = old)
  /\ Len(old.history) <= Len(new.history)
  /\ \A i \in 1..Len(old.history) : new.history[i] = old.history[i]
  /\ old.approval # None =>
       new.approval \in {old.approval, [old.approval EXCEPT !.consumed = TRUE]}
  /\ old.status \in Started => new.status \in Started

(* What a handler in state s knows of its snapshot at each point of the    *)
(* code, given the stored workflows and the issued tickets.                *)
Knows(s, stored, issued) ==
  /\ s.pc = "create_store" => Allows("workflow_intake", s.call)
  /\ s.pc \in HoldsSnap =>
       /\ Legal(s.snap)
       /\ stored[s.snap.id] # None /\ Follows(stored[s.snap.id], s.snap)
  /\ s.pc \in {"plan_policy", "plan_clock", "plan_store"} =>
       s.snap.status = "received"
  /\ s.pc \in {"plan_clock", "plan_store"} =>
       /\ Allows("agent_planning", s.snap)
       /\ s.snap.request \notin Injected \cup Ungrounded
  /\ s.pc \in {"decide_clock", "decide_store"} =>
       /\ s.snap.status = "awaiting_approval"
       /\ s.call.by # s.snap.owner
       /\ HasRole(s.call.by, {"reviewer", "administrator"})
  /\ s.pc \in {"decide_requeue", "decide_enqueue"} =>
       s.snap.approval # None /\ s.snap.approval.decision = "approved"
  /\ s.pc \in Executing =>
       s.snap.id = s.task.workflow /\ s.snap.proposal.digest = s.task.digest
  /\ s.pc \in {"task_expire", "task_policy", "task_begin"} =>
       s.snap.status = "approved"
  /\ s.pc = "task_begin" => Allows("tool_execution", s.snap)
  /\ s.pc \in {"task_execute", "task_store"} => s.snap.status = "executing"
  /\ s.pc = "task_store" =>
       s.result \in issued /\ s.result.key[1] = s.snap.id

(* A handler about to create has an id nobody else has.                    *)
IdIsFresh(t) ==
  thread[t].pc = "create_store" =>
    /\ workflows[thread[t].call.id] = None
    /\ \A u \in Threads : /\ u # t /\ thread[u].pc = "create_store"
                           => thread[u].call.id # thread[t].call.id

StoredIsLegal ==
  \A w \in WorkflowIds : Exists(w) =>
    /\ Legal(workflows[w])
    /\ workflows[w].status = "completed" =>
         /\ workflows[w].ticket \in executions
         /\ workflows[w].ticket.key[1] = w
         /\ workflows[w].approval.consumed

(* A ticket belongs to started work and carries its digest.                *)
TicketIsBacked ==
  \A e \in executions :
    LET w == workflows[e.key[1]]
    IN /\ w # None /\ w.status \in Started
       /\ e.digest = <<w.id, w.request>> /\ e.key = <<w.id, e.digest>>

TicketsAreUnique == \A e, f \in executions : e.key[1] = f.key[1] => e = f

AuthorisationInv ==
  /\ StoredIsLegal /\ TicketIsBacked /\ TicketsAreUnique /\ QueuedIsApproved
  /\ \A t \in Threads :
       Knows(thread[t], workflows, executions) /\ IdIsFresh(t)

(* Stored workflows are only ever replaced by later snapshots of them.     *)
Extends(new, old) ==
  \A w \in WorkflowIds :
    old[w] # None => new[w] # None /\ Follows(new[w], old[w])

Grows == Extends(workflows', workflows)

-----------------------------------------------------------------------------
(* Histories and keys.                                                     *)

(* HistoryFollowsDiagram for one snapshot.                                 *)
Diagrammed(w) ==
  /\ Len(w.history) > 0 /\ w.version = Len(w.history)
  /\ w.history[Len(w.history)].current = w.status
  /\ \A i \in 1..Len(w.history) :
       /\ <<w.history[i].previous, w.history[i].current>> \in DocumentedTransitions
       /\ w.history[i].previous = IF i = 1 THEN None ELSE w.history[i - 1].current

HistoriesInv == \A w \in WorkflowIds : Exists(w) => Diagrammed(workflows[w])

(* Every stored workflow is found under a key of its owner, and no two     *)
(* keys lead to one workflow.                                              *)
KeysInv ==
  /\ \A w \in WorkflowIds : Exists(w) =>
       \E k \in Keys : idempotency[<<workflows[w].owner, k>>] = w
  /\ \A j, k \in Principals \X Keys :
       idempotency[j] # None /\ idempotency[j] = idempotency[k] => j = k

-----------------------------------------------------------------------------
(* The queue.                                                              *)

(* A handler remembers in its call which workflow it works on; a delivered *)
(* task stays in the queue's table; a task is acknowledged after the write *)
(* that ended its workflow.                                                *)
Frame(s) ==
  /\ s.pc \in Deciding => s.call.op = "decide" /\ s.call.id = s.snap.id
  /\ s.pc \in HoldsTask =>
       /\ s.call.op = "process" /\ s.call.id = s.task.workflow
       /\ tasks[s.task.workflow] # None
  /\ s.pc = "task_discard" => HasStatus(s.task.workflow, "expired")
  /\ s.pc \in {"task_complete", "task_done"} =>
       HasStatus(s.task.workflow, "completed")

(* A task is queued with its first enqueue, for the approved digest.       *)
TasksAreQueued ==
  \A w \in WorkflowIds : tasks[w] # None =>
    Queued(w) /\ tasks[w].digest = <<w, workflows[w].request>>

(* An approval that has been acted upon came through the queue.            *)
UsedIsQueued ==
  \A w \in WorkflowIds :
    IsApproved(w) /\ workflows[w].status # "approved" => tasks[w] # None

QueueInv ==
  /\ TasksAreQueued /\ UsedIsQueued /\ UnfinishedWorkIsDeliverable
  /\ \A t \in Threads : Frame(thread[t])

-----------------------------------------------------------------------------
(* Outcomes, while no handler dies half way.                               *)

(* Handler t is on its way to audit that outcome of workflow w.            *)
Owes(t, w, action, outcome) ==
  LET self == thread[t]
  IN /\ self.call.id = w
     /\ self.call.op = IF action = "workflow.approval" THEN "decide" ELSE "process"
     /\ \/ /\ self.pc = "audit" /\ self.event.action = action
           /\ self.event.outcome = outcome /\ self.event.resource = w
        \/ <<self.pc, action, outcome>> \in
             {<<"decide_enqueue", "workflow.approval", "approved">>,
              <<"task_discard", "task.process", "approval_expired">>,
              <<"task_complete", "task.process", "completed">>}

Settled(w, action, outcome) ==
  Audited(w, action, outcome) \/ \E t \in Threads : Owes(t, w, action, outcome)

OutcomesAreSettled ==
  \A w \in WorkflowIds :
    /\ IsDecided(w) =>
         Settled(w, "workflow.approval", workflows[w].approval.decision)
    /\ HasStatus(w, "expired") =>
         \/ Settled(w, "workflow.approval", "expired")
         \/ Settled(w, "task.process", "approval_expired")
    /\ HasStatus(w, "completed") => Settled(w, "task.process", "completed")

OutcomeInv == ApprovedIsQueued /\ ExpiredTaskIsDiscarded /\ OutcomesAreSettled

=============================================================================
