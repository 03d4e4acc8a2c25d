-------------------------- MODULE WorkflowService --------------------------
(***************************************************************************)
(* The application service (service.py) over the in-memory adapters of the *)
(* local profile (adapters.py).  Request handlers run concurrently in a    *)
(* thread pool.  Every adapter call holds its own lock and is one atomic   *)
(* step here; between two calls a handler keeps an immutable snapshot of   *)
(* the workflow in a local variable, and other handlers may move on.       *)
(*                                                                         *)
(* A handler is a thread with a program counter.  Each step is the next    *)
(* locked call or clock read of the code together with the pure            *)
(* computation that follows it; a handler that ends sits at "reply" until  *)
(* the response is sent.                                                   *)
(***************************************************************************)
EXTENDS WorkflowDomain, FiniteSets

CONSTANTS
  Threads,          \* handlers that may run at the same time
  Roles,            \* the roles of each principal
  PolicyDenies,     \* <<operation, request, context>> the policy forbids
  Injected,         \* requests the input guardrail blocks
  Ungrounded,       \* requests whose proposal fails the evaluation gate
  UnreviewedOverlay,\* contexts with another overlay than the baseline
  Operations,       \* bound: the operations clients call in this model
  AuditView,        \* bound: the audit outcomes the model keeps
  MaxTime,          \* bound: the clock stops here
  MaxAttempts,      \* bound: delivery attempts saturate here
  Interruptible     \* threads that may die between two calls

Role == {"requester", "reviewer", "operator", "administrator"}

ASSUME ServiceAssumption ==
  /\ Roles \in [Principals -> SUBSET Role]
  /\ PolicyDenies \subseteq Operation \X Requests \X Contexts
  /\ Injected \subseteq Requests /\ Ungrounded \subseteq Requests
  /\ UnreviewedOverlay \subseteq Contexts
  /\ MaxTime \in Nat /\ MaxAttempts \in Nat
  /\ Interruptible \subseteq Threads

VARIABLES
  workflows,    \* repository: id -> stored workflow
  idempotency,  \* repository: <<owner, key>> -> id
  tasks,        \* queue: workflow id -> task (a task id hashes the workflow id)
  order,        \* queue: task ids in the order of their first enqueue
  completed,    \* queue: task ids that are never delivered again
  executions,   \* executor: tickets by idempotency key
  events,       \* audit sink
  clock,        \* datetime.now(UTC)
  thread        \* the local variables of each handler

queue == <<tasks, order, completed>>
vars  == <<workflows, idempotency, tasks, order, completed, executions,
           events, clock, thread>>

-----------------------------------------------------------------------------
(* The local variables of a handler.                                       *)

NoCall ==
  [op |-> None, by |-> None, id |-> None, request |-> None,
   context |-> None, key |-> None, decision |-> None]

IdleThread ==
  [pc |-> "idle", call |-> NoCall, snap |-> None, at |-> 0,
   task |-> None, result |-> None, event |-> None, reply |-> None]

Becomes(t, state) == thread' = [thread EXCEPT ![t] = state]

Begins(t, op) == thread[t].pc = "idle" /\ op \in Operations

HasRole(p, allowed) == Roles[p] \cap allowed # {}

(* The handler returns workflow w, or raises an application error.         *)
Answer(self, w) ==
  [IdleThread EXCEPT !.pc = "reply", !.call = self.call, !.snap = w,
                     !.reply = "ok"]
Raise(self, error) ==
  [IdleThread EXCEPT !.pc = "reply", !.call = self.call, !.reply = error]

Event(self, action, outcome, resource) ==
  [action |-> action, outcome |-> outcome, subject |-> self.call.by,
   resource |-> resource]

(* The audit sink only appends; nothing in the service reads it back, so   *)
(* the events outside AuditView can be dropped.                            *)
Record(e) == events' = IF e.outcome \in AuditView THEN events \cup {e} ELSE events

(* One more audit record stands between the handler and its `ending'.      *)
AuditThen(ending, action, outcome) ==
  [ending EXCEPT !.pc    = "audit",
                 !.event = Event(ending, action, outcome, ending.call.id)]

(* A role check that fails is audited without a resource, and raises.      *)
Refuse(t, call, action) ==
  LET self == [IdleThread EXCEPT !.call = call]
  IN /\ Record(Event(self, action, "denied", None))
     /\ Becomes(t, Raise(self, "PermissionDenied"))

Allows(operation, w) == <<operation, w.request, w.context>> \notin PolicyDenies

Outcome(operation, w) == IF Allows(operation, w) THEN "permit" ELSE "deny"

-----------------------------------------------------------------------------
(* InMemoryWorkflowRepository.update: an optimistic write.                 *)

(* Mutant: the write does not compare versions.                            *)
IsStored(w) == workflows[w.id] # None

IsCurrent(w) ==
  workflows[w.id] # None /\ workflows[w.id].version = w.version

Update(t, new, next) ==
  \/ /\ IsCurrent(thread[t].snap)
     /\ workflows' = [workflows EXCEPT ![new.id] = new]
     /\ Becomes(t, next)
  \/ /\ ~IsCurrent(thread[t].snap)
     /\ Becomes(t, Raise(thread[t], "InvalidWorkflowState"))
     /\ UNCHANGED workflows

(* InMemoryTaskQueue                                                       *)

Enqueue(t, task, next) ==
  /\ IF tasks[task.workflow] = None
       THEN /\ tasks' = [tasks EXCEPT ![task.workflow] = task]
            /\ order' = Append(order, task.workflow)
            /\ Becomes(t, next)
       ELSE /\ UNCHANGED <<tasks, order>>
            /\ Becomes(t, IF tasks[task.workflow].digest = task.digest
                            THEN next
                            ELSE Raise(thread[t], "IdempotencyConflict"))
  /\ UNCHANGED completed

(* The oldest task that is not completed.  It is not hidden: the next      *)
(* claim returns it again until a handler completes it.                    *)
(* Mutant: the queue looks at its first task only.                         *)
IsFirst(w) == order # <<>> /\ order[1] = w /\ w \notin completed

IsNext(w) ==
  \E i \in DOMAIN order :
     /\ order[i] = w /\ w \notin completed
     /\ \A j \in DOMAIN order : j < i => order[j] \in completed

Delivered(task) ==
  [task EXCEPT !.attempt = IF @ < MaxAttempts THEN @ + 1 ELSE @]

(* SimulatedTicketExecutor                                                 *)

TicketFor(task, proposal, now) ==
  [key |-> TicketKey(task), digest |-> proposal.digest, executed |-> now]

(* Mutant: the executor does not remember its keys.                        *)
NothingIssued(task) == {}

IssuedFor(task) == {e \in executions : e.key = TicketKey(task)}

-----------------------------------------------------------------------------
(* create                                                                  *)

CreateRefused(t) ==
  /\ Begins(t, "create")
  /\ \E p \in Principals :
       /\ ~HasRole(p, {"requester", "administrator"})
       /\ Refuse(t, [NoCall EXCEPT !.op = "create", !.by = p], "workflow.create")
  /\ UNCHANGED <<workflows, idempotency, queue, executions, clock>>

(* A uuid is never drawn twice.                                            *)
FreshId(w) ==
  workflows[w] = None /\ \A t \in Threads : thread[t].call.id # w

CreateCall(p, w, r, c, k) ==
  [NoCall EXCEPT !.op = "create", !.by = p, !.id = w, !.request = r,
                 !.context = c, !.key = k]

CreateIntake(t) ==
  /\ Begins(t, "create")
  /\ \E p \in Principals, w \in WorkflowIds, r \in Requests, c \in Contexts,
        k \in Keys :
       LET call == CreateCall(p, w, r, c, k)
           self == [IdleThread EXCEPT !.call = call]
       IN /\ HasRole(p, {"requester", "administrator"})
          /\ FreshId(w)
          /\ IF c \in UnreviewedOverlay
               THEN /\ Becomes(t, Raise(self, "ComplianceOverlayUnavailable"))
                    /\ UNCHANGED events
               ELSE /\ Record(Event(self, "data_processing.workflow_intake",
                                    Outcome("workflow_intake", call), None))
                    /\ Becomes(t, IF Allows("workflow_intake", call)
                                    THEN [self EXCEPT !.pc = "create_store"]
                                    ELSE Raise(self, "DataProcessingDenied"))
  /\ UNCHANGED <<workflows, idempotency, queue, executions, clock>>

(* The workflow already created under the caller's key.                    *)
(* Mutant: keys are not looked up.                                         *)
Unknown(call) == None

Known(call) == idempotency[<<call.by, call.key>>]

(* repository.create: the stored workflow wins when the scoped key is      *)
(* known; only the request (and locale) are compared.                      *)
CreateStore(t) ==
  LET self == thread[t]
      call == self.call
      w    == Receive(call.id, call.by, call.request, call.context)
      seen == Known(call)
      Stored(x) == AuditThen([Answer(self, x) EXCEPT !.call.id = x.id],
                             "workflow.create", "accepted")
  IN /\ self.pc = "create_store"
     /\ \/ /\ seen # None
           /\ Becomes(t, IF workflows[seen].request = call.request
                           THEN Stored(workflows[seen])
                           ELSE Raise(self, "IdempotencyConflict"))
           /\ UNCHANGED <<workflows, idempotency>>
        \/ /\ seen = None
           /\ workflows' = [workflows EXCEPT ![call.id] = w]
           /\ idempotency' = [idempotency EXCEPT ![<<call.by, call.key>>] = call.id]
           /\ Becomes(t, Stored(w))
     /\ UNCHANGED <<queue, executions, events, clock>>

-----------------------------------------------------------------------------
(* get                                                                     *)

ReadLoad(t) ==
  /\ Begins(t, "read")
  /\ \E p \in Principals, w \in WorkflowIds :
       LET self == [IdleThread EXCEPT !.call =
                      [NoCall EXCEPT !.op = "read", !.by = p, !.id = w]]
           found == workflows[w]
           visible == /\ found # None
                      /\ \/ found.owner = p
                         \/ HasRole(p, {"reviewer", "operator", "administrator"})
       IN Becomes(t,
            IF visible
              THEN AuditThen(Answer(self, found), "workflow.read", "allowed")
              ELSE AuditThen(Raise(self, "WorkflowNotFound"),
                             "workflow.read", "not_found"))
  /\ UNCHANGED <<workflows, idempotency, queue, executions, events, clock>>

-----------------------------------------------------------------------------
(* plan                                                                    *)

PlanLoad(t) ==
  /\ Begins(t, "plan")
  /\ \E p \in Principals, w \in WorkflowIds :
       LET found == workflows[w]
           self  == [IdleThread EXCEPT
                       !.call = [NoCall EXCEPT !.op = "plan", !.by = p, !.id = w]]
           mayPlan == /\ found # None
                      /\ found.owner = p \/ HasRole(p, {"administrator"})
       IN \/ /\ ~mayPlan
             /\ Becomes(t, AuditThen(Raise(self, "WorkflowNotFound"),
                                     "workflow.plan", "not_found"))
          \/ /\ mayPlan /\ found.proposal # None
             /\ Becomes(t, Answer(self, found))
          \/ /\ mayPlan /\ found.proposal = None
             /\ Becomes(t, IF found.status = "received"
                             THEN [self EXCEPT !.pc = "plan_policy", !.snap = found]
                             ELSE Raise(self, "InvalidWorkflowState"))
  /\ UNCHANGED <<workflows, idempotency, queue, executions, events, clock>>

(* The policy decision is audited; the runtime, which touches no shared    *)
(* state of the service, then succeeds or is stopped by a gate.            *)
PlanPolicy(t) ==
  LET self == thread[t]
      w    == self.snap
  IN /\ self.pc = "plan_policy"
     /\ Record(Event(self, "data_processing.agent_planning",
                     Outcome("agent_planning", w), w.id))
     /\ \/ /\ ~Allows("agent_planning", w)
           /\ Becomes(t, Raise(self, "DataProcessingDenied"))
        \/ /\ Allows("agent_planning", w) /\ w.request \in Injected
           /\ Becomes(t, AuditThen(Raise(self, "PromptInjectionRejected"),
                                   "guardrail.input", "blocked"))
        \/ /\ Allows("agent_planning", w) /\ w.request \in Ungrounded \ Injected
           /\ Becomes(t, AuditThen(Raise(self, "EvaluationGateRejected"),
                                   "evaluation.planning_gate", "failed"))
        \/ /\ Allows("agent_planning", w)
           /\ w.request \notin Injected \cup Ungrounded
           /\ Becomes(t, [self EXCEPT !.pc = "plan_clock"])
     /\ UNCHANGED <<workflows, idempotency, queue, executions, clock>>

ReadClock(t, from, next) ==
  /\ thread[t].pc = from
  /\ Becomes(t, [thread[t] EXCEPT !.at = clock, !.pc = next])
  /\ UNCHANGED <<workflows, idempotency, queue, executions, events, clock>>

PlanClock(t) == ReadClock(t, "plan_clock", "plan_store")

PlanStore(t) ==
  LET self    == thread[t]
      planned == ApplyPlanningResult(self.snap,
                                     CreateToolProposal(self.snap, self.at))
  IN /\ self.pc = "plan_store"
     /\ Update(t, planned, AuditThen(Answer(self, planned),
                                     "workflow.plan", "evaluated"))
     /\ UNCHANGED <<idempotency, queue, executions, events, clock>>

-----------------------------------------------------------------------------
(* decide_approval                                                         *)

DecideCall(p, w, k, d) ==
  [NoCall EXCEPT !.op = "decide", !.by = p, !.id = w, !.key = k, !.decision = d]

DecideRefused(t) ==
  /\ Begins(t, "decide")
  /\ \E p \in Principals :
       /\ ~HasRole(p, {"reviewer", "administrator"})
       /\ Refuse(t, [NoCall EXCEPT !.op = "decide", !.by = p], "workflow.approval")
  /\ UNCHANGED <<workflows, idempotency, queue, executions, clock>>

IsOwner(p, w) == w.owner = p

(* Mutant: a replayed decision is answered without another enqueue.        *)
ReplayAnswerOnly(self, w) ==
  IF w.approval.key = self.call.key /\ w.approval.decision = self.call.decision
    THEN Answer(self, w)
    ELSE Raise(self, "InvalidWorkflowState")

(* A workflow that carries a decision: the same key and decision replay    *)
(* it (an approval is enqueued once more), anything else is refused.       *)
Replay(self, w) ==
  LET made == w.approval
  IN CASE made.key # self.call.key -> Raise(self, "InvalidWorkflowState")
       [] made.key = self.call.key /\ made.decision # self.call.decision ->
            Raise(self, "IdempotencyConflict")
       [] OTHER ->
            IF made.decision = "approved" /\ w.proposal # None
              THEN [self EXCEPT !.pc = "decide_requeue", !.snap = w]
              ELSE Answer(self, w)

DecideLoad(t) ==
  /\ Begins(t, "decide")
  /\ \E p \in Principals, w \in WorkflowIds, k \in Keys, d \in Decision :
       LET found == workflows[w]
           self  == [IdleThread EXCEPT !.call = DecideCall(p, w, k, d)]
       IN /\ HasRole(p, {"reviewer", "administrator"})
          /\ \/ /\ found = None
                /\ Becomes(t, Raise(self, "WorkflowNotFound"))
             \/ /\ found # None /\ IsOwner(p, found)
                /\ Becomes(t, AuditThen(Raise(self, "PermissionDenied"),
                                        "workflow.approval", "self_approval_denied"))
             \/ /\ found # None /\ ~IsOwner(p, found) /\ found.approval # None
                /\ Becomes(t, Replay(self, found))
             \/ /\ found # None /\ ~IsOwner(p, found) /\ found.approval = None
                /\ Becomes(t, IF found.status = "awaiting_approval" /\ found.proposal # None
                                THEN [self EXCEPT !.pc = "decide_clock", !.snap = found]
                                ELSE Raise(self, "InvalidWorkflowState"))
  /\ UNCHANGED <<workflows, idempotency, queue, executions, events, clock>>

DecideRequeue(t) ==
  LET self == thread[t]
  IN /\ self.pc = "decide_requeue"
     /\ Enqueue(t, CreateExecutionTask(self.snap), Answer(self, self.snap))
     /\ UNCHANGED <<workflows, idempotency, executions, events, clock>>

DecideClock(t) == ReadClock(t, "decide_clock", "decide_store")

(* The proposal has lapsed: the decision turns into an expiry.             *)
DecideExpire(t) ==
  LET self    == thread[t]
      expired == Expire(self.snap)
  IN /\ self.pc = "decide_store"
     /\ self.at > self.snap.proposal.expires
     /\ Update(t, expired, AuditThen(Raise(self, "ApprovalExpired"),
                                     "workflow.approval", "expired"))
     /\ UNCHANGED <<idempotency, queue, executions, events, clock>>

(* Mutants: every decision is enqueued; enqueueing is left to a replay.    *)
AlwaysNeedsTask(decision) == TRUE
NeverNeedsTask(decision)  == FALSE

NeedsTask(decision) == decision = "approved"

DecideStore(t) ==
  LET self     == thread[t]
      call     == self.call
      approval == CreateApprovalDecision(self.snap.proposal, call.by,
                                         call.decision, call.key, self.at)
      decided  == RecordApproval(self.snap, approval)
  IN /\ self.pc = "decide_store"
     /\ ~(self.at > self.snap.proposal.expires)
     /\ Update(t, decided,
               IF NeedsTask(call.decision)
                 THEN [self EXCEPT !.pc = "decide_enqueue", !.snap = decided]
                 ELSE AuditThen(Answer(self, decided),
                                "workflow.approval", call.decision))
     /\ UNCHANGED <<idempotency, queue, executions, events, clock>>

(* Mutant: the handler answers without auditing the decision.              *)
DecideEnqueueUnaudited(t) ==
  LET self == thread[t]
  IN /\ self.pc = "decide_enqueue"
     /\ Enqueue(t, CreateExecutionTask(self.snap), Answer(self, self.snap))
     /\ UNCHANGED <<workflows, idempotency, executions, events, clock>>

DecideEnqueue(t) ==
  LET self == thread[t]
  IN /\ self.pc = "decide_enqueue"
     /\ Enqueue(t, CreateExecutionTask(self.snap),
                AuditThen(Answer(self, self.snap), "workflow.approval", "approved"))
     /\ UNCHANGED <<workflows, idempotency, executions, events, clock>>

-----------------------------------------------------------------------------
(* process_next_task and execute_task                                      *)

ProcessCall(p, w) == [NoCall EXCEPT !.op = "process", !.by = p, !.id = w]

ProcessRefused(t) ==
  /\ Begins(t, "process")
  /\ \E p \in Principals :
       /\ ~HasRole(p, {"operator", "administrator"})
       /\ Refuse(t, ProcessCall(p, None), "task.process")
  /\ UNCHANGED <<workflows, idempotency, queue, executions, clock>>

ProcessNothing(t) ==
  /\ Begins(t, "process")
  /\ ~\E w \in WorkflowIds : IsNext(w)
  /\ \E p \in Principals :
       /\ HasRole(p, {"operator", "administrator"})
       /\ Becomes(t, Raise([IdleThread EXCEPT !.call = ProcessCall(p, None)],
                           "NoPendingTask"))
  /\ UNCHANGED <<workflows, idempotency, queue, executions, events, clock>>

(* Mutant: a claim acknowledges the task (at most once delivery).          *)
ProcessClaimOnce(t) ==
  /\ Begins(t, "process")
  /\ \E p \in Principals, w \in WorkflowIds :
       /\ HasRole(p, {"operator", "administrator"})
       /\ IsNext(w)
       /\ completed' = completed \cup {w}
       /\ Becomes(t, [IdleThread EXCEPT !.pc = "task_load",
                        !.call = ProcessCall(p, w), !.task = tasks[w]])
  /\ UNCHANGED <<workflows, idempotency, tasks, order, executions, events, clock>>

ProcessClaim(t) ==
  /\ Begins(t, "process")
  /\ \E p \in Principals, w \in WorkflowIds :
       /\ HasRole(p, {"operator", "administrator"})
       /\ IsNext(w)
       /\ tasks' = [tasks EXCEPT ![w] = Delivered(@)]
       /\ Becomes(t, [IdleThread EXCEPT !.pc = "task_load",
                        !.call = ProcessCall(p, w), !.task = Delivered(tasks[w])])
  /\ UNCHANGED <<workflows, idempotency, order, completed, executions, events, clock>>

(* The delivery is bound to the proposal and to the decision on it.        *)
IsBound(task, w) ==
  /\ w.proposal # None /\ w.approval # None
  /\ w.proposal.digest = task.digest /\ w.approval.digest = task.digest

TaskLoad(t) ==
  LET self  == thread[t]
      found == workflows[self.task.workflow]
      finished == found.status = "completed" /\ found.ticket # None
      AfterLoad ==
        IF found = None THEN Raise(self, "WorkflowNotFound")
        ELSE IF finished THEN
               IF found.ticket.digest = self.task.digest
                 THEN [self EXCEPT !.pc = "task_done", !.snap = found]
                 ELSE Raise(self, "IdempotencyConflict")
        ELSE IF IsBound(self.task, found)
               THEN [self EXCEPT !.pc = "task_clock", !.snap = found]
               ELSE Raise(self, "InvalidWorkflowState")
  IN /\ self.pc = "task_load"
     /\ Becomes(t, AfterLoad)
     /\ UNCHANGED <<workflows, idempotency, queue, executions, events, clock>>

(* Mutant: work that has begun is refused.                                 *)
NeverResumes(w) == FALSE

(* The state of a workflow that a delivery may pick up again.              *)
CanResume(w) == w.status = "executing"

Lapsed(w, now) == now > w.approval.expires

TaskClock(t) ==
  LET self == thread[t]
      w    == self.snap
      read == [self EXCEPT !.at = clock]
  IN /\ self.pc = "task_clock"
     /\ \/ /\ w.status = "approved" /\ Lapsed(w, clock)
           /\ Becomes(t, [read EXCEPT !.pc = "task_expire"])
        \/ /\ w.status = "approved" /\ ~Lapsed(w, clock)
           /\ Becomes(t, [read EXCEPT !.pc = "task_policy"])
        \/ /\ CanResume(w)
           /\ Becomes(t, [read EXCEPT !.pc = "task_execute"])
        \/ /\ w.status # "approved" /\ ~CanResume(w)
           /\ Becomes(t, Raise(self, "InvalidWorkflowState"))
     /\ UNCHANGED <<workflows, idempotency, queue, executions, events, clock>>

(* Mutant: the expired task stays in the queue.                            *)
TaskExpireOnly(t) ==
  LET self == thread[t]
  IN /\ self.pc = "task_expire"
     /\ Update(t, Expire(self.snap),
               AuditThen(Raise(self, "ApprovalExpired"),
                         "task.process", "approval_expired"))
     /\ UNCHANGED <<idempotency, queue, executions, events, clock>>

TaskExpire(t) ==
  LET self == thread[t]
  IN /\ self.pc = "task_expire"
     /\ Update(t, Expire(self.snap), [self EXCEPT !.pc = "task_discard"])
     /\ UNCHANGED <<idempotency, queue, executions, events, clock>>

(* Mutant: the head of the queue is acknowledged, whoever is at it.        *)
CompleteHead(t, next) ==
  /\ completed' = completed \cup {w \in WorkflowIds : IsNext(w)}
  /\ Becomes(t, next)
  /\ UNCHANGED <<workflows, idempotency, tasks, order, executions, events, clock>>

(* task_queue.complete                                                     *)
Complete(t, next) ==
  /\ completed' = completed \cup {thread[t].task.workflow}
  /\ Becomes(t, next)
  /\ UNCHANGED <<workflows, idempotency, tasks, order, executions, events, clock>>

TaskDiscard(t) ==
  /\ thread[t].pc = "task_discard"
  /\ Complete(t, AuditThen(Raise(thread[t], "ApprovalExpired"),
                           "task.process", "approval_expired"))

(* Mutants: a denied task is discarded; the denial is audited and ignored. *)
TaskPolicyDiscards(t) ==
  LET self == thread[t]
  IN /\ self.pc = "task_policy"
     /\ Becomes(t, [self EXCEPT !.pc = IF Allows("tool_execution", self.snap)
                                         THEN "task_begin" ELSE "task_discard"])
     /\ UNCHANGED <<workflows, idempotency, queue, executions, events, clock>>
TaskPolicyIgnored(t) ==
  /\ thread[t].pc = "task_policy"
  /\ Becomes(t, [thread[t] EXCEPT !.pc = "task_begin"])
  /\ UNCHANGED <<workflows, idempotency, queue, executions, events, clock>>

TaskPolicy(t) ==
  LET self == thread[t]
      w    == self.snap
  IN /\ self.pc = "task_policy"
     /\ Record(Event(self, "data_processing.tool_execution",
                     Outcome("tool_execution", w), w.id))
     /\ Becomes(t, IF Allows("tool_execution", w)
                     THEN [self EXCEPT !.pc = "task_begin"]
                     ELSE Raise(self, "DataProcessingDenied"))
     /\ UNCHANGED <<workflows, idempotency, queue, executions, clock>>

TaskBegin(t) ==
  LET self  == thread[t]
      begun == BeginExecution(self.snap)
  IN /\ self.pc = "task_begin"
     /\ Update(t, begun, [self EXCEPT !.pc = "task_execute", !.snap = begun])
     /\ UNCHANGED <<idempotency, queue, executions, events, clock>>

(* The ticket already issued under the task's key is returned again.       *)
TaskExecute(t) ==
  LET self   == thread[t]
      ticket == TicketFor(self.task, self.snap.proposal, self.at)
  IN /\ self.pc = "task_execute"
     /\ \/ /\ IssuedFor(self.task) = {}
           /\ executions' = executions \cup {ticket}
           /\ Becomes(t, [self EXCEPT !.pc = "task_store", !.result = ticket])
        \/ /\ \E issued \in IssuedFor(self.task) :
                Becomes(t, IF issued.digest = self.snap.proposal.digest
                             THEN [self EXCEPT !.pc = "task_store", !.result = issued]
                             ELSE Raise(self, "IdempotencyConflict"))
           /\ UNCHANGED executions
     /\ UNCHANGED <<workflows, idempotency, queue, events, clock>>

TaskStore(t) ==
  LET self == thread[t]
      done == CompleteExecution(self.snap, self.result)
  IN /\ self.pc = "task_store"
     /\ Update(t, done, [self EXCEPT !.pc = "task_complete", !.snap = done])
     /\ UNCHANGED <<idempotency, queue, executions, events, clock>>

TaskComplete(t) ==
  /\ thread[t].pc = "task_complete"
  /\ Complete(t, AuditThen(Answer(thread[t], thread[t].snap),
                           "task.process", "completed"))

(* A redelivery of completed work is acknowledged and not audited.         *)
TaskDone(t) ==
  /\ thread[t].pc = "task_done"
  /\ Complete(t, Answer(thread[t], thread[t].snap))

-----------------------------------------------------------------------------
(* The last audit record of a handler, the response, time, and handlers    *)
(* that die between two calls.                                             *)

RecordAudit(t) ==
  /\ thread[t].pc = "audit"
  /\ Record(thread[t].event)
  /\ Becomes(t, [thread[t] EXCEPT !.pc = "reply", !.event = None])
  /\ UNCHANGED <<workflows, idempotency, queue, executions, clock>>

Respond(t) ==
  /\ thread[t].pc = "reply"
  /\ Becomes(t, IdleThread)
  /\ UNCHANGED <<workflows, idempotency, queue, executions, events, clock>>

Interrupt(t) ==
  /\ t \in Interruptible
  /\ thread[t].pc \notin {"idle", "reply"}
  /\ Becomes(t, IdleThread)
  /\ UNCHANGED <<workflows, idempotency, queue, executions, events, clock>>

Tick ==
  /\ clock < MaxTime
  /\ clock' = clock + 1
  /\ UNCHANGED <<workflows, idempotency, queue, executions, events, thread>>

-----------------------------------------------------------------------------
Init ==
  /\ workflows   = [w \in WorkflowIds |-> None]
  /\ idempotency = [k \in Principals \X Keys |-> None]
  /\ tasks       = [w \in WorkflowIds |-> None]
  /\ order       = <<>>
  /\ completed   = {}
  /\ executions  = {}
  /\ events      = {}
  /\ clock       = 0
  /\ thread      = [t \in Threads |-> IdleThread]

(* A client calls an operation.                                            *)
Call(t) ==
  \/ CreateRefused(t) \/ CreateIntake(t) \/ ReadLoad(t) \/ PlanLoad(t)
  \/ DecideRefused(t) \/ DecideLoad(t)
  \/ ProcessRefused(t) \/ ProcessNothing(t) \/ ProcessClaim(t)

(* The handler of a call takes its next step.                              *)
Step(t) ==
  \/ CreateStore(t)
  \/ PlanPolicy(t) \/ PlanClock(t) \/ PlanStore(t)
  \/ DecideRequeue(t) \/ DecideClock(t) \/ DecideExpire(t) \/ DecideStore(t)
  \/ DecideEnqueue(t)
  \/ TaskLoad(t) \/ TaskClock(t) \/ TaskExpire(t) \/ TaskDiscard(t)
  \/ TaskPolicy(t) \/ TaskBegin(t) \/ TaskExecute(t) \/ TaskStore(t)
  \/ TaskComplete(t) \/ TaskDone(t)
  \/ RecordAudit(t) \/ Respond(t)

Next == Tick \/ \E t \in Threads : Call(t) \/ Step(t) \/ Interrupt(t)

Spec == Init /\ [][Next]_vars

=============================================================================
