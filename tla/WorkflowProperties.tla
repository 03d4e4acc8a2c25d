------------------------- MODULE WorkflowProperties -------------------------
(***************************************************************************)
(* What the approval workflow must never do, and what it must eventually   *)
(* do.  Each property is stated over the state of WorkflowService.         *)
(***************************************************************************)
EXTENDS WorkflowService

-----------------------------------------------------------------------------
(* Types                                                                   *)

CallFrame ==
  [op       : {"create", "read", "plan", "decide", "process", None},
   by       : Principals \cup {None},
   id       : WorkflowIds \cup {None},
   request  : Requests \cup {None},
   context  : Contexts \cup {None},
   key      : Keys \cup {None},
   decision : Decision \cup {None}]

AuditAction ==
  {"workflow.create", "workflow.read", "workflow.plan", "workflow.approval",
   "task.process", "guardrail.input", "evaluation.planning_gate",
   "data_processing.workflow_intake", "data_processing.agent_planning",
   "data_processing.tool_execution"}

AuditOutcome ==
  {"denied", "accepted", "permit", "deny", "allowed", "not_found", "blocked",
   "failed", "evaluated", "approved", "rejected", "self_approval_denied",
   "expired", "approval_expired", "completed"}

AuditEvent ==
  [action   : AuditAction,
   outcome  : AuditOutcome,
   subject  : Principals \cup {None},
   resource : WorkflowIds \cup {None}]

Reply ==
  {"ok", "PermissionDenied", "WorkflowNotFound", "IdempotencyConflict",
   "InvalidWorkflowState", "DataProcessingDenied", "ApprovalExpired",
   "ComplianceOverlayUnavailable", "NoPendingTask",
   "PromptInjectionRejected", "EvaluationGateRejected"}

PC ==
  {"idle", "create_store", "plan_policy", "plan_clock", "plan_store",
   "decide_requeue", "decide_clock", "decide_store", "decide_enqueue",
   "task_load", "task_clock", "task_expire", "task_discard", "task_policy",
   "task_begin", "task_execute", "task_store", "task_complete", "task_done",
   "audit", "reply"}

ThreadState ==
  [pc     : PC,
   call   : CallFrame,
   snap   : Workflow \cup {None},
   at     : Nat,
   task   : Task \cup {None},
   result : Ticket \cup {None},
   event  : AuditEvent \cup {None},
   reply  : Reply \cup {None}]

(* Every variable holds a value of the type the code declares for it; the  *)
(* repository files each workflow under its own id, and so does the queue. *)
TypeOK ==
  /\ workflows \in [WorkflowIds -> Workflow \cup {None}]
  /\ idempotency \in [Principals \X Keys -> WorkflowIds \cup {None}]
  /\ tasks \in [WorkflowIds -> Task \cup {None}]
  /\ order \in Seq(WorkflowIds)
  /\ completed \subseteq WorkflowIds
  /\ executions \subseteq Ticket
  /\ events \subseteq AuditEvent
  /\ clock \in Nat
  /\ thread \in [Threads -> ThreadState]
  /\ \A w \in WorkflowIds :
       /\ workflows[w] # None => workflows[w].id = w
       /\ tasks[w] # None => tasks[w].workflow = w

-----------------------------------------------------------------------------
(* Helpers                                                                 *)

Exists(w)    == workflows[w] # None
Queued(w)    == \E i \in DOMAIN order : order[i] = w
IsDecided(w) == Exists(w) /\ workflows[w].approval # None
IsApproved(w) == IsDecided(w) /\ workflows[w].approval.decision = "approved"
HasStatus(w, status) == Exists(w) /\ workflows[w].status = status

(* A handler of operation op for workflow w is at one of the points pcs.   *)
Busy(w, op, pcs) ==
  \E t \in Threads : /\ thread[t].pc \in pcs
                     /\ thread[t].call.op = op /\ thread[t].call.id = w

Audited(w, action, outcome) ==
  \E e \in events :
     e.action = action /\ e.outcome = outcome /\ e.resource = w

(* The transitions of specs/design/workflow-state-model.md that the code   *)
(* takes (`failed' and `cancelled' are never entered).                     *)
DocumentedTransitions ==
  {<<None, "received">>, <<"received", "validated">>,
   <<"validated", "guarded">>, <<"guarded", "classified">>,
   <<"classified", "context_built">>,
   <<"context_built", "knowledge_retrieved">>,
   <<"knowledge_retrieved", "planned">>, <<"planned", "evaluated">>,
   <<"evaluated", "awaiting_approval">>,
   <<"awaiting_approval", "approved">>, <<"awaiting_approval", "rejected">>,
   <<"awaiting_approval", "expired">>, <<"approved", "executing">>,
   <<"approved", "expired">>, <<"executing", "evaluating">>,
   <<"evaluating", "completed">>}

-----------------------------------------------------------------------------
(* Safety                                                                  *)

(* The stored history of a workflow is one unbroken path of documented     *)
(* transitions from its creation to its present status, and state_version  *)
(* counts it, whatever handlers raced to write it.                         *)
HistoryFollowsDiagram ==
  \A w \in WorkflowIds : Exists(w) =>
    LET h == workflows[w].history
    IN /\ workflows[w].version = Len(h)
       /\ h[Len(h)].current = workflows[w].status
       /\ \A i \in DOMAIN h :
            /\ <<h[i].previous, h[i].current>> \in DocumentedTransitions
            /\ h[i].previous = IF i = 1 THEN None ELSE h[i - 1].current

(* No step rewrites history: a stored workflow is replaced only by one     *)
(* that extends it, so a handler with a stale snapshot never undoes what   *)
(* another handler stored since.                                           *)
HistoryIsAppendOnly ==
  [][\A w \in WorkflowIds : Exists(w) =>
       LET old == workflows[w].history
           new == workflows'[w].history
       IN /\ Len(old) <= Len(new)
          /\ \A i \in 1..Len(old) : new[i] = old[i]]_vars

(* A decision is made once: no later step changes who decided, what, under *)
(* which key, until when or on which digest; it only becomes consumed, and *)
(* it never becomes unconsumed.                                            *)
DecisionIsFinal ==
  [][\A w \in WorkflowIds : IsDecided(w) =>
       LET old == workflows[w].approval
           new == workflows'[w].approval
       IN new \in {old, [old EXCEPT !.consumed = TRUE]}]_vars

(* A ticket exists only for a workflow that someone other than its owner,  *)
(* with the role for it, approved on the very digest the ticket carries,   *)
(* that passed the policy for each of the three operations, and whose      *)
(* request neither guardrail nor evaluation gate would have stopped.       *)
TicketIsAuthorised ==
  \A e \in executions :
    LET w == workflows[e.key[1]]
    IN /\ w # None
       /\ w.approval # None
       /\ w.approval.decision = "approved"
       /\ w.approval.reviewer # w.owner
       /\ HasRole(w.approval.reviewer, {"reviewer", "administrator"})
       /\ w.approval.digest = e.digest
       /\ w.status \in {"executing", "completed"}
       /\ w.governed = <<"workflow_intake", "agent_planning", "tool_execution">>
       /\ \A o \in Operation : Allows(o, w)
       /\ w.request \notin Injected \cup Ungrounded

(* A workflow gets one ticket however often its task is delivered, and a   *)
(* completed workflow reports that ticket and no other.                    *)
OneTicketPerWorkflow ==
  /\ \A e, f \in executions : e.key[1] = f.key[1] => e = f
  /\ \A w \in WorkflowIds : HasStatus(w, "completed") =>
       /\ workflows[w].ticket \in executions
       /\ workflows[w].ticket.key[1] = w
       /\ workflows[w].approval.consumed

(* Only approved work is ever queued: a rejection, or an expiry before the *)
(* decision, leaves no task behind.                                        *)
QueuedIsApproved == \A w \in WorkflowIds : Queued(w) => IsApproved(w)

(* An approval is stored before its task is enqueued; no approved workflow *)
(* is outside the queue unless a handler is about to enqueue it.           *)
ApprovedIsQueued ==
  \A w \in WorkflowIds :
    IsApproved(w) => Queued(w) \/ Busy(w, "decide", {"decide_enqueue"})

(* A task is taken out of circulation only when its workflow is over: work *)
(* that may still be executed is delivered again.                          *)
UnfinishedWorkIsDeliverable ==
  \A w \in WorkflowIds :
    w \in completed => HasStatus(w, "completed") \/ HasStatus(w, "expired")

(* The head of the queue is never blocked by a workflow whose approval has *)
(* expired: its task is discarded by the handler that expired it.          *)
ExpiredTaskIsDiscarded ==
  \A w \in WorkflowIds :
    HasStatus(w, "expired") /\ Queued(w) =>
      w \in completed \/ Busy(w, "process", {"task_discard"})

(* Decisions, expiries and completions are written before they are         *)
(* audited; each of them is in the audit trail unless its handler is still *)
(* on the way there.                                                       *)
OutcomeIsAudited ==
  \A w \in WorkflowIds :
    /\ IsDecided(w) =>
         \/ Audited(w, "workflow.approval", workflows[w].approval.decision)
         \/ Busy(w, "decide", {"decide_enqueue", "audit"})
    /\ HasStatus(w, "expired") =>
         \/ Audited(w, "workflow.approval", "expired")
         \/ Audited(w, "task.process", "approval_expired")
         \/ Busy(w, "decide", {"audit"})
         \/ Busy(w, "process", {"task_discard", "audit"})
    /\ HasStatus(w, "completed") =>
         \/ Audited(w, "task.process", "completed")
         \/ Busy(w, "process", {"task_complete", "audit"})

(* Concurrent or repeated creates under one scoped key make one workflow,  *)
(* and every stored workflow belongs to exactly one key of its owner.      *)
EachWorkflowHasOneKey ==
  \A w \in WorkflowIds : Exists(w) =>
    /\ \E k \in Keys : idempotency[<<workflows[w].owner, k>>] = w
    /\ Cardinality({k \in Principals \X Keys : idempotency[k] = w}) = 1

-----------------------------------------------------------------------------
(* Liveness                                                                *)

(* Handlers that have started are scheduled until they answer.             *)
HandlersRun == \A t \in Threads : WF_vars(Step(t))

(* An operator keeps asking for the next task, from a thread that does not *)
(* die (an assumption on the environment: the local profile leaves it to   *)
(* an explicit call).                                                      *)
OperatorPolls == SF_vars(\E t \in Threads \ Interruptible : ProcessClaim(t))

FairSpec == Spec /\ HandlersRun /\ OperatorPolls

(* Approved work ends: with a ticket, or expired.                          *)
ApprovedWorkEnds ==
  \A w \in WorkflowIds :
    HasStatus(w, "approved")
      ~> HasStatus(w, "completed") \/ HasStatus(w, "expired")

(* Work in the queue ends even if handlers die at any of its steps: a      *)
(* delivery that was lost with its handler is made again.                  *)
QueuedWorkEnds ==
  \A w \in WorkflowIds :
    HasStatus(w, "approved") /\ Queued(w)
      ~> HasStatus(w, "completed") \/ HasStatus(w, "expired")

(* Execution that has begun completes, even if the handler that began it   *)
(* died: a later delivery resumes it.                                      *)
BegunWorkCompletes ==
  \A w \in WorkflowIds : HasStatus(w, "executing") ~> HasStatus(w, "completed")

-----------------------------------------------------------------------------
(* Statements of the documentation that the code contradicts               *)

(* AC-007: "Given a rejection or expired approval, when processing         *)
(* continues, then no ticket is created".  No ticket is executed later     *)
(* than the approval it relies on.                                         *)
NoTicketAfterExpiry ==
  \A e \in executions :
    IsDecided(e.key[1]) => e.executed <= workflows[e.key[1]].approval.expires

(* AC2-005: "Reusing an idempotency key with the same owner and payload    *)
(* returns the original workflow; changing the payload returns a           *)
(* conflict."  A successful create returns a workflow of the same payload. *)
CreateReturnsSamePayload ==
  \A t \in Threads :
    LET self == thread[t]
    IN self.pc = "reply" /\ self.call.op = "create" /\ self.reply = "ok" =>
         /\ self.snap.request = self.call.request
         /\ self.snap.context = self.call.context

=============================================================================
