--------------------------- MODULE WorkflowProofs ---------------------------
(***************************************************************************)
(* Type correctness of WorkflowService for every set of threads,           *)
(* workflows, principals, requests, contexts and keys, every role          *)
(* assignment, every policy and every bound.                               *)
(***************************************************************************)
EXTENDS WorkflowInvariant, TLAPS

-----------------------------------------------------------------------------
(* Lemmas on the pure functions.                                           *)

(* A path through states is a sequence of transitions.                     *)
LEMMA PathType ==
  ASSUME NEW from \in State \cup {None}, NEW states \in Seq(State)
  PROVE  Path(from, states) \in Seq(Transition)
<1> DEFINE p == Path(from, states)
<1>1. Len(states) \in Nat /\ \A i \in 1..Len(states) : states[i] \in State
  OBVIOUS
<1>2. \A i \in 1..Len(states) :
        [previous |-> IF i = 1 THEN from ELSE states[i - 1],
         current |-> states[i]] \in Transition
  <2> TAKE i \in 1..Len(states)
  <2>1. i # 1 => i - 1 \in 1..Len(states)
    BY <1>1
  <2> QED BY <1>1, <2>1 DEF Transition
<1>3. p \in [1..Len(states) -> Transition]
  BY <1>2 DEF Path
<1> QED BY <1>1, <1>3

(* Advancing a workflow along resting and passing states keeps its type,   *)
(* its identity and everything but status, version and history.            *)
LEMMA AdvanceType ==
  ASSUME NEW w \in Workflow, NEW states \in Seq(State),
         Len(states) > 0, states[Len(states)] \in Status
  PROVE  LET a == Advance(w, states)
         IN /\ a \in Workflow
            /\ a = [w EXCEPT !.status  = a.status,
                              !.version = a.version,
                              !.history = a.history]
            /\ a.status = states[Len(states)]
            /\ a.version = w.version + Len(states)
            /\ a.history = w.history \o Path(w.status, states)
<1>1. Path(w.status, states) \in Seq(Transition)
  BY PathType DEF Workflow, State
<1>2. w.history \o Path(w.status, states) \in Seq(Transition)
  BY <1>1 DEF Workflow
<1>3. w.version + Len(states) \in Nat
  BY DEF Workflow
<1> QED BY <1>2, <1>3 DEF Advance, Workflow

(* Resting states are states.                                              *)
LEMMA StatusIsState == Status \subseteq State /\ "evaluating" \in State
BY DEF State

(* One transition, to a resting state.                                     *)
LEMMA AdvanceOnce ==
  ASSUME NEW w \in Workflow, NEW status \in Status
  PROVE  LET a == Advance(w, <<status>>)
         IN /\ a \in Workflow
            /\ a = [w EXCEPT !.status  = status,
                              !.version = w.version + 1,
                              !.history = a.history]
            /\ a.history = w.history \o Path(w.status, <<status>>)
<1> DEFINE states == <<status>>
<1>1. states \in Seq(State) /\ Len(states) = 1 /\ states[1] = status
  BY StatusIsState
<1>2. Len(states) > 0 /\ states[Len(states)] \in Status
  BY <1>1
<1> HIDE DEF states
<1>3. LET a == Advance(w, states)
      IN /\ a \in Workflow
         /\ a = [w EXCEPT !.status  = a.status,
                           !.version = a.version,
                           !.history = a.history]
         /\ a.status = states[Len(states)]
         /\ a.version = w.version + Len(states)
         /\ a.history = w.history \o Path(w.status, states)
  BY <1>1, <1>2, AdvanceType
<1> QED BY <1>1, <1>3 DEF states

(* The two transitions of complete_execution, through evaluating.          *)
LEMMA AdvanceToCompletion ==
  ASSUME NEW w \in Workflow
  PROVE  LET a == Advance(w, <<"evaluating", "completed">>)
         IN /\ a \in Workflow
            /\ a = [w EXCEPT !.status  = "completed",
                              !.version = w.version + 2,
                              !.history = a.history]
            /\ a.history = w.history \o Path(w.status, <<"evaluating", "completed">>)
<1> DEFINE states == <<"evaluating", "completed">>
<1>1. states \in Seq(State) /\ Len(states) = 2 /\ states[2] = "completed"
  BY StatusIsState DEF Status
<1>2. Len(states) > 0 /\ states[Len(states)] \in Status
  BY <1>1 DEF Status
<1> HIDE DEF states
<1>3. LET a == Advance(w, states)
      IN /\ a \in Workflow
         /\ a = [w EXCEPT !.status  = a.status,
                           !.version = a.version,
                           !.history = a.history]
         /\ a.status = states[Len(states)]
         /\ a.version = w.version + Len(states)
         /\ a.history = w.history \o Path(w.status, states)
  BY <1>1, <1>2, AdvanceType
<1> QED BY <1>1, <1>3 DEF states

(* The planning path is a sequence of states that ends in awaiting_approval.*)
LEMMA PlanningPathType ==
  /\ PlanningPath \in Seq(State) /\ Len(PlanningPath) = 8
  /\ PlanningPath[Len(PlanningPath)] = "awaiting_approval"
<1>1. Len(PlanningPath) = 8 /\ PlanningPath[8] = "awaiting_approval"
  BY DEF PlanningPath
<1>2. \A i \in 1..8 : PlanningPath[i] \in State
  BY DEF State, Status, PlanningPath
<1>3. PlanningPath \in Seq(State)
  BY <1>1, <1>2 DEF PlanningPath
<1> QED BY <1>1, <1>3

LEMMA ReceiveType ==
  ASSUME NEW id \in WorkflowIds, NEW p \in Principals,
         NEW r \in Requests, NEW c \in Contexts
  PROVE  /\ Receive(id, p, r, c) \in Workflow
         /\ Receive(id, p, r, c).id = id
<1>1. [previous |-> None, current |-> "received"] \in Transition
  BY StatusIsState DEF Transition, Status
<1>2. <<[previous |-> None, current |-> "received"]>> \in Seq(Transition)
  BY <1>1
<1>3. <<"workflow_intake">> \in Seq(Operation)
  BY DEF Operation
<1> QED BY <1>2, <1>3 DEF Receive, Workflow, Status

LEMMA ProposalType ==
  ASSUME NEW w \in Workflow, NEW now \in Nat
  PROVE  CreateToolProposal(w, now) \in Proposal
BY TTLAssumption DEF CreateToolProposal, Proposal, Workflow, Digest

LEMMA ApprovalType ==
  ASSUME NEW proposal \in Proposal, NEW p \in Principals,
         NEW d \in Decision, NEW k \in Keys, NEW now \in Nat
  PROVE  CreateApprovalDecision(proposal, p, d, k, now) \in Approval
BY TTLAssumption
   DEF CreateApprovalDecision, Approval, Proposal, Earlier

LEMMA TaskType ==
  ASSUME NEW w \in Workflow, w.proposal \in Proposal
  PROVE  /\ CreateExecutionTask(w) \in Task
         /\ CreateExecutionTask(w).workflow = w.id
BY DEF CreateExecutionTask, Task, Proposal, Workflow

LEMMA PlannedType ==
  ASSUME NEW w \in Workflow, NEW proposal \in Proposal
  PROVE  /\ ApplyPlanningResult(w, proposal) \in Workflow
         /\ ApplyPlanningResult(w, proposal).id = w.id
<1> DEFINE a == Advance(w, PlanningPath)
<1>1. a \in Workflow /\ a.id = w.id
  <2>1. PlanningPath[Len(PlanningPath)] \in Status /\ Len(PlanningPath) > 0
    BY PlanningPathType DEF Status
  <2>2. /\ a \in Workflow
        /\ a = [w EXCEPT !.status = a.status, !.version = a.version,
                         !.history = a.history]
    BY <2>1, PlanningPathType, AdvanceType
  <2> QED BY <2>2 DEF Workflow
<1>2. Append(a.governed, "agent_planning") \in Seq(Operation)
  BY <1>1 DEF Workflow, Operation
<1>3. ApplyPlanningResult(w, proposal) =
        [a EXCEPT !.governed = Append(a.governed, "agent_planning"),
                  !.proposal = proposal]
  BY <1>1 DEF ApplyPlanningResult, Workflow
<1> QED BY <1>1, <1>2, <1>3 DEF Workflow

LEMMA DecidedType ==
  ASSUME NEW w \in Workflow, NEW approval \in Approval
  PROVE  /\ RecordApproval(w, approval) \in Workflow
         /\ RecordApproval(w, approval).id = w.id
         /\ RecordApproval(w, approval).proposal = w.proposal
<1> DEFINE a == Advance(w, <<approval.decision>>)
<1>1. approval.decision \in Status
  BY DEF Approval, Decision, Status
<1>2. a \in Workflow /\ a.id = w.id /\ a.proposal = w.proposal
  <2>1. /\ a \in Workflow
        /\ a = [w EXCEPT !.status  = approval.decision,
                         !.version = w.version + 1,
                         !.history = a.history]
    BY <1>1, AdvanceOnce
  <2> QED BY <2>1 DEF Workflow
<1>3. RecordApproval(w, approval) = [a EXCEPT !.approval = approval]
  BY DEF RecordApproval
<1> QED BY <1>2, <1>3 DEF Workflow

LEMMA ExpiredType ==
  ASSUME NEW w \in Workflow
  PROVE  Expire(w) \in Workflow /\ Expire(w).id = w.id
<1>1. "expired" \in Status
  BY DEF Status
<1> DEFINE a == Advance(w, <<"expired">>)
<1>2. /\ a \in Workflow
      /\ a = [w EXCEPT !.status  = "expired",
                       !.version = w.version + 1,
                       !.history = a.history]
  BY <1>1, AdvanceOnce
<1> QED BY <1>2 DEF Expire, Workflow

LEMMA BegunType ==
  ASSUME NEW w \in Workflow
  PROVE  /\ BeginExecution(w) \in Workflow
         /\ BeginExecution(w).id = w.id
         /\ BeginExecution(w).proposal = w.proposal
         /\ BeginExecution(w).approval = w.approval
<1> DEFINE a == Advance(w, <<"executing">>)
<1>1. "executing" \in Status
  BY DEF Status
<1>2. /\ a \in Workflow /\ a.id = w.id
      /\ a.proposal = w.proposal /\ a.approval = w.approval
  <2>1. /\ a \in Workflow
        /\ a = [w EXCEPT !.status  = "executing",
                         !.version = w.version + 1,
                         !.history = a.history]
    BY <1>1, AdvanceOnce
  <2> QED BY <2>1 DEF Workflow
<1>3. Append(a.governed, "tool_execution") \in Seq(Operation)
  BY <1>2 DEF Workflow, Operation
<1>4. BeginExecution(w) =
        [a EXCEPT !.governed = Append(a.governed, "tool_execution")]
  BY <1>2 DEF BeginExecution, Workflow
<1> QED BY <1>2, <1>3, <1>4 DEF Workflow

LEMMA CompletedType ==
  ASSUME NEW w \in Workflow, w.approval \in Approval, NEW ticket \in Ticket
  PROVE  /\ CompleteExecution(w, ticket) \in Workflow
         /\ CompleteExecution(w, ticket).id = w.id
         /\ CompleteExecution(w, ticket).proposal = w.proposal
<1> DEFINE a == Advance(w, <<"evaluating", "completed">>)
           c == [w.approval EXCEPT !.consumed = TRUE]
<1>2. /\ a \in Workflow /\ a.id = w.id
      /\ a.approval = w.approval /\ a.proposal = w.proposal
  <2>1. /\ a \in Workflow
        /\ a = [w EXCEPT !.status  = "completed",
                         !.version = w.version + 2,
                         !.history = a.history]
    BY AdvanceToCompletion
  <2> QED BY <2>1 DEF Workflow
<1>3. c \in Approval
  BY DEF Approval
<1>4. CompleteExecution(w, ticket) =
        [a EXCEPT !.approval = c, !.ticket = ticket]
  BY <1>2 DEF CompleteExecution, Workflow
<1> QED BY <1>2, <1>3, <1>4, ZenonT(40) DEF Workflow

-----------------------------------------------------------------------------
(* Lemmas on the endings of a handler.                                     *)

LEMMA IdleType == IdleThread \in ThreadState /\ Shape(IdleThread)
BY DEF IdleThread, NoCall, ThreadState, PC, CallFrame, Shape, HoldsSnap,
       HoldsTask, Deciding, Executing

LEMMA AnswerType ==
  ASSUME NEW self, self.call \in CallFrame, NEW w \in Workflow \cup {None}
  PROVE  /\ Answer(self, w) \in ThreadState /\ Shape(Answer(self, w))
         /\ Answer(self, w).call = self.call
BY DEF Answer, IdleThread, ThreadState, PC, Reply, Shape, HoldsSnap,
       HoldsTask, Deciding, Executing

LEMMA RaiseType ==
  ASSUME NEW self, self.call \in CallFrame, NEW error \in Reply
  PROVE  /\ Raise(self, error) \in ThreadState /\ Shape(Raise(self, error))
         /\ Raise(self, error).call = self.call
BY DEF Raise, IdleThread, ThreadState, PC, Shape, HoldsSnap,
       HoldsTask, Deciding, Executing

LEMMA EventType ==
  ASSUME NEW self, self.call \in CallFrame, NEW action \in AuditAction,
         NEW outcome \in AuditOutcome, NEW resource \in WorkflowIds \cup {None}
  PROVE  Event(self, action, outcome, resource) \in AuditEvent
BY DEF Event, AuditEvent, CallFrame

LEMMA AuditThenType ==
  ASSUME NEW ending \in ThreadState, NEW action \in AuditAction,
         NEW outcome \in AuditOutcome
  PROVE  /\ AuditThen(ending, action, outcome) \in ThreadState
         /\ Shape(AuditThen(ending, action, outcome))
<1>1. ending.call \in CallFrame /\ ending.call.id \in WorkflowIds \cup {None}
  BY DEF ThreadState, CallFrame
<1> DEFINE e == Event(ending, action, outcome, ending.call.id)
<1>2. e \in AuditEvent
  BY <1>1, EventType
<1> HIDE DEF e
<1>3. [ending EXCEPT !.pc = "audit", !.event = e] \in ThreadState
  BY <1>2 DEF ThreadState, PC
<1>4. Shape([ending EXCEPT !.pc = "audit", !.event = e])
  BY <1>2 DEF Shape, ThreadState, HoldsSnap, HoldsTask, Deciding, Executing
<1> QED BY <1>3, <1>4 DEF AuditThen, e

(* Recording a well-formed event keeps the audit trail well-formed.        *)
LEMMA RecordType ==
  ASSUME events \subseteq AuditEvent, NEW e \in AuditEvent, Record(e)
  PROVE  events' \subseteq AuditEvent
BY DEF Record

(* A call frame that names the operation and the caller.                   *)
LEMMA CallType ==
  /\ NoCall \in CallFrame
  /\ \A op \in {"create", "read", "plan", "decide", "process"},
        p \in Principals, w \in WorkflowIds \cup {None} :
       [NoCall EXCEPT !.op = op, !.by = p, !.id = w] \in CallFrame
  /\ \A op \in {"create", "read", "plan", "decide", "process"}, p \in Principals :
       [NoCall EXCEPT !.op = op, !.by = p] \in CallFrame
  /\ \A p \in Principals, w \in WorkflowIds, k \in Keys, d \in Decision :
       DecideCall(p, w, k, d) \in CallFrame
BY DEF NoCall, CallFrame, DecideCall

-----------------------------------------------------------------------------
(* Lemmas on the building blocks of the actions.                           *)

(* A step that changes one handler and, perhaps, the audit trail.          *)
LEMMA ThreadStep ==
  ASSUME TypeInv, NEW t \in Threads, NEW s \in ThreadState, Shape(s),
         Becomes(t, s), events' \subseteq AuditEvent, clock' = clock,
         UNCHANGED <<workflows, idempotency, queue, executions>>
  PROVE  TypeInv'
<1>1. thread' \in [Threads -> ThreadState]
  BY DEF TypeInv, TypeOK, Becomes
<1>2. \A u \in Threads : Shape(thread'[u])
  BY DEF TypeInv, TypeOK, Becomes
<1>3. TypeOK'
  BY <1>1 DEF TypeInv, TypeOK, queue
<1>4. (\A u \in Threads : Shape(thread[u]))'
  BY <1>2
<1> QED BY <1>3, <1>4 DEF TypeInv, KeysResolve, OrderHasTasks, queue

(* A write to the repository, whether it succeeds or finds a newer version.*)
LEMMA UpdateStep ==
  ASSUME TypeInv, NEW t \in Threads, NEW new \in Workflow,
         NEW next \in ThreadState, Shape(next), Update(t, new, next),
         UNCHANGED <<idempotency, queue, executions, events, clock>>
  PROVE  TypeInv'
<1> DEFINE failed == Raise(thread[t], "InvalidWorkflowState")
<1>1. failed \in ThreadState /\ Shape(failed)
  BY RaiseType DEF TypeInv, TypeOK, ThreadState, Reply
<1> HIDE DEF failed
<1>2. PICK s \in {next, failed} : Becomes(t, s)
  BY DEF Update, failed
<1>3. /\ thread' \in [Threads -> ThreadState]
      /\ \A u \in Threads : Shape(thread'[u])
  BY <1>1, <1>2 DEF TypeInv, TypeOK, Becomes
<1>4. /\ workflows' \in [WorkflowIds -> Workflow \cup {None}]
      /\ \A w \in WorkflowIds : workflows'[w] # None => workflows'[w].id = w
  BY DEF Update, TypeInv, TypeOK, Workflow
<1>5. TypeOK'
  BY <1>3, <1>4 DEF TypeInv, TypeOK, queue
<1>6. (\A u \in Threads : Shape(thread[u]))'
  BY <1>3
<1>7. KeysResolve'
  <2>1. \A w \in WorkflowIds : workflows[w] # None => workflows'[w] # None
    BY NoneAssumption DEF Update, TypeInv, TypeOK
  <2> QED BY <2>1 DEF TypeInv, TypeOK, KeysResolve
<1> QED BY <1>5, <1>6, <1>7 DEF TypeInv, OrderHasTasks, queue

LEMMA EnqueueStep ==
  ASSUME TypeInv, NEW t \in Threads, NEW task \in Task,
         NEW next \in ThreadState, Shape(next), Enqueue(t, task, next),
         UNCHANGED <<workflows, idempotency, executions, events, clock>>
  PROVE  TypeInv'
<1> DEFINE failed == Raise(thread[t], "IdempotencyConflict")
<1>1. failed \in ThreadState /\ Shape(failed)
  BY RaiseType DEF TypeInv, TypeOK, ThreadState, Reply
<1> HIDE DEF failed
<1>2. PICK s \in {next, failed} : Becomes(t, s)
  BY DEF Enqueue, failed
<1>3. /\ thread' \in [Threads -> ThreadState]
      /\ \A u \in Threads : Shape(thread'[u])
  BY <1>1, <1>2 DEF TypeInv, TypeOK, Becomes
<1>4. task.workflow \in WorkflowIds
  BY DEF Task
<1>5. /\ tasks' \in [WorkflowIds -> Task \cup {None}]
      /\ order' \in Seq(WorkflowIds) /\ completed' = completed
      /\ \A w \in WorkflowIds : tasks'[w] # None => tasks'[w].workflow = w
  <2>1. CASE tasks[task.workflow] = None
    <3>1. /\ tasks' = [tasks EXCEPT ![task.workflow] = task]
          /\ order' = Append(order, task.workflow) /\ completed' = completed
      BY <2>1 DEF Enqueue
    <3> QED BY <1>4, <3>1 DEF TypeInv, TypeOK
  <2>2. CASE tasks[task.workflow] # None
    BY <2>2 DEF Enqueue, TypeInv, TypeOK
  <2> QED BY <2>1, <2>2
<1>6. TypeOK'
  BY <1>3, <1>5 DEF TypeInv, TypeOK
<1>7. (\A u \in Threads : Shape(thread[u]))'
  BY <1>3
<1>8. OrderHasTasks'
  <2>1. CASE tasks[task.workflow] = None
    <3>1. /\ tasks' = [tasks EXCEPT ![task.workflow] = task]
          /\ order' = Append(order, task.workflow)
      BY <2>1 DEF Enqueue
    <3> QED BY <1>4, <3>1, NoneAssumption DEF TypeInv, TypeOK, OrderHasTasks
  <2>2. CASE tasks[task.workflow] # None
    BY <2>2 DEF Enqueue, TypeInv, OrderHasTasks
  <2> QED BY <2>1, <2>2
<1> QED BY <1>6, <1>7, <1>8 DEF TypeInv, KeysResolve

LEMMA CompleteStep ==
  ASSUME TypeInv, NEW t \in Threads, thread[t].task \in Task,
         NEW next \in ThreadState, Shape(next), Complete(t, next)
  PROVE  TypeInv'
<1>1. /\ thread' \in [Threads -> ThreadState]
      /\ \A u \in Threads : Shape(thread'[u])
  BY DEF TypeInv, TypeOK, Becomes, Complete
<1>2. completed' \subseteq WorkflowIds
  BY DEF Complete, TypeInv, TypeOK, Task
<1>3. TypeOK'
  BY <1>1, <1>2 DEF TypeInv, TypeOK, Complete
<1>4. (\A u \in Threads : Shape(thread[u]))'
  BY <1>1
<1> QED BY <1>3, <1>4 DEF TypeInv, KeysResolve, OrderHasTasks, Complete

-----------------------------------------------------------------------------
(* Each action preserves TypeInv.                                          *)

LEMMA TypeInit == Init => TypeInv
<1> SUFFICES ASSUME Init PROVE TypeInv
  OBVIOUS
<1>1. \A t \in Threads : thread[t] \in ThreadState /\ Shape(thread[t])
  BY IdleType DEF Init
<1> QED BY <1>1 DEF Init, TypeInv, TypeOK, KeysResolve, OrderHasTasks

(* A role check that fails: one audit event, one error.                    *)
LEMMA RefuseStep ==
  ASSUME TypeInv, NEW t \in Threads, NEW call \in CallFrame,
         NEW action \in AuditAction, Refuse(t, call, action),
         UNCHANGED <<workflows, idempotency, queue, executions, clock>>
  PROVE  TypeInv'
<1> DEFINE self == [IdleThread EXCEPT !.call = call]
<1>1. self.call \in CallFrame
  BY DEF IdleThread
<1> HIDE DEF self
<1>2. /\ Event(self, action, "denied", None) \in AuditEvent
      /\ Record(Event(self, action, "denied", None))
      /\ Becomes(t, Raise(self, "PermissionDenied"))
  BY <1>1, EventType DEF Refuse, self, AuditOutcome
<1>3. events' \subseteq AuditEvent
  BY <1>2, RecordType DEF TypeInv, TypeOK
<1>4. /\ Raise(self, "PermissionDenied") \in ThreadState
      /\ Shape(Raise(self, "PermissionDenied"))
  BY <1>1, RaiseType DEF Reply
<1> QED BY <1>2, <1>3, <1>4, ThreadStep

LEMMA TypeRefused ==
  ASSUME TypeInv, NEW t \in Threads,
         CreateRefused(t) \/ DecideRefused(t) \/ ProcessRefused(t)
  PROVE  TypeInv'
<1>1. CASE CreateRefused(t)
  <2>1. PICK p \in Principals :
          Refuse(t, [NoCall EXCEPT !.op = "create", !.by = p], "workflow.create")
    BY <1>1 DEF CreateRefused
  <2> QED BY <1>1, <2>1, CallType, RefuseStep DEF CreateRefused, AuditAction
<1>2. CASE DecideRefused(t)
  <2>1. PICK p \in Principals :
          Refuse(t, [NoCall EXCEPT !.op = "decide", !.by = p], "workflow.approval")
    BY <1>2 DEF DecideRefused
  <2> QED BY <1>2, <2>1, CallType, RefuseStep DEF DecideRefused, AuditAction
<1>3. CASE ProcessRefused(t)
  <2>1. PICK p \in Principals : Refuse(t, ProcessCall(p, None), "task.process")
    BY <1>3 DEF ProcessRefused
  <2>2. ProcessCall(p, None) \in CallFrame
    BY CallType DEF ProcessCall
  <2> QED BY <1>3, <2>1, <2>2, RefuseStep DEF ProcessRefused, AuditAction
<1> QED BY <1>1, <1>2, <1>3

LEMMA TypeReadLoad ==
  ASSUME TypeInv, NEW t \in Threads, ReadLoad(t)
  PROVE  TypeInv'
<1>1. PICK p \in Principals, w \in WorkflowIds, visible \in BOOLEAN :
        LET self == [IdleThread EXCEPT !.call =
                       [NoCall EXCEPT !.op = "read", !.by = p, !.id = w]]
        IN Becomes(t,
             IF visible
               THEN AuditThen(Answer(self, workflows[w]), "workflow.read", "allowed")
               ELSE AuditThen(Raise(self, "WorkflowNotFound"),
                              "workflow.read", "not_found"))
  BY DEF ReadLoad
<1> DEFINE call == [NoCall EXCEPT !.op = "read", !.by = p, !.id = w]
           self == [IdleThread EXCEPT !.call = call]
           good == AuditThen(Answer(self, workflows[w]), "workflow.read", "allowed")
           miss == AuditThen(Raise(self, "WorkflowNotFound"),
                             "workflow.read", "not_found")
<1>2. self.call \in CallFrame
  BY CallType DEF IdleThread
<1>3. workflows[w] \in Workflow \cup {None}
  BY DEF TypeInv, TypeOK
<1> HIDE DEF self
<1>4. /\ Answer(self, workflows[w]) \in ThreadState
      /\ Raise(self, "WorkflowNotFound") \in ThreadState
  BY <1>2, <1>3, AnswerType, RaiseType DEF Reply
<1>5. /\ good \in ThreadState /\ Shape(good)
      /\ miss \in ThreadState /\ Shape(miss)
  BY <1>4, AuditThenType DEF AuditAction, AuditOutcome
<1>6. \E s \in {good, miss} : Becomes(t, s)
  BY <1>1 DEF self
<1>7. events' \subseteq AuditEvent /\ clock' = clock
      /\ UNCHANGED <<workflows, idempotency, queue, executions>>
  BY DEF ReadLoad, TypeInv, TypeOK
<1> HIDE DEF good, miss
<1> QED BY <1>5, <1>6, <1>7, ThreadStep

LEMMA TypeCreateIntake ==
  ASSUME TypeInv, NEW t \in Threads, CreateIntake(t)
  PROVE  TypeInv'
<1>1. PICK p \in Principals, w \in WorkflowIds, r \in Requests,
           c \in Contexts, k \in Keys :
        LET call == CreateCall(p, w, r, c, k)
            self == [IdleThread EXCEPT !.call = call]
        IN /\ HasRole(p, {"requester", "administrator"})
           /\ FreshId(w)
           /\ IF c \in UnreviewedOverlay
                THEN /\ Becomes(t, Raise(self, "ComplianceOverlayUnavailable"))
                     /\ UNCHANGED events
                ELSE /\ Record(Event(self, "data_processing.workflow_intake",
                                     Outcome("workflow_intake", call), None))
                     /\ Becomes(t, IF Allows("workflow_intake", call)
                                     THEN [self EXCEPT !.pc = "create_store"]
                                     ELSE Raise(self, "DataProcessingDenied"))
  BY DEF CreateIntake
<1> DEFINE call == CreateCall(p, w, r, c, k)
           self == [IdleThread EXCEPT !.call = call]
           next == [self EXCEPT !.pc = "create_store"]
           e == Event(self, "data_processing.workflow_intake",
                      Outcome("workflow_intake", call), None)
<1>2. /\ call \in CallFrame
      /\ call.by = p /\ call.id = w /\ call.request = r /\ call.context = c
      /\ call.key = k
  BY DEF CreateCall, NoCall, CallFrame
<1> HIDE DEF call
<1>3. self.call = call
  BY DEF IdleThread
<1>4. next \in ThreadState /\ Shape(next)
  BY <1>2 DEF IdleThread, ThreadState, PC, Shape, HoldsSnap, HoldsTask,
             Deciding, Executing
<1> HIDE DEF self
<1>5. e \in AuditEvent
  BY <1>2, <1>3, EventType DEF AuditAction, AuditOutcome, Outcome
<1> HIDE DEF next, e
<1>6. events' \subseteq AuditEvent
  <2>1. Record(e) \/ UNCHANGED events
    BY <1>1 DEF call, self, e
  <2> QED BY <1>5, <2>1, RecordType DEF TypeInv, TypeOK
<1>7. \A error \in Reply :
        Raise(self, error) \in ThreadState /\ Shape(Raise(self, error))
  BY <1>2, <1>3, RaiseType
<1>8. \/ Becomes(t, Raise(self, "ComplianceOverlayUnavailable"))
      \/ Becomes(t, next)
      \/ Becomes(t, Raise(self, "DataProcessingDenied"))
  BY <1>1 DEF call, self, next
<1>9. clock' = clock /\ UNCHANGED <<workflows, idempotency, queue, executions>>
  BY DEF CreateIntake
<1> QED BY <1>4, <1>6, <1>7, <1>8, <1>9, ThreadStep DEF Reply

LEMMA TypeCreateStore ==
  ASSUME TypeInv, NEW t \in Threads, CreateStore(t)
  PROVE  TypeInv'
<1> DEFINE self == thread[t]
           call == self.call
           w    == Receive(call.id, call.by, call.request, call.context)
           seen == Known(call)
           Ended(x) == [Answer(self, x) EXCEPT !.call.id = x.id]
           Stored(x) == AuditThen(Ended(x), "workflow.create", "accepted")
           conflict == Raise(self, "IdempotencyConflict")
<1>1. /\ call.by \in Principals /\ call.id \in WorkflowIds
      /\ call.request \in Requests /\ call.context \in Contexts
      /\ call.key \in Keys /\ call \in CallFrame
  BY DEF CreateStore, TypeInv, TypeOK, Shape, ThreadState
<1>2. w \in Workflow /\ w.id = call.id
  BY <1>1, ReceiveType
<1>3. seen \in WorkflowIds \cup {None}
  BY <1>1 DEF TypeInv, TypeOK, Known
<1>4. ASSUME NEW x \in Workflow
      PROVE  Stored(x) \in ThreadState /\ Shape(Stored(x))
  <2>1. Answer(self, x) \in ThreadState
    BY <1>1, AnswerType
  <2>2. x.id \in WorkflowIds
    BY DEF Workflow
  <2>3. Ended(x) \in ThreadState
    BY <2>1, <2>2 DEF ThreadState, CallFrame
  <2> HIDE DEF Ended
  <2> QED BY <2>3, AuditThenType DEF AuditAction, AuditOutcome
<1>5. conflict \in ThreadState /\ Shape(conflict)
  BY <1>1, RaiseType DEF Reply
<1> HIDE DEF conflict
<1>6. CASE seen # None /\ UNCHANGED <<workflows, idempotency>>
  <2>1. seen \in WorkflowIds
    BY <1>3, <1>6
  <2>2. \E s \in {Stored(workflows[seen]), conflict} : Becomes(t, s)
    BY <1>6 DEF CreateStore, conflict
  <2>3. workflows[seen] \in Workflow
    BY <2>1, <1>1, <1>6 DEF TypeInv, TypeOK, KeysResolve, Known
  <2> QED BY <1>4, <1>5, <1>6, <2>2, <2>3, ThreadStep DEF CreateStore, TypeInv, TypeOK
<1>7. CASE /\ workflows' = [workflows EXCEPT ![call.id] = w]
           /\ idempotency' = [idempotency EXCEPT ![<<call.by, call.key>>] = call.id]
           /\ Becomes(t, Stored(w))
  <2>1. Stored(w) \in ThreadState /\ Shape(Stored(w))
    BY <1>2, <1>4
  <2> HIDE DEF Stored, w
  <2>2. /\ thread' \in [Threads -> ThreadState]
        /\ \A u \in Threads : Shape(thread'[u])
    BY <1>7, <2>1 DEF TypeInv, TypeOK, Becomes
  <2>3. /\ workflows' \in [WorkflowIds -> Workflow \cup {None}]
        /\ \A x \in WorkflowIds : workflows'[x] # None => workflows'[x].id = x
    BY <1>1, <1>2, <1>7 DEF TypeInv, TypeOK
  <2>4. idempotency' \in [Principals \X Keys -> WorkflowIds \cup {None}]
    BY <1>1, <1>7 DEF TypeInv, TypeOK
  <2>5. TypeOK'
    BY <2>2, <2>3, <2>4 DEF TypeInv, TypeOK, CreateStore, queue
  <2>6. (\A u \in Threads : Shape(thread[u]))'
    BY <2>2
  <2>7. KeysResolve'
    BY <1>1, <1>2, <1>7, NoneAssumption DEF TypeInv, TypeOK, KeysResolve
  <2> QED BY <2>5, <2>6, <2>7 DEF TypeInv, OrderHasTasks, CreateStore, queue
<1> QED BY <1>6, <1>7 DEF CreateStore

LEMMA TypePlanLoad ==
  ASSUME TypeInv, NEW t \in Threads, PlanLoad(t)
  PROVE  TypeInv'
<1>1. PICK p \in Principals, w \in WorkflowIds :
        LET found == workflows[w]
            self  == [IdleThread EXCEPT
                        !.call = [NoCall EXCEPT !.op = "plan", !.by = p, !.id = w]]
            mayPlan == /\ found # None
                       /\ found.owner = p \/ HasRole(p, {"administrator"})
        IN \/ /\ ~mayPlan
              /\ Becomes(t, AuditThen(Raise(self, "WorkflowNotFound"),
                                      "workflow.plan", "not_found"))
           \/ /\ mayPlan /\ found.proposal # None
              /\ Becomes(t, Answer(self, found))
           \/ /\ mayPlan /\ found.proposal = None
              /\ Becomes(t, IF found.status = "received"
                              THEN [self EXCEPT !.pc = "plan_policy", !.snap = found]
                              ELSE Raise(self, "InvalidWorkflowState"))
  BY DEF PlanLoad
<1> DEFINE found == workflows[w]
           call == [NoCall EXCEPT !.op = "plan", !.by = p, !.id = w]
           self == [IdleThread EXCEPT !.call = call]
           next == [self EXCEPT !.pc = "plan_policy", !.snap = found]
           miss == AuditThen(Raise(self, "WorkflowNotFound"),
                             "workflow.plan", "not_found")
<1>2. call \in CallFrame /\ found \in Workflow \cup {None}
  BY CallType DEF TypeInv, TypeOK
<1> HIDE DEF call
<1>3. self.call = call
  BY DEF IdleThread
<1>4. found # None => next \in ThreadState /\ Shape(next)
  BY <1>2 DEF IdleThread, ThreadState, PC, Shape, HoldsSnap, HoldsTask,
             Deciding, Executing
<1> HIDE DEF self, next
<1>5. miss \in ThreadState /\ Shape(miss)
  <2>1. Raise(self, "WorkflowNotFound") \in ThreadState
    BY <1>2, <1>3, RaiseType DEF Reply
  <2> QED BY <2>1, AuditThenType DEF AuditAction, AuditOutcome
<1>6. /\ Answer(self, found) \in ThreadState /\ Shape(Answer(self, found))
      /\ Raise(self, "InvalidWorkflowState") \in ThreadState
      /\ Shape(Raise(self, "InvalidWorkflowState"))
  BY <1>2, <1>3, AnswerType, RaiseType DEF Reply
<1>7. \/ Becomes(t, miss) \/ Becomes(t, Answer(self, found))
      \/ found # None /\ Becomes(t, next)
      \/ Becomes(t, Raise(self, "InvalidWorkflowState"))
  BY <1>1 DEF call, self, next
<1>8. /\ events' \subseteq AuditEvent /\ clock' = clock
      /\ UNCHANGED <<workflows, idempotency, queue, executions>>
  BY DEF PlanLoad, TypeInv, TypeOK
<1> HIDE DEF found, miss
<1> QED BY <1>4, <1>5, <1>6, <1>7, <1>8, ThreadStep

LEMMA TypePlanPolicy ==
  ASSUME TypeInv, NEW t \in Threads, PlanPolicy(t)
  PROVE  TypeInv'
<1> DEFINE self == thread[t]
           w    == self.snap
           e    == Event(self, "data_processing.agent_planning",
                         Outcome("agent_planning", w), w.id)
           next == [self EXCEPT !.pc = "plan_clock"]
           blocked == AuditThen(Raise(self, "PromptInjectionRejected"),
                                "guardrail.input", "blocked")
           failed  == AuditThen(Raise(self, "EvaluationGateRejected"),
                                "evaluation.planning_gate", "failed")
<1>1. self \in ThreadState /\ self.call \in CallFrame /\ w \in Workflow
  BY DEF PlanPolicy, TypeInv, TypeOK, Shape, ThreadState, HoldsSnap
<1>2. e \in AuditEvent
  BY <1>1, EventType DEF AuditAction, AuditOutcome, Outcome, Workflow
<1>3. events' \subseteq AuditEvent
  BY <1>2, RecordType DEF PlanPolicy, TypeInv, TypeOK
<1>4. next \in ThreadState /\ Shape(next)
  BY <1>1 DEF ThreadState, PC, Shape, HoldsSnap, HoldsTask, Deciding, Executing
<1> HIDE DEF self
<1>5. \A error \in Reply :
        Raise(self, error) \in ThreadState /\ Shape(Raise(self, error))
  BY <1>1, RaiseType
<1>6. /\ blocked \in ThreadState /\ Shape(blocked)
      /\ failed \in ThreadState /\ Shape(failed)
  BY <1>5, AuditThenType DEF AuditAction, AuditOutcome, Reply
<1>7. \/ Becomes(t, Raise(self, "DataProcessingDenied"))
      \/ Becomes(t, blocked) \/ Becomes(t, failed) \/ Becomes(t, next)
  BY DEF PlanPolicy, self
<1>8. clock' = clock /\ UNCHANGED <<workflows, idempotency, queue, executions>>
  BY DEF PlanPolicy
<1> HIDE DEF blocked, failed, next
<1> QED BY <1>3, <1>4, <1>5, <1>6, <1>7, <1>8, ThreadStep DEF Reply

LEMMA TypeReadClock ==
  ASSUME TypeInv, NEW t \in Threads, PlanClock(t) \/ DecideClock(t)
  PROVE  TypeInv'
<1> DEFINE self == thread[t]
           next(pc) == [self EXCEPT !.at = clock, !.pc = pc]
<1>1. self \in ThreadState /\ Shape(self) /\ clock \in Nat
  BY DEF TypeInv, TypeOK
<1>2. /\ events' \subseteq AuditEvent /\ clock' = clock
      /\ UNCHANGED <<workflows, idempotency, queue, executions>>
  BY DEF PlanClock, DecideClock, ReadClock, TypeInv, TypeOK
<1>3. CASE PlanClock(t)
  <2>1. next("plan_store") \in ThreadState /\ Shape(next("plan_store"))
    BY <1>1, <1>3 DEF PlanClock, ReadClock, ThreadState, PC, Shape, HoldsSnap,
                      HoldsTask, Deciding, Executing
  <2>2. Becomes(t, next("plan_store"))
    BY <1>3 DEF PlanClock, ReadClock
  <2> HIDE DEF next
  <2> QED BY <1>2, <2>1, <2>2, ThreadStep
<1>4. CASE DecideClock(t)
  <2>1. next("decide_store") \in ThreadState /\ Shape(next("decide_store"))
    BY <1>1, <1>4 DEF DecideClock, ReadClock, ThreadState, PC, Shape, HoldsSnap,
                      HoldsTask, Deciding, Executing
  <2>2. Becomes(t, next("decide_store"))
    BY <1>4 DEF DecideClock, ReadClock
  <2> HIDE DEF next
  <2> QED BY <1>2, <2>1, <2>2, ThreadStep
<1> QED BY <1>3, <1>4

LEMMA TypePlanStore ==
  ASSUME TypeInv, NEW t \in Threads, PlanStore(t)
  PROVE  TypeInv'
<1> DEFINE self == thread[t]
           proposal == CreateToolProposal(self.snap, self.at)
           planned == ApplyPlanningResult(self.snap, proposal)
           next == AuditThen(Answer(self, planned), "workflow.plan", "evaluated")
<1>1. self.call \in CallFrame /\ self.at \in Nat /\ self.snap \in Workflow
  BY DEF PlanStore, TypeInv, TypeOK, Shape, ThreadState, HoldsSnap
<1> HIDE DEF self
<1>2. proposal \in Proposal
  BY <1>1, ProposalType
<1> HIDE DEF proposal
<1>3. planned \in Workflow
  BY <1>1, <1>2, PlannedType
<1> HIDE DEF planned
<1>4. next \in ThreadState /\ Shape(next)
  BY <1>1, <1>3, AnswerType, AuditThenType DEF AuditAction, AuditOutcome
<1>5. /\ Update(t, planned, next)
      /\ UNCHANGED <<idempotency, queue, executions, events, clock>>
  BY DEF PlanStore, self, proposal, planned
<1> HIDE DEF next
<1> QED BY <1>3, <1>4, <1>5, UpdateStep

(* Replaying a decision of a stored workflow that has one.                 *)
LEMMA ReplayType ==
  ASSUME NEW self \in ThreadState, NEW w \in Workflow
  PROVE  Replay(self, w) \in ThreadState /\ Shape(Replay(self, w))
<1> DEFINE next == [self EXCEPT !.pc = "decide_requeue", !.snap = w]
<1>1. self.call \in CallFrame
  BY DEF ThreadState
<1>2. w.proposal # None => next \in ThreadState /\ Shape(next)
  BY DEF ThreadState, PC, Shape, HoldsSnap, HoldsTask, Deciding, Executing,
         Workflow
<1>3. \/ Replay(self, w) = Raise(self, "InvalidWorkflowState")
      \/ Replay(self, w) = Raise(self, "IdempotencyConflict")
      \/ Replay(self, w) = Answer(self, w)
      \/ Replay(self, w) = next /\ w.proposal # None
  BY DEF Replay
<1> HIDE DEF next
<1> QED BY <1>1, <1>2, <1>3, AnswerType, RaiseType DEF Reply

LEMMA TypeDecideLoad ==
  ASSUME TypeInv, NEW t \in Threads, DecideLoad(t)
  PROVE  TypeInv'
<1>1. PICK p \in Principals, w \in WorkflowIds, k \in Keys, d \in Decision :
        LET found == workflows[w]
            self  == [IdleThread EXCEPT !.call = DecideCall(p, w, k, d)]
        IN /\ HasRole(p, {"reviewer", "administrator"})
           /\ \/ /\ found = None
                 /\ Becomes(t, Raise(self, "WorkflowNotFound"))
              \/ /\ found # None /\ IsOwner(p, found)
                 /\ Becomes(t, AuditThen(Raise(self, "PermissionDenied"),
                                         "workflow.approval", "self_approval_denied"))
              \/ /\ found # None /\ ~IsOwner(p, found) /\ found.approval # None
                 /\ Becomes(t, Replay(self, found))
              \/ /\ found # None /\ ~IsOwner(p, found) /\ found.approval = None
                 /\ Becomes(t, IF found.status = "awaiting_approval"
                                    /\ found.proposal # None
                                 THEN [self EXCEPT !.pc = "decide_clock",
                                                   !.snap = found]
                                 ELSE Raise(self, "InvalidWorkflowState"))
  BY DEF DecideLoad
<1> DEFINE found == workflows[w]
           call == DecideCall(p, w, k, d)
           self == [IdleThread EXCEPT !.call = call]
           next == [self EXCEPT !.pc = "decide_clock", !.snap = found]
           own == AuditThen(Raise(self, "PermissionDenied"),
                            "workflow.approval", "self_approval_denied")
<1>2. /\ call \in CallFrame /\ found \in Workflow \cup {None}
      /\ call.by = p /\ call.key = k /\ call.decision = d
  BY CallType DEF TypeInv, TypeOK, DecideCall, NoCall
<1> HIDE DEF call
<1>3. self.call = call /\ self \in ThreadState
  BY <1>2, IdleType DEF IdleThread, ThreadState
<1>4. found # None /\ found.proposal # None => next \in ThreadState /\ Shape(next)
  BY <1>2 DEF IdleThread, ThreadState, PC, Shape, HoldsSnap, HoldsTask,
             Deciding, Executing, Workflow
<1> HIDE DEF self, next
<1>5. \A error \in Reply :
        Raise(self, error) \in ThreadState /\ Shape(Raise(self, error))
  BY <1>2, <1>3, RaiseType
<1>6. own \in ThreadState /\ Shape(own)
  BY <1>5, AuditThenType DEF AuditAction, AuditOutcome, Reply
<1>7. \/ Becomes(t, Raise(self, "WorkflowNotFound")) \/ Becomes(t, own)
      \/ found # None /\ Becomes(t, Replay(self, found))
      \/ found # None /\ found.proposal # None /\ Becomes(t, next)
      \/ Becomes(t, Raise(self, "InvalidWorkflowState"))
  BY <1>1 DEF call, self, next
<1>8. /\ events' \subseteq AuditEvent /\ clock' = clock
      /\ UNCHANGED <<workflows, idempotency, queue, executions>>
  BY DEF DecideLoad, TypeInv, TypeOK
<1> HIDE DEF found, own
<1>9. found # None =>
        Replay(self, found) \in ThreadState /\ Shape(Replay(self, found))
  BY <1>2, <1>3, ReplayType
<1> QED BY <1>4, <1>5, <1>6, <1>7, <1>8, <1>9, ThreadStep DEF Reply

LEMMA TypeEnqueue ==
  ASSUME TypeInv, NEW t \in Threads, DecideRequeue(t) \/ DecideEnqueue(t)
  PROVE  TypeInv'
<1> DEFINE self == thread[t]
           task == CreateExecutionTask(self.snap)
           answer == Answer(self, self.snap)
           audited == AuditThen(answer, "workflow.approval", "approved")
<1>1. /\ self.call \in CallFrame /\ self.snap \in Workflow
      /\ self.snap.proposal \in Proposal
  BY DEF DecideRequeue, DecideEnqueue, TypeInv, TypeOK, Shape, ThreadState,
         HoldsSnap, Deciding
<1> HIDE DEF self
<1>2. task \in Task
  BY <1>1, TaskType
<1>3. answer \in ThreadState /\ Shape(answer)
  BY <1>1, AnswerType
<1> HIDE DEF answer
<1>4. audited \in ThreadState /\ Shape(audited)
  BY <1>3, AuditThenType DEF AuditAction, AuditOutcome
<1>5. /\ Enqueue(t, task, answer) \/ Enqueue(t, task, audited)
      /\ UNCHANGED <<workflows, idempotency, executions, events, clock>>
  BY DEF DecideRequeue, DecideEnqueue, self, answer
<1> HIDE DEF task, audited
<1> QED BY <1>2, <1>3, <1>4, <1>5, EnqueueStep

LEMMA TypeDecideExpire ==
  ASSUME TypeInv, NEW t \in Threads, DecideExpire(t)
  PROVE  TypeInv'
<1> DEFINE self == thread[t]
           expired == Expire(self.snap)
           next == AuditThen(Raise(self, "ApprovalExpired"),
                             "workflow.approval", "expired")
<1>1. self.call \in CallFrame /\ self.snap \in Workflow
  BY DEF DecideExpire, TypeInv, TypeOK, Shape, ThreadState, HoldsSnap, Deciding
<1> HIDE DEF self
<1>2. expired \in Workflow
  BY <1>1, ExpiredType
<1>3. next \in ThreadState /\ Shape(next)
  BY <1>1, RaiseType, AuditThenType DEF AuditAction, AuditOutcome, Reply
<1>4. /\ Update(t, expired, next)
      /\ UNCHANGED <<idempotency, queue, executions, events, clock>>
  BY DEF DecideExpire, self
<1> HIDE DEF expired, next
<1> QED BY <1>2, <1>3, <1>4, UpdateStep

LEMMA TypeDecideStore ==
  ASSUME TypeInv, NEW t \in Threads, DecideStore(t)
  PROVE  TypeInv'
<1> DEFINE self == thread[t]
           call == self.call
           approval == CreateApprovalDecision(self.snap.proposal, call.by,
                                              call.decision, call.key, self.at)
           decided == RecordApproval(self.snap, approval)
           queued == [self EXCEPT !.pc = "decide_enqueue", !.snap = decided]
           closed == AuditThen(Answer(self, decided),
                               "workflow.approval", call.decision)
           next == IF NeedsTask(call.decision) THEN queued ELSE closed
<1>1. /\ self \in ThreadState /\ call \in CallFrame /\ self.at \in Nat
      /\ self.snap \in Workflow /\ self.snap.proposal \in Proposal
      /\ call.by \in Principals /\ call.key \in Keys /\ call.decision \in Decision
  BY DEF DecideStore, TypeInv, TypeOK, Shape, ThreadState, HoldsSnap, Deciding
<1> HIDE DEF self
<1>2. approval \in Approval
  BY <1>1, ApprovalType
<1> HIDE DEF approval
<1>3. decided \in Workflow /\ decided.proposal \in Proposal
  BY <1>1, <1>2, DecidedType
<1> HIDE DEF decided
<1>4. queued \in ThreadState /\ Shape(queued)
  BY <1>1, <1>3, ZenonT(40) DEF ThreadState, PC, Shape, HoldsSnap, HoldsTask, Deciding,
                    Executing
<1>5. closed \in ThreadState /\ Shape(closed)
  BY <1>1, <1>3, AnswerType, AuditThenType
     DEF AuditAction, AuditOutcome, Decision
<1>6. next \in ThreadState /\ Shape(next)
  BY <1>4, <1>5
<1>7. /\ Update(t, decided, next)
      /\ UNCHANGED <<idempotency, queue, executions, events, clock>>
  BY DEF DecideStore, self, approval, decided
<1> HIDE DEF next
<1> QED BY <1>3, <1>6, <1>7, UpdateStep

LEMMA TypeProcessNothing ==
  ASSUME TypeInv, NEW t \in Threads, ProcessNothing(t)
  PROVE  TypeInv'
<1>1. PICK p \in Principals :
        Becomes(t, Raise([IdleThread EXCEPT !.call = ProcessCall(p, None)],
                         "NoPendingTask"))
  BY DEF ProcessNothing
<1> DEFINE self == [IdleThread EXCEPT !.call = ProcessCall(p, None)]
<1>2. self.call \in CallFrame
  BY CallType DEF IdleThread, ProcessCall
<1> HIDE DEF self
<1>3. /\ Raise(self, "NoPendingTask") \in ThreadState
      /\ Shape(Raise(self, "NoPendingTask"))
  BY <1>2, RaiseType DEF Reply
<1>4. Becomes(t, Raise(self, "NoPendingTask"))
  BY <1>1 DEF self
<1>5. /\ events' \subseteq AuditEvent /\ clock' = clock
      /\ UNCHANGED <<workflows, idempotency, queue, executions>>
  BY DEF ProcessNothing, TypeInv, TypeOK
<1> QED BY <1>3, <1>4, <1>5, ThreadStep

LEMMA TypeProcessClaim ==
  ASSUME TypeInv, NEW t \in Threads, ProcessClaim(t)
  PROVE  TypeInv'
<1>1. PICK p \in Principals, w \in WorkflowIds :
        /\ HasRole(p, {"operator", "administrator"})
        /\ IsNext(w)
        /\ tasks' = [tasks EXCEPT ![w] = Delivered(@)]
        /\ Becomes(t, [IdleThread EXCEPT !.pc = "task_load",
                         !.call = ProcessCall(p, w), !.task = Delivered(tasks[w])])
  BY DEF ProcessClaim
<1> DEFINE call == ProcessCall(p, w)
           task == Delivered(tasks[w])
           next == [IdleThread EXCEPT !.pc = "task_load", !.call = call, !.task = task]
<1>2. call \in CallFrame
  BY CallType DEF ProcessCall
<1>3. tasks[w] \in Task /\ tasks[w].workflow = w
  BY <1>1 DEF IsNext, TypeInv, TypeOK, OrderHasTasks
<1>4. task \in Task /\ task.workflow = w
  BY <1>3 DEF Delivered, Task
<1> HIDE DEF call, task
<1>5. next \in ThreadState /\ Shape(next)
  BY <1>2, <1>4 DEF IdleThread, ThreadState, PC, Shape, HoldsSnap, HoldsTask,
                    Deciding, Executing
<1> HIDE DEF next
<1>6. Becomes(t, next) /\ tasks' = [tasks EXCEPT ![w] = task]
  BY <1>1 DEF call, task, next
<1>7. /\ thread' \in [Threads -> ThreadState]
      /\ \A u \in Threads : Shape(thread'[u])
  BY <1>5, <1>6 DEF TypeInv, TypeOK, Becomes
<1>8. /\ tasks' \in [WorkflowIds -> Task \cup {None}]
      /\ \A x \in WorkflowIds : tasks'[x] # None => tasks'[x].workflow = x
  BY <1>4, <1>6 DEF TypeInv, TypeOK
<1>9. OrderHasTasks'
  BY <1>4, <1>6, NoneAssumption DEF TypeInv, TypeOK, OrderHasTasks, ProcessClaim
<1>10. TypeOK'
  BY <1>7, <1>8 DEF TypeInv, TypeOK, ProcessClaim
<1>11. (\A u \in Threads : Shape(thread[u]))'
  BY <1>7
<1> QED BY <1>9, <1>10, <1>11 DEF TypeInv, KeysResolve, ProcessClaim

LEMMA TypeTaskLoad ==
  ASSUME TypeInv, NEW t \in Threads, TaskLoad(t)
  PROVE  TypeInv'
<1> DEFINE self == thread[t]
           found == workflows[self.task.workflow]
           done == [self EXCEPT !.pc = "task_done", !.snap = found]
           next == [self EXCEPT !.pc = "task_clock", !.snap = found]
<1>1. /\ self \in ThreadState /\ self.task \in Task
      /\ found \in Workflow \cup {None} /\ self.call \in CallFrame
  BY DEF TaskLoad, TypeInv, TypeOK, Shape, ThreadState, HoldsTask, Task
<1>2. found # None => done \in ThreadState /\ Shape(done)
  BY <1>1 DEF ThreadState, PC, Shape, HoldsSnap, HoldsTask, Deciding, Executing
<1>3. found # None /\ IsBound(self.task, found) =>
        next \in ThreadState /\ Shape(next)
  BY <1>1 DEF ThreadState, PC, Shape, HoldsSnap, HoldsTask, Deciding, Executing,
             IsBound, Workflow
<1>4. \A error \in Reply :
        Raise(self, error) \in ThreadState /\ Shape(Raise(self, error))
  BY <1>1, RaiseType
<1>5. \/ Becomes(t, Raise(self, "WorkflowNotFound"))
      \/ found # None /\ Becomes(t, done)
      \/ Becomes(t, Raise(self, "IdempotencyConflict"))
      \/ found # None /\ IsBound(self.task, found) /\ Becomes(t, next)
      \/ Becomes(t, Raise(self, "InvalidWorkflowState"))
  BY DEF TaskLoad
<1>6. /\ events' \subseteq AuditEvent /\ clock' = clock
      /\ UNCHANGED <<workflows, idempotency, queue, executions>>
  BY DEF TaskLoad, TypeInv, TypeOK
<1> HIDE DEF self, found, done, next
<1> QED BY <1>2, <1>3, <1>4, <1>5, <1>6, ThreadStep DEF Reply

LEMMA TypeTaskClock ==
  ASSUME TypeInv, NEW t \in Threads, TaskClock(t)
  PROVE  TypeInv'
<1> DEFINE self == thread[t]
           next(pc) == [self EXCEPT !.at = clock, !.pc = pc]
           failed == Raise(self, "InvalidWorkflowState")
<1>1. self \in ThreadState /\ Shape(self) /\ clock \in Nat
  BY DEF TypeInv, TypeOK
<1>2. \A pc \in {"task_expire", "task_policy", "task_execute"} :
        next(pc) \in ThreadState /\ Shape(next(pc))
  BY <1>1, ZenonT(40) DEF TaskClock, ThreadState, PC, Shape, HoldsSnap, HoldsTask, Deciding,
             Executing
<1>3. failed \in ThreadState /\ Shape(failed)
  BY <1>1, RaiseType DEF ThreadState, Reply
<1>4. \/ \E pc \in {"task_expire", "task_policy", "task_execute"} :
           Becomes(t, next(pc))
      \/ Becomes(t, failed)
  BY DEF TaskClock
<1>5. /\ events' \subseteq AuditEvent /\ clock' = clock
      /\ UNCHANGED <<workflows, idempotency, queue, executions>>
  BY DEF TaskClock, TypeInv, TypeOK
<1> HIDE DEF next, failed
<1> QED BY <1>2, <1>3, <1>4, <1>5, ThreadStep

LEMMA TypeTaskPolicy ==
  ASSUME TypeInv, NEW t \in Threads, TaskPolicy(t)
  PROVE  TypeInv'
<1> DEFINE self == thread[t]
           w    == self.snap
           e    == Event(self, "data_processing.tool_execution",
                         Outcome("tool_execution", w), w.id)
           next == [self EXCEPT !.pc = "task_begin"]
           denied == Raise(self, "DataProcessingDenied")
<1>1. /\ self \in ThreadState /\ Shape(self) /\ self.call \in CallFrame
      /\ w \in Workflow
  BY DEF TaskPolicy, TypeInv, TypeOK, Shape, ThreadState, HoldsSnap, Executing
<1>2. e \in AuditEvent
  BY <1>1, EventType DEF AuditAction, AuditOutcome, Outcome, Workflow
<1>3. events' \subseteq AuditEvent
  BY <1>2, RecordType DEF TaskPolicy, TypeInv, TypeOK
<1>4. next \in ThreadState /\ Shape(next)
  BY <1>1 DEF TaskPolicy, ThreadState, PC, Shape, HoldsSnap, HoldsTask, Deciding,
             Executing
<1>5. denied \in ThreadState /\ Shape(denied)
  BY <1>1, RaiseType DEF Reply
<1>6. Becomes(t, next) \/ Becomes(t, denied)
  BY DEF TaskPolicy
<1>7. clock' = clock /\ UNCHANGED <<workflows, idempotency, queue, executions>>
  BY DEF TaskPolicy
<1> HIDE DEF next, denied
<1> QED BY <1>3, <1>4, <1>5, <1>6, <1>7, ThreadStep

LEMMA TypeTaskExpire ==
  ASSUME TypeInv, NEW t \in Threads, TaskExpire(t)
  PROVE  TypeInv'
<1> DEFINE self == thread[t]
           expired == Expire(self.snap)
           next == [self EXCEPT !.pc = "task_discard"]
<1>1. self \in ThreadState /\ Shape(self) /\ self.snap \in Workflow
  BY DEF TaskExpire, TypeInv, TypeOK, Shape, HoldsSnap, Executing
<1>2. expired \in Workflow
  BY <1>1, ExpiredType
<1>3. next \in ThreadState /\ Shape(next)
  BY <1>1 DEF TaskExpire, ThreadState, PC, Shape, HoldsSnap, HoldsTask, Deciding,
             Executing
<1>4. /\ Update(t, expired, next)
      /\ UNCHANGED <<idempotency, queue, executions, events, clock>>
  BY DEF TaskExpire
<1> HIDE DEF expired, next
<1> QED BY <1>2, <1>3, <1>4, UpdateStep

LEMMA TypeTaskEnds ==
  ASSUME TypeInv, NEW t \in Threads,
         TaskDiscard(t) \/ TaskComplete(t) \/ TaskDone(t)
  PROVE  TypeInv'
<1> DEFINE self == thread[t]
           failed == AuditThen(Raise(self, "ApprovalExpired"),
                               "task.process", "approval_expired")
           answer == Answer(self, self.snap)
           audited == AuditThen(answer, "task.process", "completed")
<1>1. self.call \in CallFrame /\ self.task \in Task /\ self.snap \in Workflow
  BY DEF TaskDiscard, TaskComplete, TaskDone, TypeInv, TypeOK, Shape, ThreadState,
         HoldsSnap, HoldsTask
<1>2. Complete(t, failed) \/ Complete(t, audited) \/ Complete(t, answer)
  BY DEF TaskDiscard, TaskComplete, TaskDone
<1>3. thread[t].task \in Task
  BY <1>1
<1> HIDE DEF self
<1>4. answer \in ThreadState /\ Shape(answer)
  BY <1>1, AnswerType
<1> HIDE DEF answer
<1>5. /\ failed \in ThreadState /\ Shape(failed)
      /\ audited \in ThreadState /\ Shape(audited)
  BY <1>1, <1>4, RaiseType, AuditThenType DEF AuditAction, AuditOutcome, Reply
<1> HIDE DEF failed, audited
<1> QED BY <1>2, <1>3, <1>4, <1>5, CompleteStep

LEMMA TypeTaskBegin ==
  ASSUME TypeInv, NEW t \in Threads, TaskBegin(t)
  PROVE  TypeInv'
<1> DEFINE self == thread[t]
           begun == BeginExecution(self.snap)
           next == [self EXCEPT !.pc = "task_execute", !.snap = begun]
<1>1. /\ self \in ThreadState /\ Shape(self) /\ self.snap \in Workflow
      /\ self.pc = "task_begin"
      /\ self.snap.proposal \in Proposal /\ self.snap.approval \in Approval
  BY DEF TaskBegin, TypeInv, TypeOK, Shape, HoldsSnap, Executing
<1>2. /\ Update(t, begun, next)
      /\ UNCHANGED <<idempotency, queue, executions, events, clock>>
  BY DEF TaskBegin
<1>3. /\ begun \in Workflow
      /\ begun.proposal \in Proposal /\ begun.approval \in Approval
  BY <1>1, BegunType
<1> HIDE DEF self, begun
<1>4. next \in ThreadState /\ Shape(next)
  BY <1>1, <1>3 DEF ThreadState, PC, Shape, HoldsSnap, HoldsTask, Deciding, Executing
<1> HIDE DEF next
<1> QED BY <1>2, <1>3, <1>4, UpdateStep

(* A step that changes one handler and adds to the issued tickets.         *)
LEMMA ExecutorStep ==
  ASSUME TypeInv, NEW t \in Threads, NEW s \in ThreadState, Shape(s),
         Becomes(t, s), executions' \subseteq Ticket,
         UNCHANGED <<workflows, idempotency, queue, events, clock>>
  PROVE  TypeInv'
<1>1. /\ thread' \in [Threads -> ThreadState]
      /\ \A u \in Threads : Shape(thread'[u])
  BY DEF TypeInv, TypeOK, Becomes
<1>2. TypeOK'
  BY <1>1 DEF TypeInv, TypeOK, queue
<1>3. (\A u \in Threads : Shape(thread[u]))'
  BY <1>1
<1> QED BY <1>2, <1>3 DEF TypeInv, KeysResolve, OrderHasTasks, queue

LEMMA TypeTaskExecute ==
  ASSUME TypeInv, NEW t \in Threads, TaskExecute(t)
  PROVE  TypeInv'
<1> DEFINE self == thread[t]
           ticket == TicketFor(self.task, self.snap.proposal, self.at)
           next(x) == [self EXCEPT !.pc = "task_store", !.result = x]
           failed == Raise(self, "IdempotencyConflict")
<1>1. /\ self \in ThreadState /\ Shape(self) /\ self.call \in CallFrame
      /\ self.pc = "task_execute" /\ self.task \in Task /\ self.at \in Nat
      /\ self.snap \in Workflow /\ self.snap.proposal \in Proposal
      /\ self.snap.approval \in Approval
  BY DEF TaskExecute, TypeInv, TypeOK, Shape, ThreadState, HoldsSnap, HoldsTask,
         Executing
<1>2. ticket \in Ticket
  BY <1>1 DEF TicketFor, TicketKey, Ticket, Task, Proposal
<1>3. \A x \in Ticket : next(x) \in ThreadState /\ Shape(next(x))
  BY <1>1 DEF ThreadState, PC, Shape, HoldsSnap, HoldsTask, Deciding, Executing
<1>4. failed \in ThreadState /\ Shape(failed)
  BY <1>1, RaiseType DEF Reply
<1>5. UNCHANGED <<workflows, idempotency, queue, events, clock>>
  BY DEF TaskExecute
<1>6. CASE executions' = executions \cup {ticket} /\ Becomes(t, next(ticket))
  <2>1. executions' \subseteq Ticket
    BY <1>2, <1>6 DEF TypeInv, TypeOK
  <2>2. next(ticket) \in ThreadState /\ Shape(next(ticket))
    BY <1>2, <1>3
  <2> HIDE DEF next, ticket
  <2> QED BY <1>5, <1>6, <2>1, <2>2, ExecutorStep
<1>7. CASE /\ \E x \in IssuedFor(self.task) :
                Becomes(t, next(x)) \/ Becomes(t, failed)
           /\ UNCHANGED executions
  <2>1. PICK x \in Ticket : Becomes(t, next(x)) \/ Becomes(t, failed)
    BY <1>7 DEF IssuedFor, TypeInv, TypeOK
  <2>2. executions' \subseteq Ticket
    BY <1>7 DEF TypeInv, TypeOK
  <2>3. next(x) \in ThreadState /\ Shape(next(x))
    BY <1>3
  <2> HIDE DEF next, failed
  <2> QED BY <1>4, <1>5, <2>1, <2>2, <2>3, ExecutorStep
<1> QED BY <1>6, <1>7 DEF TaskExecute

LEMMA TypeTaskStore ==
  ASSUME TypeInv, NEW t \in Threads, TaskStore(t)
  PROVE  TypeInv'
<1> DEFINE self == thread[t]
           done == CompleteExecution(self.snap, self.result)
           next == [self EXCEPT !.pc = "task_complete", !.snap = done]
<1>1. /\ self \in ThreadState /\ Shape(self) /\ self.pc = "task_store"
      /\ self.snap \in Workflow /\ self.snap.proposal \in Proposal
      /\ self.snap.approval \in Approval /\ self.result \in Ticket
      /\ self.task \in Task
  BY DEF TaskStore, TypeInv, TypeOK, Shape, HoldsSnap, HoldsTask, Executing
<1>2. /\ Update(t, done, next)
      /\ UNCHANGED <<idempotency, queue, executions, events, clock>>
  BY DEF TaskStore
<1>3. done \in Workflow /\ done.proposal \in Proposal
  BY <1>1, CompletedType
<1> HIDE DEF self, done
<1>4. next \in ThreadState /\ Shape(next)
  BY <1>1, <1>3 DEF ThreadState, PC, Shape, HoldsSnap, HoldsTask, Deciding, Executing
<1> HIDE DEF next
<1> QED BY <1>2, <1>3, <1>4, UpdateStep

LEMMA TypeHandlerEnds ==
  ASSUME TypeInv, NEW t \in Threads,
         RecordAudit(t) \/ Respond(t) \/ Interrupt(t)
  PROVE  TypeInv'
<1> DEFINE self == thread[t]
           next == [self EXCEPT !.pc = "reply", !.event = None]
<1>1. CASE RecordAudit(t)
  <2>1. next \in ThreadState /\ Shape(next)
    BY <1>1, ZenonT(40) DEF RecordAudit, TypeInv, TypeOK, ThreadState, PC, Shape, HoldsSnap,
                HoldsTask, Deciding, Executing
  <2>2. self.event \in AuditEvent /\ Record(self.event)
    BY <1>1 DEF RecordAudit, TypeInv, TypeOK, Shape
  <2>3. events' \subseteq AuditEvent
    BY <2>2, RecordType DEF TypeInv, TypeOK
  <2>4. Becomes(t, next)
    BY <1>1 DEF RecordAudit
  <2> HIDE DEF next
  <2> QED BY <1>1, <2>1, <2>3, <2>4, ThreadStep DEF RecordAudit
<1>2. CASE Respond(t) \/ Interrupt(t)
  <2>1. Becomes(t, IdleThread) /\ events' \subseteq AuditEvent
    BY <1>2 DEF Respond, Interrupt, TypeInv, TypeOK
  <2> QED BY <1>2, <2>1, IdleType, ThreadStep DEF Respond, Interrupt
<1> QED BY <1>1, <1>2

LEMMA TypeTick == ASSUME TypeInv, Tick PROVE TypeInv'
BY DEF Tick, TypeInv, TypeOK, KeysResolve, OrderHasTasks, queue

LEMMA TypeStutter == ASSUME TypeInv, UNCHANGED vars PROVE TypeInv'
BY DEF vars, queue, TypeInv, TypeOK, KeysResolve, OrderHasTasks

LEMMA TypeNext == TypeInv /\ [Next]_vars => TypeInv'
<1> SUFFICES ASSUME TypeInv, [Next]_vars PROVE TypeInv'
  OBVIOUS
<1>1. CASE Tick
  BY <1>1, TypeTick
<1>2. ASSUME NEW t \in Threads, Call(t) PROVE TypeInv'
  BY <1>2, TypeRefused, TypeCreateIntake, TypeReadLoad, TypePlanLoad,
     TypeDecideLoad, TypeProcessNothing, TypeProcessClaim DEF Call
<1>3. ASSUME NEW t \in Threads, Step(t) PROVE TypeInv'
  BY <1>3, TypeCreateStore, TypePlanPolicy, TypeReadClock, TypePlanStore,
     TypeEnqueue, TypeDecideExpire, TypeDecideStore, TypeTaskLoad, TypeTaskClock,
     TypeTaskExpire, TypeTaskEnds, TypeTaskPolicy, TypeTaskBegin,
     TypeTaskExecute, TypeTaskStore, TypeHandlerEnds DEF Step
<1>4. ASSUME NEW t \in Threads, Interrupt(t) PROVE TypeInv'
  BY <1>4, TypeHandlerEnds
<1>5. CASE UNCHANGED vars
  BY <1>5, TypeStutter
<1> QED BY <1>1, <1>2, <1>3, <1>4, <1>5 DEF Next

LEMMA TypeAlways == Spec => []TypeInv
BY TypeInit, TypeNext, PTL DEF Spec

(* Whatever the handlers interleave and wherever they die, every variable  *)
(* holds what the code declares, and the repository and the queue file     *)
(* each workflow under its own id.                                         *)
THEOREM TypeCorrect == Spec => []TypeOK
<1>1. TypeInv => TypeOK
  BY DEF TypeInv
<1> QED BY <1>1, TypeAlways, PTL


=============================================================================
