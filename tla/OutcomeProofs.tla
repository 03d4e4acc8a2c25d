--------------------------- MODULE OutcomeProofs ---------------------------
(***************************************************************************)
(* Theorems on what becomes of submitted work: every stored history        *)
(* follows the state diagram, a workflow has one idempotency key, tasks    *)
(* leave the queue only when their work is over, the service implements    *)
(* ApprovalLifecycle, and, while no handler dies half way, approvals reach *)
(* the queue and outcomes reach the audit trail.                           *)
(***************************************************************************)
EXTENDS AuthorisationProofs, WorkflowRefinement, FiniteSetTheorems

-----------------------------------------------------------------------------
(* The fields of the snapshot that each transition returns.                *)

LEMMA AdvanceOnceFields ==
  ASSUME NEW w \in Workflow, NEW status \in Status
  PROVE  LET new == Advance(w, <<status>>)
         IN /\ new \in Workflow
            /\ new.id = w.id /\ new.owner = w.owner /\ new.request = w.request
            /\ new.status = status /\ new.version = w.version + 1
            /\ new.history = w.history \o Path(w.status, <<status>>)
            /\ new.approval = w.approval /\ new.proposal = w.proposal
<1> DEFINE new == Advance(w, <<status>>)
<1>1. /\ new \in Workflow
      /\ new = [w EXCEPT !.status  = status,
                         !.version = w.version + 1,
                         !.history = new.history]
      /\ new.history = w.history \o Path(w.status, <<status>>)
  BY AdvanceOnce
<1> HIDE DEF new
<1> QED BY <1>1 DEF Workflow, new

LEMMA PlannedFields ==
  ASSUME NEW w \in Workflow, NEW proposal \in Proposal
  PROVE  LET new == ApplyPlanningResult(w, proposal)
         IN /\ new \in Workflow
            /\ new.id = w.id /\ new.owner = w.owner /\ new.request = w.request
            /\ new.status = "awaiting_approval" /\ new.version = w.version + 8
            /\ new.history = w.history \o Path(w.status, PlanningPath)
            /\ new.approval = w.approval /\ new.proposal = proposal
<1> DEFINE a == Advance(w, PlanningPath)
           new == ApplyPlanningResult(w, proposal)
<1>1. PlanningPath[Len(PlanningPath)] \in Status /\ Len(PlanningPath) > 0
  BY PlanningPathType DEF Status
<1>2. /\ a \in Workflow
      /\ a = [w EXCEPT !.status  = a.status,
                       !.version = a.version,
                       !.history = a.history]
      /\ a.status = "awaiting_approval"
      /\ a.version = w.version + 8
      /\ a.history = w.history \o Path(w.status, PlanningPath)
  BY <1>1, PlanningPathType, AdvanceType
<1>3. new \in Workflow
  BY PlannedType
<1> HIDE DEF a
<1> QED BY <1>2, <1>3 DEF ApplyPlanningResult, Workflow, a

LEMMA DecidedFields ==
  ASSUME NEW w \in Workflow, NEW approval \in Approval
  PROVE  LET new == RecordApproval(w, approval)
         IN /\ new \in Workflow
            /\ new.id = w.id /\ new.owner = w.owner /\ new.request = w.request
            /\ new.status = approval.decision /\ new.version = w.version + 1
            /\ new.history = w.history \o Path(w.status, <<approval.decision>>)
            /\ new.approval = approval /\ new.proposal = w.proposal
<1>1. approval.decision \in Status
  BY DEF Approval, Decision, Status
<1> DEFINE a == Advance(w, <<approval.decision>>)
<1>2. /\ a \in Workflow
      /\ a = [w EXCEPT !.status  = approval.decision,
                       !.version = w.version + 1,
                       !.history = a.history]
      /\ a.history = w.history \o Path(w.status, <<approval.decision>>)
  BY <1>1, AdvanceOnce
<1>3. RecordApproval(w, approval) \in Workflow
  BY DecidedType
<1> HIDE DEF a
<1> QED BY <1>2, <1>3 DEF RecordApproval, Workflow, a

LEMMA ExpiredFields ==
  ASSUME NEW w \in Workflow
  PROVE  LET new == Expire(w)
         IN /\ new \in Workflow
            /\ new.id = w.id /\ new.owner = w.owner /\ new.request = w.request
            /\ new.status = "expired" /\ new.version = w.version + 1
            /\ new.history = w.history \o Path(w.status, <<"expired">>)
            /\ new.approval = w.approval /\ new.proposal = w.proposal
BY AdvanceOnceFields DEF Expire, Status

LEMMA BegunFields ==
  ASSUME NEW w \in Workflow
  PROVE  LET new == BeginExecution(w)
         IN /\ new \in Workflow
            /\ new.id = w.id /\ new.owner = w.owner /\ new.request = w.request
            /\ new.status = "executing" /\ new.version = w.version + 1
            /\ new.history = w.history \o Path(w.status, <<"executing">>)
            /\ new.approval = w.approval /\ new.proposal = w.proposal
<1> DEFINE a == Advance(w, <<"executing">>)
<1>1. /\ a \in Workflow
      /\ a = [w EXCEPT !.status  = "executing",
                       !.version = w.version + 1,
                       !.history = a.history]
      /\ a.history = w.history \o Path(w.status, <<"executing">>)
  BY AdvanceOnce DEF Status
<1>2. BeginExecution(w) \in Workflow
  BY BegunType
<1> HIDE DEF a
<1> QED BY <1>1, <1>2 DEF BeginExecution, Workflow, a

LEMMA CompletedFields ==
  ASSUME NEW w \in Workflow, w.approval \in Approval, NEW ticket \in Ticket
  PROVE  LET new == CompleteExecution(w, ticket)
         IN /\ new \in Workflow
            /\ new.id = w.id /\ new.owner = w.owner /\ new.request = w.request
            /\ new.status = "completed" /\ new.version = w.version + 2
            /\ new.history = w.history \o Path(w.status, <<"evaluating", "completed">>)
            /\ new.approval = [w.approval EXCEPT !.consumed = TRUE]
            /\ new.proposal = w.proposal
<1> DEFINE p == <<"evaluating", "completed">>
           a == Advance(w, p)
<1>1. /\ a \in Workflow
      /\ a = [w EXCEPT !.status  = "completed",
                       !.version = w.version + 2,
                       !.history = a.history]
      /\ a.history = w.history \o Path(w.status, p)
  BY AdvanceToCompletion
<1>2. CompleteExecution(w, ticket) \in Workflow
  BY CompletedType
<1> HIDE DEF a, p
<1> QED BY <1>1, <1>2 DEF CompleteExecution, Workflow, a, p

-----------------------------------------------------------------------------
(* The steps that write to the repository.  A handler's optimistic write   *)
(* succeeds only while its snapshot is what is stored.                     *)

Writes(t, new) ==
  /\ workflows[thread[t].snap.id] = thread[t].snap
  /\ workflows' = [workflows EXCEPT ![thread[t].snap.id] = new]
  /\ UNCHANGED <<idempotency, executions>>

Submits(t) ==
  LET call == thread[t].call
  IN /\ thread[t].pc = "create_store"
     /\ workflows[call.id] = None
     /\ idempotency[<<call.by, call.key>>] = None
     /\ workflows' = [workflows EXCEPT ![call.id] =
                        Receive(call.id, call.by, call.request, call.context)]
     /\ idempotency' = [idempotency EXCEPT ![<<call.by, call.key>>] = call.id]
     /\ UNCHANGED executions

Proposes(t) ==
  LET self == thread[t]
  IN /\ self.pc = "plan_store"
     /\ Writes(t, ApplyPlanningResult(self.snap,
                                      CreateToolProposal(self.snap, self.at)))

Decides(t) ==
  LET self == thread[t]
      call == self.call
  IN /\ DecideStore(t) /\ self.pc = "decide_store"
     /\ Writes(t, RecordApproval(self.snap,
                    CreateApprovalDecision(self.snap.proposal, call.by,
                                           call.decision, call.key, self.at)))

Lapses(t) ==
  /\ DecideExpire(t) \/ TaskExpire(t)
  /\ thread[t].pc \in {"decide_store", "task_expire"}
  /\ Writes(t, Expire(thread[t].snap))

Starts(t) ==
  /\ thread[t].pc = "task_begin"
  /\ Writes(t, BeginExecution(thread[t].snap))

Finishes(t) ==
  /\ TaskStore(t) /\ thread[t].pc = "task_store"
  /\ Writes(t, CompleteExecution(thread[t].snap, thread[t].result))

LEMMA UpdateWrites ==
  ASSUME TypeInv, AuthorisationInv, NEW t \in Threads, thread[t].pc \in HoldsSnap,
         NEW new, new.id = thread[t].snap.id, NEW next, Update(t, new, next),
         UNCHANGED <<idempotency, executions>>
  PROVE  UNCHANGED <<workflows, idempotency>> \/ Writes(t, new)
<1> DEFINE snap == thread[t].snap
<1>1. CASE ~IsCurrent(snap)
  BY <1>1 DEF Update
<1>2. CASE IsCurrent(snap)
  <2>1. Follows(workflows[snap.id], snap)
    BY DEF AuthorisationInv, Knows
  <2>2. workflows[snap.id] = snap
    BY <1>2, <2>1 DEF IsCurrent, Follows
  <2> QED BY <1>2, <2>2 DEF Update, Writes
<1> QED BY <1>1, <1>2

(* Whatever the handlers interleave, a step leaves the repository alone or *)
(* is one of the six writes.                                               *)
LEMMA RepositoryStep ==
  ASSUME TypeInv, AuthorisationInv, [Next]_vars
  PROVE  \/ UNCHANGED <<workflows, idempotency>>
         \/ \E t \in Threads : \/ Submits(t) \/ Proposes(t) \/ Decides(t)
                               \/ Lapses(t) \/ Starts(t) \/ Finishes(t)
<1> DEFINE quiet == UNCHANGED <<workflows, idempotency>>
<1>1. CASE Tick \/ UNCHANGED vars
  BY <1>1 DEF Tick, vars
<1>2. ASSUME NEW t \in Threads, Call(t) \/ Interrupt(t) PROVE quiet
  BY <1>2 DEF Call, CreateRefused, CreateIntake, ReadLoad, PlanLoad, DecideRefused,
              DecideLoad, ProcessRefused, ProcessNothing, ProcessClaim, Interrupt
<1>3. ASSUME NEW t \in Threads, CreateStore(t) PROVE quiet \/ Submits(t)
  <2>1. thread[t].pc = "create_store" /\ workflows[thread[t].call.id] = None
    BY <1>3 DEF CreateStore, AuthorisationInv, IdIsFresh
  <2> QED BY <1>3, <2>1, Zenon DEF CreateStore, Submits, Known
<1>4. ASSUME NEW t \in Threads, PlanStore(t) PROVE quiet \/ Proposes(t)
  <2> DEFINE new == ApplyPlanningResult(thread[t].snap,
                      CreateToolProposal(thread[t].snap, thread[t].at))
  <2>1. /\ thread[t].pc = "plan_store" /\ thread[t].pc \in HoldsSnap
        /\ thread[t].snap \in Workflow /\ thread[t].at \in Nat
    BY <1>4 DEF PlanStore, TypeInv, TypeOK, Shape, HoldsSnap, ThreadState
  <2>2. new.id = thread[t].snap.id
    BY <2>1, ProposalType, PlannedFields
  <2> HIDE DEF new
  <2>3. quiet \/ Writes(t, new)
    BY <1>4, <2>1, <2>2, UpdateWrites DEF PlanStore, new
  <2> QED BY <2>1, <2>3 DEF Proposes, new
<1>5. ASSUME NEW t \in Threads, DecideStore(t) PROVE quiet \/ Decides(t)
  <2> DEFINE self == thread[t]
             made == CreateApprovalDecision(self.snap.proposal, self.call.by,
                       self.call.decision, self.call.key, self.at)
             new == RecordApproval(self.snap, made)
  <2>1. /\ self.pc = "decide_store" /\ self.pc \in HoldsSnap
        /\ self.snap \in Workflow /\ self.at \in Nat
        /\ self.snap.proposal \in Proposal
        /\ self.call.by \in Principals /\ self.call.key \in Keys
        /\ self.call.decision \in Decision
    BY <1>5 DEF DecideStore, TypeInv, TypeOK, Shape, HoldsSnap, Deciding, ThreadState
  <2>2. new.id = self.snap.id
    BY <2>1, ApprovalType, DecidedFields
  <2> HIDE DEF new
  <2>3. quiet \/ Writes(t, new)
    BY <1>5, <2>1, <2>2, UpdateWrites DEF DecideStore, new
  <2> QED BY <1>5, <2>1, <2>3 DEF Decides, new
<1>6. ASSUME NEW t \in Threads, DecideExpire(t) \/ TaskExpire(t)
      PROVE  quiet \/ Lapses(t)
  <2> DEFINE new == Expire(thread[t].snap)
  <2>1. /\ thread[t].pc \in {"decide_store", "task_expire"}
        /\ thread[t].pc \in HoldsSnap /\ thread[t].snap \in Workflow
    BY <1>6 DEF DecideExpire, TaskExpire, TypeInv, Shape, HoldsSnap, Deciding,
                Executing
  <2>2. new.id = thread[t].snap.id
    BY <2>1, ExpiredFields
  <2> HIDE DEF new
  <2>3. quiet \/ Writes(t, new)
    BY <1>6, <2>1, <2>2, UpdateWrites DEF DecideExpire, TaskExpire, new
  <2> QED BY <1>6, <2>1, <2>3 DEF Lapses, new
<1>7. ASSUME NEW t \in Threads, TaskBegin(t) PROVE quiet \/ Starts(t)
  <2> DEFINE new == BeginExecution(thread[t].snap)
  <2>1. /\ thread[t].pc = "task_begin"
        /\ thread[t].pc \in HoldsSnap /\ thread[t].snap \in Workflow
    BY <1>7 DEF TaskBegin, TypeInv, Shape, HoldsSnap, Executing
  <2>2. new.id = thread[t].snap.id
    BY <2>1, BegunFields
  <2> HIDE DEF new
  <2>3. quiet \/ Writes(t, new)
    BY <1>7, <2>1, <2>2, UpdateWrites DEF TaskBegin, new
  <2> QED BY <2>1, <2>3 DEF Starts, new
<1>8. ASSUME NEW t \in Threads, TaskStore(t) PROVE quiet \/ Finishes(t)
  <2> DEFINE new == CompleteExecution(thread[t].snap, thread[t].result)
  <2>1. /\ thread[t].pc = "task_store" /\ thread[t].result \in Ticket
        /\ thread[t].pc \in HoldsSnap /\ thread[t].snap \in Workflow
        /\ thread[t].snap.approval \in Approval
    BY <1>8 DEF TaskStore, TypeInv, Shape, HoldsSnap, Executing
  <2>2. new.id = thread[t].snap.id
    BY <2>1, CompletedFields
  <2> HIDE DEF new
  <2>3. quiet \/ Writes(t, new)
    BY <1>8, <2>1, <2>2, UpdateWrites DEF TaskStore, new
  <2> QED BY <1>8, <2>1, <2>3 DEF Finishes, new
<1>9. ASSUME NEW t \in Threads, Step(t)
      PROVE  \/ quiet \/ Submits(t) \/ Proposes(t) \/ Decides(t)
             \/ Lapses(t) \/ Starts(t) \/ Finishes(t)
  <2>1. \/ PlanPolicy(t) \/ PlanClock(t) \/ DecideRequeue(t) \/ DecideClock(t)
        \/ DecideEnqueue(t) \/ TaskLoad(t) \/ TaskClock(t) \/ TaskDiscard(t)
        \/ TaskPolicy(t) \/ TaskExecute(t) \/ TaskComplete(t) \/ TaskDone(t)
        \/ RecordAudit(t) \/ Respond(t)
        => quiet
    BY Zenon DEF PlanPolicy, PlanClock, ReadClock, DecideRequeue, DecideClock,
           DecideEnqueue, TaskLoad, TaskClock, TaskDiscard, Complete, TaskPolicy,
           TaskExecute, TaskComplete, TaskDone, RecordAudit, Respond
  <2> QED BY <1>3, <1>4, <1>5, <1>6, <1>7, <1>8, <1>9, <2>1 DEF Step
<1> QED BY <1>1, <1>2, <1>9 DEF Next

-----------------------------------------------------------------------------
(* What the writer of each kind knows of the workflow it replaces.         *)

LEMMA SubmitterKnows ==
  ASSUME TypeInv, AuthorisationInv, NEW t \in Threads, Submits(t)
  PROVE  LET call == thread[t].call
             new  == Receive(call.id, call.by, call.request, call.context)
         IN /\ call.id \in WorkflowIds /\ call.by \in Principals /\ call.key \in Keys
            /\ new \in Workflow /\ new.owner = call.by /\ new.status = "received"
            /\ new.approval = None
            /\ \A w \in WorkflowIds :
                 workflows'[w] = IF w = call.id THEN new ELSE workflows[w]
<1> DEFINE call == thread[t].call
           new  == Receive(call.id, call.by, call.request, call.context)
<1>1. /\ call.id \in WorkflowIds /\ call.by \in Principals /\ call.key \in Keys
      /\ call.request \in Requests /\ call.context \in Contexts
  BY DEF Submits, TypeInv, Shape
<1>2. new \in Workflow /\ new.owner = call.by /\ new.status = "received"
      /\ new.approval = None
  BY <1>1, ReceiveType DEF Receive
<1> HIDE DEF new
<1>3. \A w \in WorkflowIds :
        workflows'[w] = IF w = call.id THEN new ELSE workflows[w]
  BY <1>1 DEF Submits, TypeInv, TypeOK, new
<1> QED BY <1>1, <1>2, <1>3 DEF new

LEMMA WriterKnows ==
  ASSUME TypeInv, AuthorisationInv, NEW t \in Threads, thread[t].pc \in HoldsSnap,
         NEW new, Writes(t, new)
  PROVE  LET old == thread[t].snap
         IN /\ old \in Workflow /\ old.id \in WorkflowIds
            /\ workflows[old.id] = old /\ Legal(old)
            /\ Exists(old.id)
            /\ \A w \in WorkflowIds :
                 workflows'[w] = IF w = old.id THEN new ELSE workflows[w]
<1> DEFINE old == thread[t].snap
<1>1. old \in Workflow /\ old.id \in WorkflowIds
  BY DEF TypeInv, Shape, Workflow
<1>2. workflows[old.id] = old /\ Legal(old)
  BY DEF Writes, AuthorisationInv, Knows
<1>3. \A w \in WorkflowIds :
        workflows'[w] = IF w = old.id THEN new ELSE workflows[w]
  BY <1>1 DEF Writes, TypeInv, TypeOK
<1> QED BY <1>1, <1>2, <1>3, NoneAssumption DEF Exists

(* From which state each transition leads, and where to.                   *)
LEMMA ProposerKnows ==
  ASSUME TypeInv, AuthorisationInv, NEW t \in Threads, Proposes(t)
  PROVE  LET self == thread[t]
             proposal == CreateToolProposal(self.snap, self.at)
         IN /\ self.pc \in HoldsSnap /\ self.snap \in Workflow
            /\ proposal \in Proposal /\ self.snap.status = "received"
            /\ Writes(t, ApplyPlanningResult(self.snap, proposal))
<1>1. /\ thread[t].pc = "plan_store" /\ thread[t].pc \in HoldsSnap
      /\ thread[t].snap \in Workflow /\ thread[t].at \in Nat
  BY DEF Proposes, TypeInv, TypeOK, Shape, HoldsSnap, ThreadState
<1>2. thread[t].snap.status = "received"
  BY <1>1 DEF AuthorisationInv, Knows
<1> QED BY <1>1, <1>2, ProposalType DEF Proposes

LEMMA DeciderKnows ==
  ASSUME TypeInv, AuthorisationInv, NEW t \in Threads, Decides(t)
  PROVE  LET self == thread[t]
             made == CreateApprovalDecision(self.snap.proposal, self.call.by,
                       self.call.decision, self.call.key, self.at)
         IN /\ self.pc \in HoldsSnap /\ self.snap \in Workflow
            /\ made \in Approval /\ made.decision \in Decision
            /\ made.reviewer = self.call.by
            /\ made.reviewer \in Reviewers /\ made.reviewer # self.snap.owner
            /\ made.decision = self.call.decision
            /\ self.snap.status = "awaiting_approval"
            /\ Writes(t, RecordApproval(self.snap, made))
<1> DEFINE self == thread[t]
           made == CreateApprovalDecision(self.snap.proposal, self.call.by,
                     self.call.decision, self.call.key, self.at)
<1>1. /\ self.pc = "decide_store" /\ self.pc \in HoldsSnap
      /\ self.snap \in Workflow /\ self.at \in Nat
      /\ self.snap.proposal \in Proposal
      /\ self.call.by \in Principals /\ self.call.key \in Keys
      /\ self.call.decision \in Decision
  BY DEF Decides, TypeInv, TypeOK, Shape, HoldsSnap, Deciding, ThreadState
<1>2. /\ self.snap.status = "awaiting_approval" /\ self.call.by # self.snap.owner
      /\ HasRole(self.call.by, {"reviewer", "administrator"})
  BY <1>1 DEF AuthorisationInv, Knows
<1>3. made \in Approval
  BY <1>1, ApprovalType
<1>4. made.reviewer = self.call.by /\ made.decision = self.call.decision
  BY DEF CreateApprovalDecision
<1> HIDE DEF made
<1> QED BY <1>1, <1>2, <1>3, <1>4 DEF Decides, Reviewers, made

LEMMA LapserKnows ==
  ASSUME TypeInv, AuthorisationInv, NEW t \in Threads, Lapses(t)
  PROVE  /\ thread[t].pc \in HoldsSnap /\ thread[t].snap \in Workflow
         /\ thread[t].pc = "decide_store" =>
              thread[t].snap.status = "awaiting_approval"
         /\ thread[t].pc = "task_expire" => thread[t].snap.status = "approved"
         /\ Writes(t, Expire(thread[t].snap))
<1>1. /\ thread[t].pc \in {"decide_store", "task_expire"}
      /\ thread[t].pc \in HoldsSnap
  BY DEF Lapses, HoldsSnap, Deciding, Executing
<1> QED BY <1>1 DEF Lapses, TypeInv, Shape, AuthorisationInv, Knows

LEMMA StarterKnows ==
  ASSUME TypeInv, AuthorisationInv, NEW t \in Threads, Starts(t)
  PROVE  /\ thread[t].pc \in HoldsSnap /\ thread[t].snap \in Workflow
         /\ thread[t].snap.status = "approved"
         /\ Writes(t, BeginExecution(thread[t].snap))
<1>1. thread[t].pc = "task_begin" /\ thread[t].pc \in HoldsSnap
  BY DEF Starts, HoldsSnap, Executing
<1> QED BY <1>1 DEF Starts, TypeInv, Shape, AuthorisationInv, Knows

LEMMA FinisherKnows ==
  ASSUME TypeInv, AuthorisationInv, NEW t \in Threads, Finishes(t)
  PROVE  /\ thread[t].pc \in HoldsSnap /\ thread[t].snap \in Workflow
         /\ thread[t].snap.status = "executing"
         /\ thread[t].snap.approval \in Approval
         /\ thread[t].result \in Ticket /\ thread[t].result \in executions
         /\ thread[t].result.key[1] = thread[t].snap.id
         /\ Writes(t, CompleteExecution(thread[t].snap, thread[t].result))
<1>1. /\ thread[t].pc = "task_store" /\ thread[t].pc \in HoldsSnap
      /\ thread[t].pc \in Executing
  BY DEF Finishes, HoldsSnap, Executing
<1> QED BY <1>1 DEF Finishes, TypeInv, Shape, AuthorisationInv, Knows

-----------------------------------------------------------------------------
(* Histories.                                                              *)

LEMMA Appended ==
  ASSUME NEW S, NEW a \in Seq(S), NEW b \in Seq(S)
  PROVE  /\ Len(a \o b) = Len(a) + Len(b)
         /\ \A i \in 1..Len(a) : (a \o b)[i] = a[i]
         /\ \A i \in 1..Len(b) : (a \o b)[Len(a) + i] = b[i]
<1>1. Len(a \o b) = Len(a) + Len(b) /\ Len(a) \in Nat /\ Len(b) \in Nat
  OBVIOUS
<1>2. \A i \in 1..Len(a) : (a \o b)[i] = a[i]
  BY <1>1
<1>3. ASSUME NEW i \in 1..Len(b) PROVE (a \o b)[Len(a) + i] = b[i]
  <2>1. /\ Len(a) + i \in 1..(Len(a) + Len(b)) /\ Len(a) + i > Len(a)
        /\ (Len(a) + i) - Len(a) = i
    BY <1>1
  <2> QED BY <1>1, <2>1
<1> QED BY <1>1, <1>2, <1>3

(* A snapshot that goes on along documented transitions stays diagrammed.  *)
LEMMA PathExtends ==
  ASSUME NEW w \in Workflow, NEW new \in Workflow, Diagrammed(w),
         NEW states \in Seq(State), Len(states) > 0,
         \A i \in 1..Len(states) :
           <<IF i = 1 THEN w.status ELSE states[i - 1], states[i]>>
             \in DocumentedTransitions,
         new.version = w.version + Len(states),
         new.history = w.history \o Path(w.status, states),
         new.status = states[Len(states)]
  PROVE  Diagrammed(new)
<1> DEFINE h == w.history
           p == Path(w.status, states)
           g == new.history
           n == Len(h)
           k == Len(states)
<1>1. /\ h \in Seq(Transition) /\ n \in Nat /\ k \in Nat /\ n > 0 /\ k > 0
      /\ n = Len(h) /\ w.version = n /\ h[n].current = w.status
      /\ \A i \in 1..n :
           /\ <<h[i].previous, h[i].current>> \in DocumentedTransitions
           /\ h[i].previous = IF i = 1 THEN None ELSE h[i - 1].current
  BY SMTT(30) DEF Workflow, Diagrammed
<1>2. p \in Seq(Transition) /\ Len(p) = k
  BY PathType, StatusIsState DEF Workflow, Path
<1>3. \A i \in 1..k :
        /\ p[i].previous = IF i = 1 THEN w.status ELSE states[i - 1]
        /\ p[i].current = states[i]
        /\ <<p[i].previous, p[i].current>> \in DocumentedTransitions
  BY DEF Path
<1>4. g = h \o p /\ new.version = n + k /\ new.status = states[k]
  BY <1>1
<1> SUFFICES /\ Len(g) = n + k /\ g[n + k].current = states[k]
             /\ \A i \in 1..(n + k) :
                  /\ <<g[i].previous, g[i].current>> \in DocumentedTransitions
                  /\ g[i].previous = IF i = 1 THEN None ELSE g[i - 1].current
  <2> HIDE DEF h, p, n, k
  <2>1. n + k > 0
    BY <1>1
  <2> QED BY <1>4, <2>1 DEF Diagrammed
<1> HIDE DEF h, p, g, n, k
<1>5. /\ Len(g) = n + k
      /\ \A i \in 1..n : g[i] = h[i]
      /\ \A i \in 1..k : g[n + i] = p[i]
  <2>1. /\ Len(h \o p) = Len(h) + Len(p)
        /\ \A i \in 1..Len(h) : (h \o p)[i] = h[i]
        /\ \A i \in 1..Len(p) : (h \o p)[Len(h) + i] = p[i]
    <3>1. h \in Seq(Transition) /\ p \in Seq(Transition)
      BY <1>1, <1>2
    <3> QED BY <3>1, Appended, SMTT(60)
  <2>2. Len(h) = n /\ Len(p) = k
    BY <1>1, <1>2
  <2> QED BY <1>4, <2>1, <2>2
<1>6. g[n + k].current = states[k]
  <2>1. k \in 1..k
    BY <1>1
  <2> QED BY <1>3, <1>5, <2>1
<1>7. ASSUME NEW i \in 1..(n + k)
      PROVE  /\ <<g[i].previous, g[i].current>> \in DocumentedTransitions
             /\ g[i].previous = IF i = 1 THEN None ELSE g[i - 1].current
  <2>1. CASE i <= n
    <3>1. i \in 1..n /\ (i # 1 => i - 1 \in 1..n)
      BY <1>1, <2>1
    <3> QED BY <1>1, <1>5, <3>1
  <2>2. CASE i > n
    <3>1. PICK j \in 1..k : i = n + j
      <4>1. i - n \in 1..k /\ i = n + (i - n)
        BY <1>1, <2>2
      <4> QED BY <4>1
    <3>2. /\ g[i].previous = IF j = 1 THEN w.status ELSE states[j - 1]
          /\ <<g[i].previous, g[i].current>> \in DocumentedTransitions
      BY <1>3, <1>5, <3>1
    <3>3. CASE j = 1
      <4>1. i - 1 = n /\ n \in 1..n /\ i # 1
        BY <1>1, <3>1, <3>3
      <4>2. g[i - 1].current = w.status
        BY <1>1, <1>5, <4>1
      <4> QED BY <3>2, <3>3, <4>1, <4>2
    <3>4. CASE j # 1
      <4>1. j - 1 \in 1..k /\ i - 1 = n + (j - 1) /\ i # 1
        BY <1>1, <3>1, <3>4
      <4>2. g[i - 1].current = states[j - 1]
        <5>1. g[n + (j - 1)] = p[j - 1] /\ p[j - 1].current = states[j - 1]
          BY <1>3, <1>5, <4>1
        <5> QED BY <4>1, <5>1
      <4> QED BY <3>2, <3>4, <4>1, <4>2
    <3> QED BY <3>3, <3>4
  <2> QED BY <1>1, <2>1, <2>2
<1> QED BY <1>5, <1>6, <1>7

(* One documented transition.                                              *)
LEMMA OnceExtends ==
  ASSUME NEW w \in Workflow, NEW new \in Workflow, Diagrammed(w),
         NEW status \in Status, <<w.status, status>> \in DocumentedTransitions,
         new.version = w.version + 1,
         new.history = w.history \o Path(w.status, <<status>>),
         new.status = status
  PROVE  Diagrammed(new)
<1> DEFINE states == <<status>>
<1>1. /\ states \in Seq(State) /\ Len(states) = 1 /\ states[1] = status
  BY StatusIsState
<1> HIDE DEF states
<1>2. /\ Len(states) > 0 /\ states[Len(states)] = status
      /\ \A i \in 1..Len(states) :
           <<IF i = 1 THEN w.status ELSE states[i - 1], states[i]>>
             \in DocumentedTransitions
      /\ new.version = w.version + Len(states)
  BY <1>1
<1>3. new.history = w.history \o Path(w.status, states)
  BY DEF states
<1> QED BY <1>1, <1>2, <1>3, PathExtends

LEMMA PlanningExtends ==
  ASSUME NEW w \in Workflow, Diagrammed(w), w.status = "received",
         NEW proposal \in Proposal
  PROVE  Diagrammed(ApplyPlanningResult(w, proposal))
<1> DEFINE new == ApplyPlanningResult(w, proposal)
<1>1. /\ new \in Workflow /\ new.status = "awaiting_approval"
      /\ new.version = w.version + 8
      /\ new.history = w.history \o Path(w.status, PlanningPath)
  BY PlannedFields
<1>2. \A i \in 1..8 :
        <<IF i = 1 THEN w.status ELSE PlanningPath[i - 1], PlanningPath[i]>>
          \in DocumentedTransitions
  <2>1. /\ PlanningPath[1] = "validated" /\ PlanningPath[2] = "guarded"
        /\ PlanningPath[3] = "classified" /\ PlanningPath[4] = "context_built"
        /\ PlanningPath[5] = "knowledge_retrieved" /\ PlanningPath[6] = "planned"
        /\ PlanningPath[7] = "evaluated" /\ PlanningPath[8] = "awaiting_approval"
    BY DEF PlanningPath
  <2> QED BY <2>1 DEF DocumentedTransitions
<1>3. /\ PlanningPath \in Seq(State) /\ Len(PlanningPath) = 8
      /\ new.status = PlanningPath[Len(PlanningPath)]
  BY <1>1, PlanningPathType
<1> HIDE DEF new
<1>4. /\ Len(PlanningPath) > 0 /\ new.version = w.version + Len(PlanningPath)
      /\ \A i \in 1..Len(PlanningPath) :
           <<IF i = 1 THEN w.status ELSE PlanningPath[i - 1], PlanningPath[i]>>
             \in DocumentedTransitions
  BY <1>1, <1>2, <1>3
<1>5. Diagrammed(new)
  BY <1>1, <1>3, <1>4, PathExtends
<1> QED BY <1>5 DEF new

LEMMA CompletionExtends ==
  ASSUME NEW w \in Workflow, Diagrammed(w), w.status = "executing",
         w.approval \in Approval, NEW ticket \in Ticket
  PROVE  Diagrammed(CompleteExecution(w, ticket))
<1> DEFINE new == CompleteExecution(w, ticket)
           states == <<"evaluating", "completed">>
<1>1. /\ new \in Workflow /\ new.status = "completed"
      /\ new.version = w.version + 2
      /\ new.history = w.history \o Path(w.status, states)
  BY CompletedFields
<1>2. /\ states \in Seq(State) /\ Len(states) = 2
      /\ states[1] = "evaluating" /\ states[2] = "completed"
  BY StatusIsState DEF Status
<1> HIDE DEF new, states
<1>3. \A i \in 1..2 :
        <<IF i = 1 THEN w.status ELSE states[i - 1], states[i]>>
          \in DocumentedTransitions
  BY <1>2 DEF DocumentedTransitions
<1>4. /\ Len(states) > 0 /\ new.version = w.version + Len(states)
      /\ new.status = states[Len(states)]
      /\ \A i \in 1..Len(states) :
           <<IF i = 1 THEN w.status ELSE states[i - 1], states[i]>>
             \in DocumentedTransitions
  BY <1>1, <1>2, <1>3
<1>5. Diagrammed(new)
  BY <1>1, <1>2, <1>4, PathExtends
<1> QED BY <1>5 DEF new

LEMMA HistoriesStep ==
  TypeInv /\ AuthorisationInv /\ HistoriesInv /\ [Next]_vars => HistoriesInv'
<1> SUFFICES ASSUME TypeInv, AuthorisationInv, HistoriesInv, [Next]_vars
             PROVE  HistoriesInv'
  OBVIOUS
<1>1. CASE UNCHANGED workflows
  BY <1>1 DEF HistoriesInv, Exists
<1>2. ASSUME NEW t \in Threads, Submits(t) PROVE HistoriesInv'
  <2> DEFINE call == thread[t].call
             new == Receive(call.id, call.by, call.request, call.context)
  <2>1. \A w \in WorkflowIds :
          workflows'[w] = IF w = call.id THEN new ELSE workflows[w]
    BY <1>2, SubmitterKnows
  <2>2. /\ new.history = <<[previous |-> None, current |-> "received"]>>
        /\ new.version = 1 /\ new.status = "received"
    BY DEF Receive
  <2> HIDE DEF new
  <2>3. Diagrammed(new)
    BY <2>2 DEF Diagrammed, DocumentedTransitions
  <2> QED BY <2>1, <2>3 DEF HistoriesInv, Exists
<1>3. ASSUME NEW t \in Threads, thread[t].pc \in HoldsSnap, NEW new, Writes(t, new),
             Diagrammed(thread[t].snap) => Diagrammed(new)
      PROVE  HistoriesInv'
  BY <1>3, WriterKnows DEF HistoriesInv, Exists
<1>4. ASSUME NEW t \in Threads, Proposes(t) PROVE HistoriesInv'
  BY <1>3, <1>4, ProposerKnows, PlanningExtends
<1>5. ASSUME NEW t \in Threads, Decides(t) PROVE HistoriesInv'
  <2> DEFINE self == thread[t]
             made == CreateApprovalDecision(self.snap.proposal, self.call.by,
                       self.call.decision, self.call.key, self.at)
             new == RecordApproval(self.snap, made)
  <2>1. /\ self.pc \in HoldsSnap /\ self.snap \in Workflow /\ made \in Approval
        /\ made.decision \in Decision
        /\ self.snap.status = "awaiting_approval" /\ Writes(t, new)
    BY <1>5, DeciderKnows
  <2> HIDE DEF made
  <2>2. /\ new \in Workflow
        /\ new.status = made.decision /\ new.version = self.snap.version + 1
        /\ new.history = self.snap.history \o Path(self.snap.status, <<made.decision>>)
    BY <2>1, DecidedFields
  <2> HIDE DEF new
  <2>3. /\ made.decision \in Status
        /\ <<self.snap.status, made.decision>> \in DocumentedTransitions
    BY <2>1 DEF Decision, Status, DocumentedTransitions
  <2>4. Diagrammed(self.snap) => Diagrammed(new)
    BY <2>1, <2>2, <2>3, OnceExtends
  <2> QED BY <1>3, <2>1, <2>4
<1>6. ASSUME NEW t \in Threads, Lapses(t) PROVE HistoriesInv'
  <2> DEFINE old == thread[t].snap
             new == Expire(old)
  <2>1. /\ thread[t].pc \in HoldsSnap /\ old \in Workflow /\ Writes(t, new)
        /\ <<old.status, "expired">> \in DocumentedTransitions
    BY <1>6, LapserKnows DEF Lapses, DocumentedTransitions
  <2>2. /\ new \in Workflow
        /\ new.status = "expired" /\ new.version = old.version + 1
        /\ new.history = old.history \o Path(old.status, <<"expired">>)
    BY <2>1, ExpiredFields
  <2> HIDE DEF new
  <2>3. Diagrammed(old) => Diagrammed(new)
    BY <2>1, <2>2, OnceExtends DEF Status
  <2> QED BY <1>3, <2>1, <2>3
<1>7. ASSUME NEW t \in Threads, Starts(t) PROVE HistoriesInv'
  <2> DEFINE old == thread[t].snap
             new == BeginExecution(old)
  <2>1. /\ thread[t].pc \in HoldsSnap /\ old \in Workflow /\ Writes(t, new)
        /\ <<old.status, "executing">> \in DocumentedTransitions
    BY <1>7, StarterKnows DEF DocumentedTransitions
  <2>2. /\ new \in Workflow
        /\ new.status = "executing" /\ new.version = old.version + 1
        /\ new.history = old.history \o Path(old.status, <<"executing">>)
    BY <2>1, BegunFields
  <2> HIDE DEF new
  <2>3. Diagrammed(old) => Diagrammed(new)
    BY <2>1, <2>2, OnceExtends DEF Status
  <2> QED BY <1>3, <2>1, <2>3
<1>8. ASSUME NEW t \in Threads, Finishes(t) PROVE HistoriesInv'
  BY <1>3, <1>8, FinisherKnows, CompletionExtends
<1> QED BY <1>1, <1>2, <1>4, <1>5, <1>6, <1>7, <1>8, RepositoryStep

(* No interleaving of writers, however stale their snapshots, stores a     *)
(* history that is not one path of the documented diagram.                 *)
THEOREM HistoryFollows == Spec => []HistoryFollowsDiagram
<1>1. Init => HistoriesInv
  BY DEF Init, HistoriesInv, Exists
<1>2. TypeInv /\ HistoriesInv => HistoryFollowsDiagram
  <2> SUFFICES ASSUME TypeInv, HistoriesInv, NEW w \in WorkflowIds, Exists(w)
               PROVE  LET h == workflows[w].history
                      IN /\ workflows[w].version = Len(h)
                         /\ h[Len(h)].current = workflows[w].status
                         /\ \A i \in DOMAIN h :
                              /\ <<h[i].previous, h[i].current>> \in DocumentedTransitions
                              /\ h[i].previous = IF i = 1 THEN None
                                                 ELSE h[i - 1].current
    BY DEF HistoryFollowsDiagram
  <2>1. workflows[w].history \in Seq(Transition)
    BY DEF TypeInv, TypeOK, Exists, Workflow
  <2>2. DOMAIN workflows[w].history = 1..Len(workflows[w].history)
    BY <2>1
  <2> QED BY <2>2 DEF HistoriesInv, Diagrammed
<1>3. (TypeInv /\ AuthorisationInv /\ HistoriesInv) /\ [Next]_vars => HistoriesInv'
  BY HistoriesStep
<1> QED BY <1>1, <1>2, <1>3, AuthAlways, PTL DEF Spec

-----------------------------------------------------------------------------
(* Idempotency keys.                                                       *)

LEMMA KeysStep ==
  TypeInv /\ AuthorisationInv /\ KeysInv /\ [Next]_vars => KeysInv'
<1> SUFFICES ASSUME TypeInv, AuthorisationInv, KeysInv, [Next]_vars
             PROVE  KeysInv'
  OBVIOUS
<1>1. CASE UNCHANGED <<workflows, idempotency>>
  BY <1>1 DEF KeysInv, Exists
<1>2. ASSUME NEW t \in Threads, Submits(t) PROVE KeysInv'
  <2> DEFINE call == thread[t].call
             at == <<call.by, call.key>>
             new == Receive(call.id, call.by, call.request, call.context)
  <2>1. /\ call.id \in WorkflowIds /\ call.by \in Principals /\ call.key \in Keys
        /\ new.owner = call.by
        /\ \A w \in WorkflowIds :
             workflows'[w] = IF w = call.id THEN new ELSE workflows[w]
    BY <1>2, SubmitterKnows
  <2>2. workflows[call.id] = None /\ idempotency[at] = None
    BY <1>2 DEF Submits
  <2>3. \A k \in Principals \X Keys :
          idempotency'[k] = IF k = at THEN call.id ELSE idempotency[k]
    BY <1>2 DEF Submits, TypeInv, TypeOK
  <2>4. at \in Principals \X Keys
    BY <2>1
  <2>5. \A k \in Principals \X Keys : idempotency[k] # call.id
    BY <2>1, <2>2, NoneAssumption DEF TypeInv, KeysResolve
  <2> HIDE DEF new
  <2>6. ASSUME NEW w \in WorkflowIds, workflows'[w] # None
        PROVE  \E k \in Keys : idempotency'[<<workflows'[w].owner, k>>] = w
    <3>1. CASE w = call.id
      BY <2>1, <2>3, <2>4, <3>1
    <3>2. CASE w # call.id
      <4>1. workflows'[w] = workflows[w] /\ workflows[w] \in Workflow
        BY <2>1, <2>6, <3>2 DEF TypeInv, TypeOK
      <4>2. PICK k \in Keys : idempotency[<<workflows[w].owner, k>>] = w
        BY <2>6, <4>1 DEF KeysInv, Exists
      <4>3. /\ <<workflows[w].owner, k>> \in Principals \X Keys
            /\ <<workflows[w].owner, k>> # at
        BY <2>2, <4>1, <4>2, NoneAssumption DEF Workflow
      <4> QED BY <2>3, <4>1, <4>2, <4>3
    <3> QED BY <3>1, <3>2
  <2>7. ASSUME NEW j \in Principals \X Keys, NEW k \in Principals \X Keys,
               idempotency'[j] # None, idempotency'[j] = idempotency'[k]
        PROVE  j = k
    BY <2>3, <2>5, <2>7 DEF KeysInv
  <2> QED BY <2>6, <2>7 DEF KeysInv, Exists
<1>3. ASSUME NEW t \in Threads, thread[t].pc \in HoldsSnap,
             NEW new, Writes(t, new), new.owner = thread[t].snap.owner
      PROVE  KeysInv'
  <2> DEFINE old == thread[t].snap
  <2>1. /\ workflows[old.id] = old /\ Exists(old.id) /\ old.id \in WorkflowIds
        /\ \A w \in WorkflowIds :
             workflows'[w] = IF w = old.id THEN new ELSE workflows[w]
    BY <1>3, WriterKnows
  <2>2. idempotency' = idempotency
    BY <1>3 DEF Writes
  <2> HIDE DEF old
  <2> QED BY <1>3, <2>1, <2>2 DEF KeysInv, Exists, old
<1>4. ASSUME NEW t \in Threads, Proposes(t) PROVE KeysInv'
  BY <1>3, <1>4, ProposerKnows, PlannedFields
<1>5. ASSUME NEW t \in Threads, Decides(t) PROVE KeysInv'
  BY <1>3, <1>5, DeciderKnows, DecidedFields
<1>6. ASSUME NEW t \in Threads, Lapses(t) PROVE KeysInv'
  BY <1>3, <1>6, LapserKnows, ExpiredFields
<1>7. ASSUME NEW t \in Threads, Starts(t) PROVE KeysInv'
  BY <1>3, <1>7, StarterKnows, BegunFields
<1>8. ASSUME NEW t \in Threads, Finishes(t) PROVE KeysInv'
  BY <1>3, <1>8, FinisherKnows, CompletedFields, ZenonT(40)
<1> QED BY <1>1, <1>2, <1>4, <1>5, <1>6, <1>7, <1>8, RepositoryStep

(* However many creates race under one key, or under many, a workflow is   *)
(* reached through exactly one key, and that is a key of its owner.        *)
THEOREM OneKeyPerWorkflow == Spec => []EachWorkflowHasOneKey
<1>1. Init => KeysInv
  BY DEF Init, KeysInv, Exists
<1>2. TypeInv /\ KeysInv => EachWorkflowHasOneKey
  <2> SUFFICES ASSUME TypeInv, KeysInv, NEW w \in WorkflowIds, Exists(w)
               PROVE  /\ \E k \in Keys : idempotency[<<workflows[w].owner, k>>] = w
                      /\ Cardinality({k \in Principals \X Keys :
                                        idempotency[k] = w}) = 1
    BY DEF EachWorkflowHasOneKey
  <2>1. PICK k \in Keys : idempotency[<<workflows[w].owner, k>>] = w
    BY DEF KeysInv
  <2> DEFINE at == <<workflows[w].owner, k>>
  <2>2. at \in Principals \X Keys
    BY DEF TypeInv, TypeOK, Exists, Workflow
  <2>3. w # None
    BY NoneAssumption
  <2>4. {j \in Principals \X Keys : idempotency[j] = w} = {at}
    BY <2>1, <2>2, <2>3 DEF KeysInv
  <2>5. Cardinality({at}) = 1
    BY FS_Singleton
  <2> QED BY <2>1, <2>4, <2>5
<1>3. (TypeInv /\ AuthorisationInv /\ KeysInv) /\ [Next]_vars => KeysInv'
  BY KeysStep
<1> QED BY <1>1, <1>2, <1>3, AuthAlways, PTL DEF Spec

-----------------------------------------------------------------------------
(* Work that is over.                                                      *)

LEMMA OverStaysOver ==
  ASSUME TypeInv, AuthorisationInv, [Next]_vars, NEW w \in WorkflowIds,
         NEW s \in {"expired", "completed"}, HasStatus(w, s)
  PROVE  HasStatus(w, s)'
<1>1. CASE UNCHANGED workflows
  BY <1>1 DEF HasStatus, Exists
<1>2. ASSUME NEW t \in Threads, Submits(t) PROVE HasStatus(w, s)'
  <2>1. w # thread[t].call.id
    BY <1>2 DEF Submits, HasStatus, Exists
  <2>2. workflows'[w] = workflows[w]
    BY <1>2, <2>1, SubmitterKnows
  <2> QED BY <2>2 DEF HasStatus, Exists
<1>3. ASSUME NEW t \in Threads, thread[t].pc \in HoldsSnap,
             NEW new, Writes(t, new),
             thread[t].snap.status \notin {"expired", "completed"}
      PROVE  HasStatus(w, s)'
  <2>1. w # thread[t].snap.id
    BY <1>3, WriterKnows DEF HasStatus
  <2>2. workflows'[w] = workflows[w]
    BY <1>3, <2>1, WriterKnows
  <2> QED BY <2>2 DEF HasStatus, Exists
<1>4. ASSUME NEW t \in Threads, Proposes(t) PROVE HasStatus(w, s)'
  BY <1>3, <1>4, ProposerKnows
<1>5. ASSUME NEW t \in Threads, Decides(t) PROVE HasStatus(w, s)'
  BY <1>3, <1>5, DeciderKnows
<1>6. ASSUME NEW t \in Threads, Lapses(t) PROVE HasStatus(w, s)'
  BY <1>3, <1>6, LapserKnows DEF Lapses
<1>7. ASSUME NEW t \in Threads, Starts(t) PROVE HasStatus(w, s)'
  BY <1>3, <1>7, StarterKnows
<1>8. ASSUME NEW t \in Threads, Finishes(t) PROVE HasStatus(w, s)'
  BY <1>3, <1>8, FinisherKnows
<1> QED BY <1>1, <1>2, <1>4, <1>5, <1>6, <1>7, <1>8, RepositoryStep

-----------------------------------------------------------------------------
(* The queue.                                                              *)

(* What a step does to the queue: nothing, a first enqueue by a handler    *)
(* that holds an approval, a delivery, or an acknowledgement.              *)
FirstEnqueue(t) ==
  LET w == thread[t].snap.id
  IN /\ thread[t].pc \in {"decide_requeue", "decide_enqueue"}
     /\ tasks[w] = None
     /\ tasks' = [tasks EXCEPT ![w] = CreateExecutionTask(thread[t].snap)]
     /\ order' = Append(order, w)
     /\ UNCHANGED completed

Delivery(w) ==
  /\ IsNext(w)
  /\ tasks' = [tasks EXCEPT ![w] = Delivered(@)]
  /\ UNCHANGED <<order, completed>>

Acknowledgement(t) ==
  /\ thread[t].pc \in {"task_discard", "task_complete", "task_done"}
  /\ completed' = completed \cup {thread[t].task.workflow}
  /\ UNCHANGED <<tasks, order>>

LEMMA EnqueueQueues ==
  ASSUME TypeInv, NEW t \in Threads, NEW next,
         thread[t].pc \in {"decide_requeue", "decide_enqueue"},
         Enqueue(t, CreateExecutionTask(thread[t].snap), next)
  PROVE  UNCHANGED queue \/ FirstEnqueue(t)
<1>1. thread[t].snap \in Workflow /\ thread[t].snap.proposal \in Proposal
  BY DEF TypeInv, Shape, HoldsSnap, Deciding
<1>2. CreateExecutionTask(thread[t].snap).workflow = thread[t].snap.id
  BY <1>1, TaskType
<1> QED BY <1>2 DEF Enqueue, FirstEnqueue, queue

LEMMA QueueStep ==
  ASSUME TypeInv, [Next]_vars
  PROVE  \/ UNCHANGED queue
         \/ \E t \in Threads : FirstEnqueue(t) \/ Acknowledgement(t)
         \/ \E w \in WorkflowIds : Delivery(w)
<1>1. CASE Tick \/ UNCHANGED vars
  BY <1>1 DEF Tick, vars, queue
<1>2. ASSUME NEW t \in Threads, Call(t)
      PROVE  UNCHANGED queue \/ \E w \in WorkflowIds : Delivery(w)
  <2>1. CASE ProcessClaim(t)
    BY <2>1 DEF ProcessClaim, Delivery
  <2>2. CASE ~ProcessClaim(t)
    BY <1>2, <2>2 DEF Call, CreateRefused, CreateIntake, ReadLoad, PlanLoad,
              DecideRefused, DecideLoad, ProcessRefused, ProcessNothing
  <2> QED BY <2>1, <2>2
<1>3. ASSUME NEW t \in Threads, Interrupt(t) PROVE UNCHANGED queue
  BY <1>3 DEF Interrupt
<1>4. ASSUME NEW t \in Threads, Step(t)
      PROVE  UNCHANGED queue \/ FirstEnqueue(t) \/ Acknowledgement(t)
  <2>1. CASE DecideRequeue(t) \/ DecideEnqueue(t)
    BY <2>1, EnqueueQueues DEF DecideRequeue, DecideEnqueue
  <2>2. CASE TaskDiscard(t) \/ TaskComplete(t) \/ TaskDone(t)
    BY <2>2 DEF TaskDiscard, TaskComplete, TaskDone, Complete, Acknowledgement
  <2>3. CASE \/ CreateStore(t) \/ PlanPolicy(t) \/ PlanClock(t) \/ PlanStore(t)
             \/ DecideClock(t) \/ DecideExpire(t) \/ DecideStore(t)
             \/ TaskLoad(t) \/ TaskClock(t) \/ TaskExpire(t) \/ TaskPolicy(t)
             \/ TaskBegin(t) \/ TaskExecute(t) \/ TaskStore(t)
             \/ RecordAudit(t) \/ Respond(t)
    BY <2>3, Zenon DEF CreateStore, PlanPolicy, PlanClock, ReadClock, PlanStore,
              DecideClock, DecideExpire, DecideStore, TaskLoad, TaskClock,
              TaskExpire, TaskPolicy, TaskBegin, TaskExecute, TaskStore,
              RecordAudit, Respond
  <2> QED BY <1>4, <2>1, <2>2, <2>3 DEF Step
<1> QED BY <1>1, <1>2, <1>3, <1>4 DEF Next

(* Tasks and their places in the queue are never withdrawn.                *)
LEMMA QueueGrows ==
  ASSUME TypeInv, [Next]_vars, NEW w \in WorkflowIds
  PROVE  /\ tasks[w] # None => tasks'[w] # None
         /\ Queued(w) => Queued(w)'
         /\ w \in completed => w \in completed'
<1>1. CASE UNCHANGED queue
  BY <1>1 DEF queue, Queued
<1>2. ASSUME NEW t \in Threads, FirstEnqueue(t)
      PROVE  /\ tasks[w] # None => tasks'[w] # None
             /\ Queued(w) => Queued(w)'
             /\ w \in completed => w \in completed'
  <2>1. order \in Seq(WorkflowIds) /\ thread[t].snap.id \in WorkflowIds
    BY <1>2 DEF FirstEnqueue, TypeInv, TypeOK, Shape, HoldsSnap, Deciding, Workflow
  <2>2. \A i \in DOMAIN order : i \in DOMAIN order' /\ order'[i] = order[i]
    BY <1>2, <2>1 DEF FirstEnqueue
  <2> QED BY <1>2, <2>2 DEF FirstEnqueue, Queued, TypeInv, TypeOK
<1>3. ASSUME NEW t \in Threads, Acknowledgement(t)
      PROVE  /\ tasks[w] # None => tasks'[w] # None
             /\ Queued(w) => Queued(w)'
             /\ w \in completed => w \in completed'
  BY <1>3 DEF Acknowledgement, Queued
<1>4. ASSUME NEW x \in WorkflowIds, Delivery(x)
      PROVE  /\ tasks[w] # None => tasks'[w] # None
             /\ Queued(w) => Queued(w)'
             /\ w \in completed => w \in completed'
  <2>1. tasks[w] # None => tasks[w] \in Task /\ Delivered(tasks[w]) \in Task
    BY ServiceAssumption, SMTT(30) DEF TypeInv, TypeOK, Task, Delivered
  <2>2. tasks'[w] \in {tasks[w], Delivered(tasks[w])}
    BY <1>4 DEF Delivery, TypeInv, TypeOK
  <2> QED BY <1>4, <2>1, <2>2, NoneAssumption DEF Delivery, Queued
<1> QED BY <1>1, <1>2, <1>3, <1>4, QueueStep

LEMMA TasksAreQueuedStep ==
  TypeInv /\ AuthorisationInv /\ TasksAreQueued /\ [Next]_vars => TasksAreQueued'
<1> SUFFICES ASSUME TypeInv, AuthorisationInv, TasksAreQueued, [Next]_vars,
                    NEW w \in WorkflowIds, tasks'[w] # None
             PROVE  Queued(w)' /\ tasks'[w].digest = <<w, workflows'[w].request>>
  BY DEF TasksAreQueued
<1>1. ASSUME tasks[w] # None PROVE workflows'[w].request = workflows[w].request
  <2>1. workflows[w] # None
    BY <1>1 DEF TasksAreQueued, AuthorisationInv, QueuedIsApproved, IsApproved,
                IsDecided, Exists
  <2> QED BY <2>1, AuthNext DEF Grows, Extends, Follows
<1>2. CASE tasks'[w] = tasks[w]
  BY <1>1, <1>2, QueueGrows DEF TasksAreQueued
<1>3. ASSUME NEW t \in Threads, FirstEnqueue(t), tasks'[w] # tasks[w]
      PROVE  Queued(w)' /\ tasks'[w].digest = <<w, workflows'[w].request>>
  <2> DEFINE snap == thread[t].snap
  <2>1. /\ snap \in Workflow /\ snap.proposal \in Proposal
        /\ thread[t].pc \in HoldsSnap /\ snap.id \in WorkflowIds
    BY <1>3 DEF FirstEnqueue, TypeInv, Shape, HoldsSnap, Deciding, Workflow
  <2>2. w = snap.id /\ tasks'[w] = CreateExecutionTask(snap)
    BY <1>3, <2>1 DEF FirstEnqueue, TypeInv, TypeOK
  <2>3. /\ snap.proposal.digest = <<w, snap.request>>
        /\ workflows[w] # None /\ workflows[w].request = snap.request
    BY <2>1, <2>2, NoneAssumption DEF AuthorisationInv, Knows, Legal, Follows
  <2>4. workflows'[w].request = snap.request
    BY <2>3, AuthNext DEF Grows, Extends, Follows
  <2>5. Queued(w)'
    <3>1. /\ order \in Seq(WorkflowIds) /\ order' = Append(order, w)
      BY <1>3, <2>2 DEF FirstEnqueue, TypeInv, TypeOK
    <3>2. Len(order) + 1 \in DOMAIN order' /\ order'[Len(order) + 1] = w
      BY <3>1
    <3> QED BY <3>2 DEF Queued
  <2> QED BY <2>2, <2>3, <2>4, <2>5 DEF CreateExecutionTask
<1>4. ASSUME NEW x \in WorkflowIds, Delivery(x), tasks'[w] # tasks[w]
      PROVE  Queued(w)' /\ tasks'[w].digest = <<w, workflows'[w].request>>
  <2>1. w = x /\ tasks'[w] = Delivered(tasks[w])
    BY <1>4 DEF Delivery, TypeInv, TypeOK
  <2>2. tasks[w] # None
    BY <1>4, <2>1 DEF Delivery, IsNext, TypeInv, OrderHasTasks
  <2>3. tasks[w] \in Task /\ Delivered(tasks[w]).digest = tasks[w].digest
    BY <2>2 DEF TypeInv, TypeOK, Task, Delivered
  <2> QED BY <1>1, <2>1, <2>2, <2>3, QueueGrows DEF TasksAreQueued
<1>5. tasks' = tasks \/ (\E t \in Threads : FirstEnqueue(t))
        \/ (\E x \in WorkflowIds : Delivery(x))
  BY QueueStep DEF Acknowledgement, queue
<1> QED BY <1>2, <1>3, <1>4, <1>5

LEMMA UsedIsQueuedStep ==
  TypeInv /\ AuthorisationInv /\ QueueInv /\ [Next]_vars => UsedIsQueued'
<1> SUFFICES ASSUME TypeInv, AuthorisationInv, QueueInv, [Next]_vars,
                    NEW w \in WorkflowIds,
                    IsApproved(w)', workflows'[w].status # "approved"
             PROVE  tasks'[w] # None
  BY DEF UsedIsQueued
<1>1. CASE workflows'[w] = workflows[w]
  <2>1. tasks[w] # None
    BY <1>1 DEF QueueInv, UsedIsQueued, IsApproved, IsDecided, Exists
  <2> QED BY <2>1, QueueGrows
<1>2. ASSUME NEW t \in Threads, Submits(t) PROVE tasks'[w] # None
  <2>1. workflows'[w].approval = None \/ workflows'[w] = workflows[w]
    BY <1>2, SubmitterKnows
  <2> QED BY <1>1, <2>1 DEF IsApproved, IsDecided
<1>3. ASSUME NEW t \in Threads, thread[t].pc \in Executing,
             NEW new, Writes(t, new)
      PROVE  tasks'[w] # None
  <2>1. thread[t].pc \in HoldsSnap /\ thread[t].pc \in HoldsTask
    BY <1>3 DEF HoldsSnap, HoldsTask
  <2>2. thread[t].snap.id = thread[t].task.workflow
    BY <1>3 DEF AuthorisationInv, Knows
  <2>3. tasks[thread[t].snap.id] # None
    BY <2>1, <2>2 DEF QueueInv, Frame
  <2>4. workflows'[w] = workflows[w] \/ w = thread[t].snap.id
    BY <1>3, <2>1, WriterKnows
  <2> QED BY <1>1, <2>3, <2>4, QueueGrows
<1>4. ASSUME NEW t \in Threads, thread[t].pc \in HoldsSnap, NEW new, Writes(t, new),
             new.approval = None \/ new.status = "approved"
                \/ new.approval.decision = "rejected"
      PROVE  tasks'[w] # None
  <2>1. workflows'[w] = workflows[w] \/ workflows'[w] = new
    BY <1>4, WriterKnows
  <2> QED BY <1>1, <1>4, <2>1 DEF IsApproved, IsDecided
<1>5. ASSUME NEW t \in Threads, Proposes(t) PROVE tasks'[w] # None
  <2> DEFINE old == thread[t].snap
             proposal == CreateToolProposal(old, thread[t].at)
             new == ApplyPlanningResult(old, proposal)
  <2>1. /\ thread[t].pc \in HoldsSnap /\ old \in Workflow /\ proposal \in Proposal
        /\ old.status = "received" /\ Writes(t, new)
    BY <1>5, ProposerKnows
  <2>2. old.approval = None
    BY <2>1 DEF AuthorisationInv, Knows, Legal
  <2>3. new.approval = None
    BY <2>1, <2>2, PlannedFields, ZenonT(40)
  <2> HIDE DEF new
  <2> QED BY <1>4, <2>1, <2>3
<1>6. ASSUME NEW t \in Threads, Decides(t) PROVE tasks'[w] # None
  <2> DEFINE self == thread[t]
             made == CreateApprovalDecision(self.snap.proposal, self.call.by,
                       self.call.decision, self.call.key, self.at)
             new == RecordApproval(self.snap, made)
  <2>1. /\ self.pc \in HoldsSnap /\ self.snap \in Workflow /\ made \in Approval
        /\ made.decision \in Decision /\ Writes(t, new)
    BY <1>6, DeciderKnows
  <2> HIDE DEF made
  <2>2. new.status = made.decision /\ new.approval = made
    BY <2>1, DecidedFields
  <2>3. new.status = "approved" \/ new.approval.decision = "rejected"
    BY <2>1, <2>2 DEF Decision
  <2> HIDE DEF new
  <2> QED BY <1>4, <2>1, <2>3
<1>7. ASSUME NEW t \in Threads, Lapses(t) PROVE tasks'[w] # None
  <2>1. CASE thread[t].pc = "task_expire"
    BY <1>3, <1>7, <2>1, LapserKnows DEF Executing
  <2>2. CASE thread[t].pc = "decide_store"
    <3> DEFINE old == thread[t].snap
               new == Expire(old)
    <3>1. /\ thread[t].pc \in HoldsSnap /\ old \in Workflow /\ Writes(t, new)
          /\ old.status = "awaiting_approval"
      BY <1>7, <2>2, LapserKnows
    <3>2. old.approval = None
      BY <3>1 DEF AuthorisationInv, Knows, Legal
    <3>3. new.approval = None
      BY <3>1, <3>2, ExpiredFields
    <3> HIDE DEF new
    <3> QED BY <1>4, <3>1, <3>3
  <2> QED BY <1>7, <2>1, <2>2 DEF Lapses
<1>8. ASSUME NEW t \in Threads, Starts(t) PROVE tasks'[w] # None
  BY <1>3, <1>8 DEF Starts, Executing
<1>9. ASSUME NEW t \in Threads, Finishes(t) PROVE tasks'[w] # None
  BY <1>3, <1>9 DEF Finishes, Executing
<1>10. CASE UNCHANGED <<workflows, idempotency>>
  BY <1>1, <1>10
<1> QED BY <1>2, <1>5, <1>6, <1>7, <1>8, <1>9, <1>10, RepositoryStep

LEMMA UnfinishedStep ==
  TypeInv /\ AuthorisationInv /\ QueueInv /\ [Next]_vars
    => UnfinishedWorkIsDeliverable'
<1> SUFFICES ASSUME TypeInv, AuthorisationInv, QueueInv, [Next]_vars,
                    NEW w \in WorkflowIds, w \in completed'
             PROVE  HasStatus(w, "completed")' \/ HasStatus(w, "expired")'
  BY DEF UnfinishedWorkIsDeliverable
<1>1. HasStatus(w, "completed") \/ HasStatus(w, "expired")
  <2>1. CASE w \in completed
    BY <2>1 DEF QueueInv, UnfinishedWorkIsDeliverable
  <2>2. CASE w \notin completed
    <3>1. PICK t \in Threads : Acknowledgement(t)
      BY <2>2, QueueStep DEF FirstEnqueue, Delivery, queue
    <3>2. w = thread[t].task.workflow
      BY <2>2, <3>1 DEF Acknowledgement
    <3> QED BY <3>1, <3>2 DEF Acknowledgement, QueueInv, Frame
  <2> QED BY <2>1, <2>2
<1> QED BY <1>1, OverStaysOver

-----------------------------------------------------------------------------
(* Frames.                                                                 *)

(* Points of the code at which a handler has nothing to remember.          *)
Elsewhere == {"idle", "create_store", "plan_policy", "plan_clock", "plan_store",
              "audit", "reply"}

LEMMA FrameElsewhere ==
  ASSUME NEW t \in Threads, thread'[t].pc \in Elsewhere
  PROVE  Frame(thread[t])'
BY DEF Frame, Elsewhere, Deciding, HoldsTask, Executing

(* A handler that takes no step keeps what it remembers.                   *)
LEMMA FrameStays ==
  ASSUME TypeInv, AuthorisationInv, QueueInv, [Next]_vars,
         NEW t \in Threads, thread'[t] = thread[t]
  PROVE  Frame(thread[t])'
<1> DEFINE w == thread[t].task.workflow
<1>1. Frame(thread[t])
  BY DEF QueueInv
<1>2. CASE thread[t].pc \in HoldsTask
  <2>1. w \in WorkflowIds
    BY <1>2 DEF TypeInv, Shape, Task
  <2>2. /\ tasks[w] # None => tasks'[w] # None
        /\ HasStatus(w, "expired") => HasStatus(w, "expired")'
        /\ HasStatus(w, "completed") => HasStatus(w, "completed")'
    BY <2>1, QueueGrows, OverStaysOver
  <2>3. thread'[t].task.workflow = w
    OBVIOUS
  <2> QED BY <1>1, <2>2, <2>3 DEF Frame, HasStatus, Exists
<1>3. CASE thread[t].pc \notin HoldsTask
  BY <1>1, <1>3 DEF Frame, HoldsTask
<1> QED BY <1>2, <1>3

LEMMA BecomesAt ==
  ASSUME TypeInv, NEW t \in Threads, NEW s, Becomes(t, s)
  PROVE  thread'[t] = s /\ \A u \in Threads : u # t => thread'[u] = thread[u]
BY DEF Becomes, TypeInv, TypeOK

LEMMA UpdateBecomes ==
  ASSUME NEW t \in Threads, NEW new, NEW next, Update(t, new, next)
  PROVE  \/ Becomes(t, next) /\ workflows' = [workflows EXCEPT ![new.id] = new]
         \/ Becomes(t, Raise(thread[t], "InvalidWorkflowState"))
BY DEF Update

LEMMA EnqueueBecomes ==
  ASSUME NEW t \in Threads, NEW task, NEW next, Enqueue(t, task, next)
  PROVE  \/ Becomes(t, next)
         \/ Becomes(t, Raise(thread[t], "IdempotencyConflict"))
BY DEF Enqueue

(* A step of one handler leaves the local variables of the others alone.   *)
LEMMA SomebodyMoves ==
  ASSUME NEW t \in Threads, Call(t) \/ Step(t) \/ Interrupt(t)
  PROVE  \E s : Becomes(t, s)
<1>1. CASE Call(t)
  <2>1. CASE CreateRefused(t) \/ DecideRefused(t) \/ ProcessRefused(t)
    BY <2>1 DEF CreateRefused, DecideRefused, ProcessRefused, Refuse
  <2>2. CASE CreateIntake(t)
    BY <2>2 DEF CreateIntake
  <2>3. CASE ReadLoad(t)
    BY <2>3 DEF ReadLoad
  <2>4. CASE PlanLoad(t)
    BY <2>4 DEF PlanLoad
  <2>5. CASE DecideLoad(t)
    BY <2>5 DEF DecideLoad
  <2>6. CASE ProcessNothing(t) \/ ProcessClaim(t)
    BY <2>6 DEF ProcessNothing, ProcessClaim
  <2> QED BY <1>1, <2>1, <2>2, <2>3, <2>4, <2>5, <2>6 DEF Call
<1>2. CASE Step(t)
  <2>1. CASE CreateStore(t) \/ PlanPolicy(t) \/ PlanClock(t) \/ DecideClock(t)
    BY <2>1 DEF CreateStore, PlanPolicy, PlanClock, DecideClock, ReadClock
  <2>2. CASE PlanStore(t) \/ DecideExpire(t) \/ DecideStore(t)
    BY <2>2, UpdateBecomes DEF PlanStore, DecideExpire, DecideStore
  <2>3. CASE DecideRequeue(t) \/ DecideEnqueue(t)
    BY <2>3, EnqueueBecomes DEF DecideRequeue, DecideEnqueue
  <2>4. CASE TaskExpire(t) \/ TaskBegin(t) \/ TaskStore(t)
    BY <2>4, UpdateBecomes DEF TaskExpire, TaskBegin, TaskStore
  <2>5. CASE TaskDiscard(t) \/ TaskComplete(t) \/ TaskDone(t)
    BY <2>5 DEF TaskDiscard, TaskComplete, TaskDone, Complete
  <2>6. CASE TaskLoad(t)
    BY <2>6, Zenon DEF TaskLoad
  <2>10. CASE TaskClock(t)
    BY <2>10 DEF TaskClock
  <2>7. CASE TaskPolicy(t)
    BY <2>7 DEF TaskPolicy
  <2>9. CASE TaskExecute(t)
    BY <2>9 DEF TaskExecute
  <2>8. CASE RecordAudit(t) \/ Respond(t)
    BY <2>8 DEF RecordAudit, Respond
  <2> QED BY <1>2, <2>1, <2>2, <2>3, <2>4, <2>5, <2>6, <2>7, <2>8, <2>9, <2>10 DEF Step
<1>3. CASE Interrupt(t)
  BY <1>3 DEF Interrupt
<1> QED BY <1>1, <1>2, <1>3

LEMMA EndingElsewhere ==
  /\ \A self, w : Answer(self, w).pc \in Elsewhere
  /\ \A self, error : Raise(self, error).pc \in Elsewhere
  /\ \A self, w, action, outcome :
       AuditThen(Answer(self, w), action, outcome).pc \in Elsewhere
  /\ \A self, error, action, outcome :
       AuditThen(Raise(self, error), action, outcome).pc \in Elsewhere
BY DEF Answer, Raise, AuditThen, IdleThread, Elsewhere

(* A call that starts a handler without a task or a decision.              *)
LEMMA CallElsewhere ==
  ASSUME TypeInv, NEW t \in Threads,
         \/ CreateRefused(t) \/ CreateIntake(t) \/ ReadLoad(t) \/ PlanLoad(t)
         \/ DecideRefused(t) \/ ProcessRefused(t) \/ ProcessNothing(t)
  PROVE  thread'[t].pc \in Elsewhere
<1>1. CASE CreateRefused(t) \/ DecideRefused(t) \/ ProcessRefused(t)
  <2>1. PICK self : Becomes(t, Raise(self, "PermissionDenied"))
    BY <1>1 DEF CreateRefused, DecideRefused, ProcessRefused, Refuse
  <2> QED BY <2>1, BecomesAt, EndingElsewhere
<1>2. CASE ProcessNothing(t)
  BY <1>2, BecomesAt, EndingElsewhere DEF ProcessNothing
<1>3. CASE ReadLoad(t)
  <2>1. PICK s : s.pc \in Elsewhere /\ Becomes(t, s)
    BY <1>3, EndingElsewhere DEF ReadLoad
  <2> QED BY <2>1, BecomesAt
<1>4. CASE CreateIntake(t)
  <2>1. PICK p \in Principals, w \in WorkflowIds, r \in Requests,
             c \in Contexts, k \in Keys :
          LET call == CreateCall(p, w, r, c, k)
              self == [IdleThread EXCEPT !.call = call]
          IN /\ HasRole(p, {"requester", "administrator"})
             /\ FreshId(w)
             /\ IF c \in UnreviewedOverlay
                  THEN /\ Becomes(t, Raise(self, "ComplianceOverlayUnavailable"))
                       /\ UNCHANGED events
                  ELSE /\ Record(Event(self, "data_processing.workflow_intake",
                                       Outcome("workflow_intake", call), None))
                       /\ Becomes(t, IF Allows("workflow_intake", call)
                                       THEN [self EXCEPT !.pc = "create_store"]
                                       ELSE Raise(self, "DataProcessingDenied"))
    BY <1>4 DEF CreateIntake
  <2> DEFINE call == CreateCall(p, w, r, c, k)
             self == [IdleThread EXCEPT !.call = call]
             next == [self EXCEPT !.pc = "create_store"]
  <2>2. next.pc \in Elsewhere
    BY DEF IdleThread, Elsewhere
  <2>3. \/ \E error : Becomes(t, Raise(self, error))
        \/ Becomes(t, next)
    BY <2>1
  <2> HIDE DEF next, self
  <2> QED BY <2>2, <2>3, BecomesAt, EndingElsewhere
<1>5. CASE PlanLoad(t)
  <2>1. PICK s : s.pc \in Elsewhere /\ Becomes(t, s)
    <3>1. \A call, w : [[IdleThread EXCEPT !.call = call]
                           EXCEPT !.pc = "plan_policy", !.snap = w].pc \in Elsewhere
      BY DEF IdleThread, Elsewhere
    <3> QED BY <1>5, <3>1, EndingElsewhere DEF PlanLoad
  <2> QED BY <2>1, BecomesAt
<1> QED BY <1>1, <1>2, <1>3, <1>4, <1>5

(* The steps that end a handler, or lead to its last audit record.         *)
LEMMA StepElsewhere ==
  ASSUME TypeInv, NEW t \in Threads,
         \/ CreateStore(t) \/ PlanPolicy(t) \/ PlanClock(t) \/ PlanStore(t)
         \/ DecideRequeue(t) \/ DecideExpire(t) \/ DecideEnqueue(t)
         \/ TaskDiscard(t) \/ TaskComplete(t) \/ TaskDone(t)
         \/ RecordAudit(t) \/ Respond(t) \/ Interrupt(t)
  PROVE  thread'[t].pc \in Elsewhere
<1> SUFFICES \E s : s.pc \in Elsewhere /\ Becomes(t, s)
  BY BecomesAt
<1>1. thread[t] \in ThreadState
  BY DEF TypeInv, TypeOK
<1>2. CASE CreateStore(t)
  <2> DEFINE self == thread[t]
             Ended(x) == [Answer(self, x) EXCEPT !.call.id = x.id]
             Stored(x) == AuditThen(Ended(x), "workflow.create", "accepted")
  <2>1. \A x : Stored(x).pc = "audit"
    BY DEF AuditThen, Answer, IdleThread
  <2>2. \/ \E x : Becomes(t, Stored(x))
        \/ Becomes(t, Raise(self, "IdempotencyConflict"))
    BY <1>2 DEF CreateStore
  <2> HIDE DEF Stored
  <2> QED BY <2>1, <2>2, EndingElsewhere DEF Elsewhere
<1>3. CASE PlanPolicy(t)
  <2>1. [thread[t] EXCEPT !.pc = "plan_clock"].pc \in Elsewhere
    BY <1>1 DEF ThreadState, Elsewhere
  <2> QED BY <1>3, <2>1, EndingElsewhere DEF PlanPolicy
<1>4. CASE PlanClock(t)
  <2>1. [thread[t] EXCEPT !.at = clock, !.pc = "plan_store"].pc \in Elsewhere
    BY <1>1 DEF ThreadState, Elsewhere
  <2> QED BY <1>4, <2>1 DEF PlanClock, ReadClock
<1>5. CASE PlanStore(t)
  BY <1>5, UpdateBecomes, EndingElsewhere DEF PlanStore
<1>6. CASE DecideRequeue(t)
  BY <1>6, EnqueueBecomes, EndingElsewhere DEF DecideRequeue
<1>7. CASE DecideExpire(t)
  BY <1>7, UpdateBecomes, EndingElsewhere DEF DecideExpire
<1>8. CASE DecideEnqueue(t)
  BY <1>8, EnqueueBecomes, EndingElsewhere DEF DecideEnqueue
<1>9. CASE TaskDiscard(t) \/ TaskComplete(t) \/ TaskDone(t)
  BY <1>9, EndingElsewhere DEF TaskDiscard, TaskComplete, TaskDone, Complete
<1>10. CASE RecordAudit(t)
  <2>1. [thread[t] EXCEPT !.pc = "reply", !.event = None].pc \in Elsewhere
    BY <1>1 DEF ThreadState, Elsewhere
  <2> QED BY <1>10, <2>1 DEF RecordAudit
<1>11. CASE Respond(t) \/ Interrupt(t)
  <2>1. IdleThread.pc \in Elsewhere
    BY DEF IdleThread, Elsewhere
  <2> QED BY <1>11, <2>1 DEF Respond, Interrupt
<1> QED BY <1>2, <1>3, <1>4, <1>5, <1>6, <1>7, <1>8, <1>9, <1>10, <1>11

(* A decision that is loaded, and then on its way.                         *)
LEMMA FrameDecide ==
  ASSUME TypeInv, NEW t \in Threads, Frame(thread[t]),
         DecideLoad(t) \/ DecideClock(t) \/ DecideStore(t)
  PROVE  Frame(thread[t])'
<1>1. CASE thread'[t].pc \in Elsewhere
  BY <1>1, FrameElsewhere
<1>2. ASSUME thread'[t].pc \in Deciding, thread'[t].call.op = "decide",
             thread'[t].call.id = thread'[t].snap.id
      PROVE  Frame(thread[t])'
  BY <1>2 DEF Frame, Deciding, HoldsTask, Executing
<1>3. CASE DecideLoad(t)
  <2>1. PICK p \in Principals, w \in WorkflowIds, k \in Keys, d \in Decision :
          LET found == workflows[w]
              self  == [IdleThread EXCEPT !.call = DecideCall(p, w, k, d)]
          IN /\ HasRole(p, {"reviewer", "administrator"})
             /\ \/ /\ found = None
                   /\ Becomes(t, Raise(self, "WorkflowNotFound"))
                \/ /\ found # None /\ IsOwner(p, found)
                   /\ Becomes(t, AuditThen(Raise(self, "PermissionDenied"),
                                           "workflow.approval", "self_approval_denied"))
                \/ /\ found # None /\ ~IsOwner(p, found) /\ found.approval # None
                   /\ Becomes(t, Replay(self, found))
                \/ /\ found # None /\ ~IsOwner(p, found) /\ found.approval = None
                   /\ Becomes(t, IF found.status = "awaiting_approval"
                                      /\ found.proposal # None
                                   THEN [self EXCEPT !.pc = "decide_clock",
                                                     !.snap = found]
                                   ELSE Raise(self, "InvalidWorkflowState"))
    BY <1>3 DEF DecideLoad
  <2> DEFINE found == workflows[w]
             self == [IdleThread EXCEPT !.call = DecideCall(p, w, k, d)]
             loaded(pc) == [self EXCEPT !.pc = pc, !.snap = found]
  <2>2. \/ \E s : s.pc \in Elsewhere /\ Becomes(t, s)
        \/ /\ found # None
           /\ Becomes(t, loaded("decide_requeue")) \/ Becomes(t, loaded("decide_clock"))
    <3>1. \/ Replay(self, found) = Raise(self, "InvalidWorkflowState")
          \/ Replay(self, found) = Raise(self, "IdempotencyConflict")
          \/ Replay(self, found) = Answer(self, found)
          \/ Replay(self, found) = loaded("decide_requeue")
      BY DEF Replay
    <3>2. \/ Becomes(t, Raise(self, "WorkflowNotFound"))
          \/ Becomes(t, Raise(self, "InvalidWorkflowState"))
          \/ Becomes(t, AuditThen(Raise(self, "PermissionDenied"),
                                  "workflow.approval", "self_approval_denied"))
          \/ found # None /\ Becomes(t, Replay(self, found))
          \/ found # None /\ Becomes(t, loaded("decide_clock"))
      BY <2>1
    <3> HIDE DEF self, loaded, found
    <3>3. CASE found # None /\ Becomes(t, Replay(self, found))
      BY <3>1, <3>3, EndingElsewhere
    <3> QED BY <3>2, <3>3, EndingElsewhere
  <2>3. CASE \E s : s.pc \in Elsewhere /\ Becomes(t, s)
    BY <1>1, <2>3, BecomesAt
  <2>4. ASSUME NEW pc \in Deciding, found # None, Becomes(t, loaded(pc))
        PROVE  Frame(thread[t])'
    <3>1. thread'[t] = loaded(pc) /\ found.id = w
      BY <2>4, BecomesAt DEF TypeInv, TypeOK
    <3>2. /\ loaded(pc).pc = pc /\ loaded(pc).snap = found
          /\ loaded(pc).call.op = "decide" /\ loaded(pc).call.id = w
      BY DEF IdleThread, DecideCall, NoCall
    <3> HIDE DEF loaded
    <3> QED BY <1>2, <3>1, <3>2
  <2> QED BY <2>2, <2>3, <2>4 DEF Deciding
<1>4. CASE DecideClock(t)
  <2> DEFINE next == [thread[t] EXCEPT !.at = clock, !.pc = "decide_store"]
  <2>1. thread[t].pc = "decide_clock" /\ thread'[t] = next
    BY <1>4, BecomesAt DEF DecideClock, ReadClock
  <2>2. /\ next.pc = "decide_store" /\ next.snap = thread[t].snap
        /\ next.call = thread[t].call
    BY DEF TypeInv, TypeOK, ThreadState
  <2> HIDE DEF next
  <2> QED BY <1>2, <2>1, <2>2 DEF Frame, Deciding
<1>5. CASE DecideStore(t)
  <2> DEFINE self == thread[t]
             made == CreateApprovalDecision(self.snap.proposal, self.call.by,
                       self.call.decision, self.call.key, self.at)
             new == RecordApproval(self.snap, made)
             next == [self EXCEPT !.pc = "decide_enqueue", !.snap = new]
  <2>1. \/ Becomes(t, next)
        \/ Becomes(t, AuditThen(Answer(self, new), "workflow.approval",
                                self.call.decision))
        \/ Becomes(t, Raise(self, "InvalidWorkflowState"))
    BY <1>5, Zenon DEF DecideStore, Update
  <2>2. /\ self.pc = "decide_store" /\ self.pc \in Deciding
        /\ self.snap \in Workflow /\ self.snap.proposal \in Proposal
        /\ self.call.by \in Principals /\ self.call.key \in Keys
        /\ self.call.decision \in Decision /\ self.at \in Nat
        /\ self \in ThreadState
    BY <1>5 DEF DecideStore, TypeInv, TypeOK, Shape, HoldsSnap, Deciding, ThreadState
  <2>3. new.id = self.snap.id
    BY <2>2, ApprovalType, DecidedFields
  <2> HIDE DEF new
  <2>4. CASE Becomes(t, next)
    <3>1. thread'[t] = next
      BY <2>4, BecomesAt
    <3>2. next.pc = "decide_enqueue" /\ next.snap = new /\ next.call = self.call
      BY <2>2 DEF ThreadState
    <3> HIDE DEF next
    <3> QED BY <1>2, <2>2, <2>3, <3>1, <3>2 DEF Frame, Deciding
  <2>5. CASE ~Becomes(t, next)
    BY <1>1, <2>1, <2>5, BecomesAt, EndingElsewhere
  <2> QED BY <2>4, <2>5
<1> QED BY <1>3, <1>4, <1>5

(* A delivery keeps its call and its task from step to step.               *)
LEMMA FrameCarried ==
  ASSUME TypeInv, QueueInv, [Next]_vars, NEW t \in Threads,
         thread[t].pc \in HoldsTask, NEW s, Becomes(t, s), s.pc \in HoldsTask,
         s.call = thread[t].call, s.task = thread[t].task,
         s.pc = "task_discard" =>
           /\ workflows'[thread[t].task.workflow] # None
           /\ workflows'[thread[t].task.workflow].status = "expired",
         s.pc \in {"task_complete", "task_done"} =>
           /\ workflows'[thread[t].task.workflow] # None
           /\ workflows'[thread[t].task.workflow].status = "completed"
  PROVE  Frame(thread[t])'
<1>1. thread'[t] = s
  BY BecomesAt
<1>2. /\ thread[t].task \in Task /\ thread[t].task.workflow \in WorkflowIds
      /\ thread[t].call.op = "process"
      /\ thread[t].call.id = thread[t].task.workflow
      /\ tasks[thread[t].task.workflow] # None
  BY DEF TypeInv, Shape, QueueInv, Frame, Task
<1>3. tasks'[thread[t].task.workflow] # None
  BY <1>2, QueueGrows
<1>4. s.pc \notin Deciding
  BY DEF Deciding, HoldsTask, Executing
<1> QED BY <1>1, <1>2, <1>3, <1>4 DEF Frame, HasStatus, Exists

LEMMA FrameTask ==
  ASSUME TypeInv, AuthorisationInv, QueueInv, [Next]_vars, NEW t \in Threads,
         \/ ProcessClaim(t) \/ TaskLoad(t) \/ TaskClock(t) \/ TaskExpire(t)
         \/ TaskPolicy(t) \/ TaskBegin(t) \/ TaskExecute(t) \/ TaskStore(t)
  PROVE  Frame(thread[t])'
<1> DEFINE self == thread[t]
           moved(pc) == [self EXCEPT !.pc = pc]
<1>1. self \in ThreadState
  BY DEF TypeInv, TypeOK
<1>2. ASSUME NEW s, s.pc \in Elsewhere, Becomes(t, s) PROVE Frame(thread[t])'
  BY <1>2, BecomesAt, FrameElsewhere
<1>3. CASE ProcessClaim(t)
  <2>1. PICK p \in Principals, w \in WorkflowIds :
          /\ IsNext(w) /\ tasks' = [tasks EXCEPT ![w] = Delivered(@)]
          /\ Becomes(t, [IdleThread EXCEPT !.pc = "task_load",
                           !.call = ProcessCall(p, w), !.task = Delivered(tasks[w])])
    BY <1>3 DEF ProcessClaim
  <2> DEFINE next == [IdleThread EXCEPT !.pc = "task_load",
                        !.call = ProcessCall(p, w), !.task = Delivered(tasks[w])]
  <2>2. /\ next.pc = "task_load" /\ next.task = Delivered(tasks[w])
        /\ next.call.op = "process" /\ next.call.id = w
    BY DEF IdleThread, ProcessCall, NoCall
  <2>3. thread'[t] = next
    BY <2>1, BecomesAt
  <2> HIDE DEF next
  <2>4. tasks[w] # None
    BY <2>1 DEF IsNext, TypeInv, OrderHasTasks
  <2>5. Delivered(tasks[w]).workflow = w
    BY <2>4 DEF Delivered, TypeInv, TypeOK, Task
  <2>6. tasks'[w] # None
    BY <2>4, QueueGrows
  <2> QED BY <2>2, <2>3, <2>5, <2>6 DEF Frame, Deciding, HoldsTask, Executing
<1>4. CASE TaskLoad(t)
  <2> DEFINE found == workflows[self.task.workflow]
             loaded(pc) == [self EXCEPT !.pc = pc, !.snap = found]
  <2>1. self.pc = "task_load" /\ workflows' = workflows /\ self.task \in Task
    BY <1>4 DEF TaskLoad, TypeInv, Shape, HoldsTask
  <2>2. \/ \E error : Becomes(t, Raise(self, error))
        \/ Becomes(t, loaded("task_clock"))
        \/ /\ found # None /\ found.status = "completed"
           /\ Becomes(t, loaded("task_done"))
    <3>1. \/ Becomes(t, Raise(self, "WorkflowNotFound"))
          \/ Becomes(t, Raise(self, "IdempotencyConflict"))
          \/ Becomes(t, Raise(self, "InvalidWorkflowState"))
          \/ Becomes(t, loaded("task_clock"))
          \/ /\ found # None /\ found.status = "completed"
             /\ Becomes(t, loaded("task_done"))
      BY <1>4 DEF TaskLoad
    <3> QED BY <3>1
  <2>3. \A pc : /\ loaded(pc).pc = pc /\ loaded(pc).call = self.call
                /\ loaded(pc).task = self.task
    BY <1>1 DEF ThreadState
  <2>4. \A pc \in {"task_clock", "task_done"} : pc \in HoldsTask /\ pc # "task_discard"
    BY DEF HoldsTask, Executing
  <2>5. self.pc \in HoldsTask
    BY <2>1 DEF HoldsTask
  <2> HIDE DEF loaded
  <2>6. CASE \E error : Becomes(t, Raise(self, error))
    BY <1>2, <2>6, EndingElsewhere
  <2>7. CASE Becomes(t, loaded("task_clock"))
    BY <2>3, <2>4, <2>5, <2>7, FrameCarried
  <2>8. CASE /\ found # None /\ found.status = "completed"
             /\ Becomes(t, loaded("task_done"))
    BY <2>1, <2>3, <2>4, <2>5, <2>8, FrameCarried
  <2> QED BY <2>2, <2>6, <2>7, <2>8
<1>5. CASE TaskClock(t)
  <2> DEFINE read(pc) == [[self EXCEPT !.at = clock] EXCEPT !.pc = pc]
  <2>1. self.pc \in HoldsTask
    BY <1>5 DEF TaskClock, HoldsTask, Executing
  <2>2. \/ Becomes(t, Raise(self, "InvalidWorkflowState"))
        \/ \E pc \in {"task_expire", "task_policy", "task_execute"} :
             Becomes(t, read(pc))
    BY <1>5 DEF TaskClock
  <2>3. \A pc : /\ read(pc).pc = pc /\ read(pc).call = self.call
                /\ read(pc).task = self.task
    BY <1>1 DEF ThreadState
  <2> HIDE DEF read
  <2>4. CASE Becomes(t, Raise(self, "InvalidWorkflowState"))
    BY <1>2, <2>4, EndingElsewhere
  <2>5. ASSUME NEW pc \in {"task_expire", "task_policy", "task_execute"},
               Becomes(t, read(pc))
        PROVE  Frame(thread[t])'
    BY <2>1, <2>3, <2>5, FrameCarried DEF HoldsTask, Executing
  <2> QED BY <2>2, <2>4, <2>5
<1>6. CASE TaskExpire(t)
  <2> DEFINE new == Expire(self.snap)
             next == moved("task_discard")
  <2>1. /\ self.pc = "task_expire" /\ self.pc \in HoldsTask
        /\ self.snap \in Workflow /\ self.snap.id = self.task.workflow
    BY <1>6 DEF TaskExpire, TypeInv, Shape, HoldsSnap, HoldsTask, Executing,
               AuthorisationInv, Knows
  <2>2. \/ Becomes(t, next) /\ workflows' = [workflows EXCEPT ![new.id] = new]
        \/ Becomes(t, Raise(self, "InvalidWorkflowState"))
    BY <1>6, UpdateBecomes DEF TaskExpire
  <2>3. /\ new \in Workflow /\ new.id = self.task.workflow /\ new.status = "expired"
        /\ new.id \in WorkflowIds /\ new # None
    BY <2>1, ExpiredFields, NoneAssumption DEF Workflow
  <2>4. next.pc = "task_discard" /\ next.call = self.call /\ next.task = self.task
    BY <1>1 DEF ThreadState
  <2> HIDE DEF new, next
  <2>5. CASE Becomes(t, next) /\ workflows' = [workflows EXCEPT ![new.id] = new]
    <3>1. workflows'[self.task.workflow] = new
      BY <2>3, <2>5 DEF TypeInv, TypeOK
    <3> QED BY <2>1, <2>3, <2>4, <2>5, <3>1, FrameCarried DEF HoldsTask
  <2> QED BY <1>2, <2>2, <2>5, EndingElsewhere
<1>7. CASE TaskPolicy(t)
  <2> DEFINE next == moved("task_begin")
  <2>1. self.pc \in HoldsTask
    BY <1>7 DEF TaskPolicy, HoldsTask, Executing
  <2>2. Becomes(t, next) \/ Becomes(t, Raise(self, "DataProcessingDenied"))
    BY <1>7 DEF TaskPolicy
  <2>3. next.pc = "task_begin" /\ next.call = self.call /\ next.task = self.task
    BY <1>1 DEF ThreadState
  <2> HIDE DEF next
  <2>4. CASE Becomes(t, next)
    BY <2>1, <2>3, <2>4, FrameCarried DEF HoldsTask, Executing
  <2> QED BY <1>2, <2>2, <2>4, EndingElsewhere
<1>8. CASE TaskBegin(t)
  <2> DEFINE new == BeginExecution(self.snap)
             next == [self EXCEPT !.pc = "task_execute", !.snap = new]
  <2>1. self.pc \in HoldsTask
    BY <1>8 DEF TaskBegin, HoldsTask, Executing
  <2>2. Becomes(t, next) \/ Becomes(t, Raise(self, "InvalidWorkflowState"))
    BY <1>8, UpdateBecomes DEF TaskBegin
  <2>3. next.pc = "task_execute" /\ next.call = self.call /\ next.task = self.task
    BY <1>1 DEF ThreadState
  <2> HIDE DEF next
  <2>4. CASE Becomes(t, next)
    BY <2>1, <2>3, <2>4, FrameCarried DEF HoldsTask, Executing
  <2> QED BY <1>2, <2>2, <2>4, EndingElsewhere
<1>9. CASE TaskExecute(t)
  <2> DEFINE next(x) == [self EXCEPT !.pc = "task_store", !.result = x]
  <2>1. self.pc \in HoldsTask
    BY <1>9 DEF TaskExecute, HoldsTask, Executing
  <2>2. (\E x : Becomes(t, next(x))) \/ Becomes(t, Raise(self, "IdempotencyConflict"))
    BY <1>9 DEF TaskExecute
  <2>3. \A x : /\ next(x).pc = "task_store" /\ next(x).call = self.call
               /\ next(x).task = self.task
    BY <1>1 DEF ThreadState
  <2> HIDE DEF next
  <2>4. ASSUME NEW x, Becomes(t, next(x)) PROVE Frame(thread[t])'
    BY <2>1, <2>3, <2>4, FrameCarried DEF HoldsTask, Executing
  <2> QED BY <1>2, <2>2, <2>4, EndingElsewhere
<1>10. CASE TaskStore(t)
  <2> DEFINE new == CompleteExecution(self.snap, self.result)
             next == [self EXCEPT !.pc = "task_complete", !.snap = new]
  <2>1. /\ self.pc = "task_store" /\ self.pc \in HoldsTask
        /\ self.snap \in Workflow /\ self.snap.id = self.task.workflow
        /\ self.snap.approval \in Approval /\ self.result \in Ticket
    BY <1>10 DEF TaskStore, TypeInv, Shape, HoldsSnap, HoldsTask, Executing,
               AuthorisationInv, Knows
  <2>2. \/ Becomes(t, next) /\ workflows' = [workflows EXCEPT ![new.id] = new]
        \/ Becomes(t, Raise(self, "InvalidWorkflowState"))
    BY <1>10, UpdateBecomes DEF TaskStore
  <2>3. /\ new \in Workflow /\ new.id = self.task.workflow /\ new.status = "completed"
        /\ new.id \in WorkflowIds /\ new # None
    <3>1. new \in Workflow /\ new.id = self.snap.id /\ new.status = "completed"
      BY <2>1, CompletedFields
    <3> HIDE DEF new
    <3> QED BY <2>1, <3>1, NoneAssumption DEF Workflow
  <2>4. next.pc = "task_complete" /\ next.call = self.call /\ next.task = self.task
    BY <1>1 DEF ThreadState
  <2> HIDE DEF new, next
  <2>5. CASE Becomes(t, next) /\ workflows' = [workflows EXCEPT ![new.id] = new]
    <3>1. workflows'[self.task.workflow] = new
      BY <2>3, <2>5 DEF TypeInv, TypeOK
    <3> QED BY <2>1, <2>3, <2>4, <2>5, <3>1, FrameCarried DEF HoldsTask
  <2> QED BY <1>2, <2>2, <2>5, EndingElsewhere
<1> QED BY <1>3, <1>4, <1>5, <1>6, <1>7, <1>8, <1>9, <1>10

LEMMA FramesStep ==
  TypeInv /\ AuthorisationInv /\ QueueInv /\ [Next]_vars
    => \A t \in Threads : Frame(thread[t])'
<1> SUFFICES ASSUME TypeInv, AuthorisationInv, QueueInv, [Next]_vars,
                    NEW u \in Threads
             PROVE  Frame(thread[u])'
  OBVIOUS
<1>1. CASE thread' = thread
  BY <1>1, FrameStays
<1>2. ASSUME NEW t \in Threads, Call(t) \/ Step(t) \/ Interrupt(t)
      PROVE  Frame(thread[u])'
  <2>1. CASE u = t
    <3>1. Frame(thread[t])
      BY DEF QueueInv
    <3> QED BY <1>2, <2>1, <3>1, CallElsewhere, StepElsewhere, FrameElsewhere,
            FrameDecide, FrameTask DEF Call, Step
  <2>2. CASE u # t
    <3>1. thread'[u] = thread[u]
      <4>1. \E s : Becomes(t, s)
        BY <1>2, SomebodyMoves
      <4> QED BY <2>2, <4>1, BecomesAt
    <3> QED BY <3>1, FrameStays
  <2> QED BY <2>1, <2>2
<1> QED BY <1>1, <1>2 DEF Next, Tick, vars

LEMMA QueueAlways == Spec => []QueueInv
<1>1. Init => QueueInv
  BY DEF Init, QueueInv, TasksAreQueued, UsedIsQueued, IsApproved, IsDecided, Exists,
         UnfinishedWorkIsDeliverable, Frame, IdleThread, Deciding, HoldsTask, Executing
<1>2. (TypeInv /\ AuthorisationInv) /\ QueueInv /\ [Next]_vars => QueueInv'
  <2> SUFFICES ASSUME TypeInv, AuthorisationInv, QueueInv, [Next]_vars
               PROVE  QueueInv'
    OBVIOUS
  <2>1. TasksAreQueued' /\ UsedIsQueued' /\ UnfinishedWorkIsDeliverable'
    BY TasksAreQueuedStep, UsedIsQueuedStep, UnfinishedStep DEF QueueInv
  <2>2. (\A t \in Threads : Frame(thread[t]))'
    BY FramesStep
  <2> QED BY <2>1, <2>2 DEF QueueInv
<1> QED BY <1>1, <1>2, AuthAlways, PTL DEF Spec

(* Whatever dies, is delivered twice or races, a task leaves circulation   *)
(* only after the write that ended its workflow.                           *)
THEOREM UnfinishedIsDeliverable == Spec => []UnfinishedWorkIsDeliverable
<1>1. QueueInv => UnfinishedWorkIsDeliverable
  BY DEF QueueInv
<1> QED BY <1>1, QueueAlways, PTL

-----------------------------------------------------------------------------
(* Which write makes a decision, an expiry, a completion.                  *)

LEMMA DecisionIsWritten ==
  ASSUME TypeInv, AuthorisationInv, [Next]_vars, NEW w \in WorkflowIds,
         ~IsDecided(w), IsDecided(w)'
  PROVE  \E t \in Threads : Decides(t) /\ thread[t].snap.id = w
<1>1. workflows'[w] # workflows[w] /\ workflows'[w] # None
      /\ workflows'[w].approval # None
  BY DEF IsDecided, Exists
<1>2. ASSUME NEW t \in Threads, Submits(t) PROVE FALSE
  BY <1>1, <1>2, SubmitterKnows
<1>3. ASSUME NEW t \in Threads, thread[t].pc \in HoldsSnap, NEW new, Writes(t, new)
      PROVE  /\ w = thread[t].snap.id /\ workflows'[w] = new
             /\ thread[t].snap.approval = None
  <2>1. w = thread[t].snap.id /\ workflows'[w] = new
    BY <1>1, <1>3, WriterKnows
  <2>2. workflows[w] = thread[t].snap /\ Exists(w)
    BY <1>3, <2>1, WriterKnows
  <2> QED BY <2>1, <2>2 DEF IsDecided
<1>9. ASSUME NEW t \in Threads, thread[t].pc \in HoldsSnap, NEW new, Writes(t, new),
             new.approval = thread[t].snap.approval
      PROVE  FALSE
  BY <1>1, <1>3, <1>9
<1>4. ASSUME NEW t \in Threads, Proposes(t) PROVE FALSE
  <2> DEFINE old == thread[t].snap
             proposal == CreateToolProposal(old, thread[t].at)
             new == ApplyPlanningResult(old, proposal)
  <2>1. /\ thread[t].pc \in HoldsSnap /\ old \in Workflow /\ proposal \in Proposal
        /\ Writes(t, new)
    BY <1>4, ProposerKnows
  <2>2. new.approval = old.approval
    BY <2>1, PlannedFields
  <2> HIDE DEF new
  <2> QED BY <1>9, <2>1, <2>2
<1>5. ASSUME NEW t \in Threads, Decides(t) PROVE thread[t].snap.id = w
  BY <1>3, <1>5, DeciderKnows
<1>6. ASSUME NEW t \in Threads, Lapses(t) PROVE FALSE
  <2> DEFINE old == thread[t].snap
             new == Expire(old)
  <2>1. thread[t].pc \in HoldsSnap /\ old \in Workflow /\ Writes(t, new)
    BY <1>6, LapserKnows
  <2>2. new.approval = old.approval
    BY <2>1, ExpiredFields
  <2> HIDE DEF new
  <2> QED BY <1>9, <2>1, <2>2
<1>7. ASSUME NEW t \in Threads, Starts(t) PROVE FALSE
  <2> DEFINE old == thread[t].snap
             new == BeginExecution(old)
  <2>1. thread[t].pc \in HoldsSnap /\ old \in Workflow /\ Writes(t, new)
    BY <1>7, StarterKnows
  <2>2. new.approval = old.approval
    BY <2>1, BegunFields
  <2> HIDE DEF new
  <2> QED BY <1>9, <2>1, <2>2
<1>8. ASSUME NEW t \in Threads, Finishes(t) PROVE FALSE
  <2> DEFINE old == thread[t].snap
             new == CompleteExecution(old, thread[t].result)
  <2>1. /\ thread[t].pc \in HoldsSnap /\ old.approval \in Approval
        /\ Writes(t, new)
    BY <1>8, FinisherKnows
  <2> HIDE DEF new
  <2>2. old.approval = None
    BY <1>3, <2>1
  <2> QED BY <2>1, <2>2, NoneAssumption
<1> QED BY <1>1, <1>2, <1>4, <1>5, <1>6, <1>7, <1>8, RepositoryStep

LEMMA EndIsWritten ==
  ASSUME TypeInv, AuthorisationInv, [Next]_vars, NEW w \in WorkflowIds,
         NEW s \in {"expired", "completed"}, ~HasStatus(w, s), HasStatus(w, s)'
  PROVE  \E t \in Threads :
           /\ (s = "expired" /\ Lapses(t)) \/ (s = "completed" /\ Finishes(t))
           /\ thread[t].snap.id = w
<1>1. workflows'[w] # workflows[w] /\ workflows'[w].status = s
  BY DEF HasStatus, Exists
<1>2. ASSUME NEW t \in Threads, Submits(t) PROVE FALSE
  BY <1>1, <1>2, SubmitterKnows
<1>3. ASSUME NEW t \in Threads, thread[t].pc \in HoldsSnap, NEW new, Writes(t, new)
      PROVE  w = thread[t].snap.id /\ new.status = s
  BY <1>1, <1>3, WriterKnows
<1>4. ASSUME NEW t \in Threads, Proposes(t) PROVE FALSE
  <2> DEFINE old == thread[t].snap
             proposal == CreateToolProposal(old, thread[t].at)
             new == ApplyPlanningResult(old, proposal)
  <2>1. /\ thread[t].pc \in HoldsSnap /\ old \in Workflow /\ proposal \in Proposal
        /\ Writes(t, new)
    BY <1>4, ProposerKnows
  <2>2. new.status = "awaiting_approval"
    BY <2>1, PlannedFields
  <2> HIDE DEF new
  <2>3. new.status = s
    BY <1>3, <2>1
  <2> QED BY <2>2, <2>3
<1>5. ASSUME NEW t \in Threads, Decides(t) PROVE FALSE
  <2> DEFINE self == thread[t]
             made == CreateApprovalDecision(self.snap.proposal, self.call.by,
                       self.call.decision, self.call.key, self.at)
             new == RecordApproval(self.snap, made)
  <2>1. /\ self.pc \in HoldsSnap /\ self.snap \in Workflow /\ made \in Approval
        /\ made.decision \in Decision /\ Writes(t, new)
    BY <1>5, DeciderKnows
  <2> HIDE DEF made
  <2>2. new.status = made.decision
    BY <2>1, DecidedFields
  <2> HIDE DEF new
  <2>3. new.status = s
    BY <1>3, <2>1
  <2> QED BY <2>1, <2>2, <2>3 DEF Decision
<1>6. ASSUME NEW t \in Threads, Lapses(t)
      PROVE  s = "expired" /\ thread[t].snap.id = w
  <2> DEFINE old == thread[t].snap
             new == Expire(old)
  <2>1. thread[t].pc \in HoldsSnap /\ old \in Workflow /\ Writes(t, new)
    BY <1>6, LapserKnows
  <2>2. new.status = "expired"
    BY <2>1, ExpiredFields
  <2> HIDE DEF new
  <2>3. w = old.id /\ new.status = s
    BY <1>3, <2>1
  <2> QED BY <2>2, <2>3
<1>7. ASSUME NEW t \in Threads, Starts(t) PROVE FALSE
  <2> DEFINE old == thread[t].snap
             new == BeginExecution(old)
  <2>1. thread[t].pc \in HoldsSnap /\ old \in Workflow /\ Writes(t, new)
    BY <1>7, StarterKnows
  <2>2. new.status = "executing"
    BY <2>1, BegunFields
  <2> HIDE DEF new
  <2>3. new.status = s
    BY <1>3, <2>1
  <2> QED BY <2>2, <2>3
<1>8. ASSUME NEW t \in Threads, Finishes(t)
      PROVE  s = "completed" /\ thread[t].snap.id = w
  <2> DEFINE old == thread[t].snap
             new == CompleteExecution(old, thread[t].result)
  <2>1. /\ thread[t].pc \in HoldsSnap /\ old \in Workflow
        /\ old.approval \in Approval /\ thread[t].result \in Ticket
        /\ Writes(t, new)
    BY <1>8, FinisherKnows
  <2>2. new.status = "completed"
    BY <2>1, CompletedFields
  <2> HIDE DEF new
  <2>3. w = old.id /\ new.status = s
    BY <1>3, <2>1
  <2> QED BY <2>2, <2>3
<1> QED BY <1>1, <1>2, <1>4, <1>5, <1>6, <1>7, <1>8, RepositoryStep

-----------------------------------------------------------------------------
(* The service implements ApprovalLifecycle.                               *)

Stages   == [w \in WorkflowIds |-> StageOf(w)]
Owners   == [w \in WorkflowIds |-> IF Exists(w) THEN workflows[w].owner ELSE None]
Verdicts == [w \in WorkflowIds |-> VerdictOf(w)]
Tickets  == [w \in WorkflowIds |-> \E e \in executions : e.key[1] = w]

Verdict(approval) ==
  IF approval # None
    THEN [decision |-> approval.decision, reviewer |-> approval.reviewer]
    ELSE None

(* The lifecycle's actions over the names above.                           *)
LEMMA LifecycleActions ==
  ASSUME NEW w \in WorkflowIds
  PROVE  /\ (/\ Stages[w] = "absent" /\ Stages' = [Stages EXCEPT ![w] = "received"]
             /\ \E p \in Principals : Owners' = [Owners EXCEPT ![w] = p]
             /\ UNCHANGED <<Verdicts, Tickets>>)
              => Lifecycle!Submit(w)
         /\ (/\ Stages[w] = "received"
             /\ Stages' = [Stages EXCEPT ![w] = "awaiting_approval"]
             /\ UNCHANGED <<Owners, Verdicts, Tickets>>)
              => Lifecycle!Propose(w)
         /\ \A d \in Decision :
              (/\ Stages[w] = "awaiting_approval" /\ Stages' = [Stages EXCEPT ![w] = d]
               /\ \E p \in Reviewers \ {Owners[w]} :
                    Verdicts' = [Verdicts EXCEPT ![w] =
                                   [decision |-> d, reviewer |-> p]]
               /\ UNCHANGED <<Owners, Tickets>>)
                => Lifecycle!Decide(w, d)
         /\ (/\ Stages[w] \in {"awaiting_approval", "approved"}
             /\ Stages' = [Stages EXCEPT ![w] = "expired"]
             /\ UNCHANGED <<Owners, Verdicts, Tickets>>)
              => Lifecycle!Lapse(w)
         /\ (/\ Stages[w] = "approved" /\ Stages' = [Stages EXCEPT ![w] = "executing"]
             /\ UNCHANGED <<Owners, Verdicts, Tickets>>)
              => Lifecycle!Start(w)
         /\ (/\ Stages[w] = "executing" /\ ~Tickets[w]
             /\ Tickets' = [Tickets EXCEPT ![w] = TRUE]
             /\ UNCHANGED <<Stages, Owners, Verdicts>>)
              => Lifecycle!Issue(w)
         /\ (/\ Tickets[w] /\ Stages[w] = "executing"
             /\ Stages' = [Stages EXCEPT ![w] = "completed"]
             /\ UNCHANGED <<Owners, Verdicts, Tickets>>)
              => Lifecycle!Finish(w)
BY DEF Stages, Owners, Verdicts, Tickets, Lifecycle!Submit, Lifecycle!Propose,
       Lifecycle!Decide, Lifecycle!Lapse, Lifecycle!Start, Lifecycle!Issue,
       Lifecycle!Finish, Lifecycle!Moves

(* What a write to the repository is in the lifecycle's terms.             *)
LEMMA WriteMapped ==
  ASSUME TypeInv, AuthorisationInv, NEW t \in Threads, thread[t].pc \in HoldsSnap,
         NEW new \in Workflow, Writes(t, new), new.owner = thread[t].snap.owner
  PROVE  LET old == thread[t].snap
         IN /\ old.id \in WorkflowIds /\ Stages[old.id] = old.status
            /\ Owners[old.id] = old.owner
            /\ Stages' = [Stages EXCEPT ![old.id] = new.status]
            /\ Verdicts' = [Verdicts EXCEPT ![old.id] = Verdict(new.approval)]
            /\ Verdict(new.approval) = Verdict(old.approval) => Verdicts' = Verdicts
            /\ UNCHANGED <<Owners, Tickets>>
<1> DEFINE old == thread[t].snap
           w == old.id
<1>1. /\ w \in WorkflowIds /\ workflows[w] = old /\ old # None /\ new # None
      /\ \A x \in WorkflowIds :
           workflows'[x] = IF x = w THEN new ELSE workflows[x]
  BY WriterKnows, NoneAssumption DEF Exists
<1>2. executions' = executions
  BY DEF Writes
<1> HIDE DEF old
<1>3. Stages[w] = old.status /\ Owners[w] = old.owner
      /\ Verdicts[w] = Verdict(old.approval)
  BY <1>1 DEF Stages, Owners, Verdicts, StageOf, VerdictOf, Verdict, Exists, IsDecided
<1>4. Stages' = [Stages EXCEPT ![w] = new.status]
  BY <1>1 DEF Stages, StageOf, Exists
<1>5. Verdicts' = [Verdicts EXCEPT ![w] = Verdict(new.approval)]
  BY <1>1, ZenonT(40) DEF Verdicts, VerdictOf, Verdict, Exists, IsDecided
<1>6. Verdict(new.approval) = Verdict(old.approval) => Verdicts' = Verdicts
  BY <1>3, <1>5 DEF Verdicts
<1>7. Owners' = Owners /\ Tickets' = Tickets
  BY <1>1, <1>2 DEF Owners, Tickets, Exists, old
<1> QED BY <1>1, <1>3, <1>4, <1>5, <1>6, <1>7 DEF old

LEMMA SubmitIsSubmit ==
  ASSUME TypeInv, AuthorisationInv, NEW t \in Threads, Submits(t),
         NEW w, w = thread[t].call.id
  PROVE  Lifecycle!Submit(w)
<1> DEFINE call == thread[t].call
           new == Receive(call.id, call.by, call.request, call.context)
<1>1. /\ w \in WorkflowIds /\ call.by \in Principals /\ new \in Workflow
      /\ new.owner = call.by /\ new.status = "received" /\ new.approval = None
      /\ \A x \in WorkflowIds :
           workflows'[x] = IF x = w THEN new ELSE workflows[x]
  BY SubmitterKnows
<1>2. workflows[w] = None /\ executions' = executions /\ new # None
  BY <1>1, NoneAssumption DEF Submits
<1> HIDE DEF new
<1>3. /\ Stages[w] = "absent" /\ Stages' = [Stages EXCEPT ![w] = "received"]
      /\ Owners' = [Owners EXCEPT ![w] = call.by]
  BY <1>1, <1>2, ZenonT(40) DEF Stages, Owners, StageOf, Exists
<1>4. Verdicts' = Verdicts /\ Tickets' = Tickets
  BY <1>1, <1>2 DEF Verdicts, Tickets, VerdictOf, IsDecided, Exists
<1>5. \E p \in Principals : Owners' = [Owners EXCEPT ![w] = p]
  BY <1>1, <1>3
<1> QED BY <1>1, <1>3, <1>4, <1>5, LifecycleActions

LEMMA ProposeIsPropose ==
  ASSUME TypeInv, AuthorisationInv, NEW t \in Threads, Proposes(t)
  PROVE  Lifecycle!Propose(thread[t].snap.id)
<1> DEFINE old == thread[t].snap
           proposal == CreateToolProposal(old, thread[t].at)
           new == ApplyPlanningResult(old, proposal)
<1>1. /\ thread[t].pc \in HoldsSnap /\ old \in Workflow /\ proposal \in Proposal
      /\ old.status = "received" /\ Writes(t, new)
  BY ProposerKnows
<1>2. /\ new \in Workflow /\ new.status = "awaiting_approval"
      /\ new.owner = old.owner /\ new.approval = old.approval
  BY <1>1, PlannedFields, ZenonT(40)
<1> HIDE DEF new
<1> QED BY <1>1, <1>2, WriteMapped, LifecycleActions

LEMMA DecideIsDecide ==
  ASSUME TypeInv, AuthorisationInv, NEW t \in Threads, Decides(t)
  PROVE  \E d \in Decision : Lifecycle!Decide(thread[t].snap.id, d)
<1> DEFINE self == thread[t]
           old == self.snap
           made == CreateApprovalDecision(self.snap.proposal, self.call.by,
                     self.call.decision, self.call.key, self.at)
           new == RecordApproval(old, made)
<1>1. /\ self.pc \in HoldsSnap /\ old \in Workflow /\ made \in Approval
      /\ made.decision \in Decision /\ made.reviewer \in Reviewers
      /\ made.reviewer # old.owner /\ old.status = "awaiting_approval"
      /\ Writes(t, new)
  BY DeciderKnows
<1> HIDE DEF made
<1>2. /\ new \in Workflow /\ new.status = made.decision
      /\ new.owner = old.owner /\ new.approval = made
  BY <1>1, DecidedFields
<1>3. Verdict(made) = [decision |-> made.decision, reviewer |-> made.reviewer]
  BY <1>1, NoneAssumption DEF Verdict
<1> HIDE DEF new
<1>4. /\ old.id \in WorkflowIds /\ Stages[old.id] = "awaiting_approval"
      /\ Owners[old.id] = old.owner
      /\ Stages' = [Stages EXCEPT ![old.id] = made.decision]
      /\ Verdicts' = [Verdicts EXCEPT ![old.id] = Verdict(made)]
      /\ UNCHANGED <<Owners, Tickets>>
  BY <1>1, <1>2, WriteMapped
<1> QED BY <1>1, <1>3, <1>4, LifecycleActions

LEMMA LapseIsLapse ==
  ASSUME TypeInv, AuthorisationInv, NEW t \in Threads, Lapses(t)
  PROVE  Lifecycle!Lapse(thread[t].snap.id)
<1> DEFINE old == thread[t].snap
           new == Expire(old)
<1>1. /\ thread[t].pc \in HoldsSnap /\ old \in Workflow /\ Writes(t, new)
      /\ old.status \in {"awaiting_approval", "approved"}
  BY LapserKnows DEF Lapses
<1>2. /\ new \in Workflow /\ new.status = "expired"
      /\ new.owner = old.owner /\ new.approval = old.approval
  BY <1>1, ExpiredFields
<1> HIDE DEF new
<1> QED BY <1>1, <1>2, WriteMapped, LifecycleActions

LEMMA StartIsStart ==
  ASSUME TypeInv, AuthorisationInv, NEW t \in Threads, Starts(t)
  PROVE  Lifecycle!Start(thread[t].snap.id)
<1> DEFINE old == thread[t].snap
           new == BeginExecution(old)
<1>1. /\ thread[t].pc \in HoldsSnap /\ old \in Workflow /\ Writes(t, new)
      /\ old.status = "approved"
  BY StarterKnows
<1>2. /\ new \in Workflow /\ new.status = "executing"
      /\ new.owner = old.owner /\ new.approval = old.approval
  BY <1>1, BegunFields
<1> HIDE DEF new
<1> QED BY <1>1, <1>2, WriteMapped, LifecycleActions

LEMMA FinishIsFinish ==
  ASSUME TypeInv, AuthorisationInv, NEW t \in Threads, Finishes(t)
  PROVE  Lifecycle!Finish(thread[t].snap.id)
<1> DEFINE old == thread[t].snap
           new == CompleteExecution(old, thread[t].result)
<1>1. /\ thread[t].pc \in HoldsSnap /\ old \in Workflow /\ old.approval \in Approval
      /\ old.status = "executing" /\ thread[t].result \in Ticket
      /\ thread[t].result \in executions /\ thread[t].result.key[1] = old.id
      /\ Writes(t, new)
  BY FinisherKnows
<1>2. /\ new \in Workflow /\ new.status = "completed" /\ new.owner = old.owner
      /\ new.approval = [old.approval EXCEPT !.consumed = TRUE]
  BY <1>1, CompletedFields
<1> HIDE DEF new
<1>3. Verdict(new.approval) = Verdict(old.approval)
  <2>1. /\ new.approval # None /\ old.approval # None
        /\ new.approval.decision = old.approval.decision
        /\ new.approval.reviewer = old.approval.reviewer
    BY <1>1, <1>2, NoneAssumption, ZenonT(40) DEF Approval
  <2> QED BY <2>1 DEF Verdict
<1>4. old.id \in WorkflowIds /\ Tickets[old.id]
  BY <1>1 DEF Workflow, Tickets
<1> QED BY <1>1, <1>2, <1>3, <1>4, WriteMapped, LifecycleActions

(* The executor issues a ticket only while its workflow is executing: once *)
(* it is completed, its ticket answers to the key of every delivery.       *)
LEMMA ExecuteIsIssue ==
  ASSUME TypeInv, AuthorisationInv, NEW t \in Threads, TaskExecute(t),
         NEW w, w = thread[t].snap.id
  PROVE  UNCHANGED executions \/ Lifecycle!Issue(w)
<1> DEFINE self == thread[t]
           old == self.snap
           ticket == TicketFor(self.task, old.proposal, self.at)
<1>1. /\ self.pc = "task_execute" /\ self.pc \in HoldsSnap /\ self.pc \in Executing
      /\ self.pc \in HoldsTask
  BY DEF TaskExecute, HoldsSnap, HoldsTask, Executing
<1>2. /\ old \in Workflow /\ w \in WorkflowIds /\ self.task \in Task
      /\ old.proposal \in Proposal /\ old.status = "executing"
      /\ w = self.task.workflow /\ old.proposal.digest = self.task.digest
      /\ Legal(old) /\ Exists(w) /\ Follows(workflows[w], old)
  BY <1>1 DEF TypeInv, Shape, Workflow, AuthorisationInv, Knows, Exists
<1>3. self.task.digest = <<w, workflows[w].request>> /\ workflows[w].id = w
      /\ workflows[w].status \in Started
  BY <1>2, NoneAssumption DEF Legal, Follows, Started
<1>4. CASE UNCHANGED executions
  BY <1>4
<1>5. CASE IssuedFor(self.task) = {} /\ executions' = executions \cup {ticket}
  <2>1. \A e \in executions : e.key[1] # w
    <3> SUFFICES ASSUME NEW e \in executions, e.key[1] = w PROVE FALSE
      OBVIOUS
    <3>1. e.digest = <<w, workflows[w].request>> /\ e.key = <<w, e.digest>>
      BY <1>3 DEF AuthorisationInv, TicketIsBacked
    <3>2. e.key = TicketKey(self.task)
      BY <1>2, <1>3, <3>1 DEF TicketKey
    <3> QED BY <1>5, <3>2 DEF IssuedFor
  <2>2. workflows[w].status = "executing"
    BY <1>2, <1>3, <2>1 DEF AuthorisationInv, StoredIsLegal, Started
  <2>3. ticket.key[1] = w
    BY <1>2 DEF TicketFor, TicketKey
  <2> HIDE DEF ticket
  <2>4. Stages[w] = "executing" /\ ~Tickets[w]
    BY <1>2, <2>1, <2>2 DEF Stages, StageOf, Tickets
  <2>5. Tickets' = [Tickets EXCEPT ![w] = TRUE]
    BY <1>2, <1>5, <2>3 DEF Tickets
  <2>6. UNCHANGED <<Stages, Owners, Verdicts>>
    BY DEF TaskExecute, Stages, Owners, Verdicts, StageOf, VerdictOf, Exists, IsDecided
  <2> QED BY <1>2, <2>4, <2>5, <2>6, LifecycleActions
<1> QED BY <1>4, <1>5 DEF TaskExecute

LEMMA ExecutionsStep ==
  ASSUME [Next]_vars
  PROVE  \/ UNCHANGED executions
         \/ \E t \in Threads : TaskExecute(t) /\ UNCHANGED workflows
<1>1. CASE Tick \/ UNCHANGED vars
  BY <1>1 DEF Tick, vars
<1>2. ASSUME NEW t \in Threads, Call(t) \/ Interrupt(t) PROVE UNCHANGED executions
  BY <1>2 DEF Call, CreateRefused, CreateIntake, ReadLoad, PlanLoad, DecideRefused,
              DecideLoad, ProcessRefused, ProcessNothing, ProcessClaim, Interrupt
<1>3. ASSUME NEW t \in Threads, Step(t), ~TaskExecute(t) PROVE UNCHANGED executions
  BY <1>3, Zenon DEF Step, CreateStore, PlanPolicy, PlanClock, ReadClock, PlanStore,
       DecideRequeue, DecideClock, DecideExpire, DecideStore, DecideEnqueue,
       TaskLoad, TaskClock, TaskExpire, TaskDiscard, Complete, TaskPolicy,
       TaskBegin, TaskStore, TaskComplete, TaskDone, RecordAudit, Respond
<1>4. ASSUME NEW t \in Threads, TaskExecute(t) PROVE UNCHANGED workflows
  BY <1>4 DEF TaskExecute
<1> QED BY <1>1, <1>2, <1>3, <1>4 DEF Next

LEMMA LifecycleStep ==
  TypeInv /\ AuthorisationInv /\ [Next]_vars
    => [Lifecycle!Next]_Lifecycle!lifecycle
<1> SUFFICES ASSUME TypeInv, AuthorisationInv, [Next]_vars
             PROVE  Lifecycle!Next \/ UNCHANGED Lifecycle!lifecycle
  BY DEF Lifecycle!lifecycle
<1>1. ASSUME UNCHANGED <<workflows, executions>>
      PROVE  UNCHANGED Lifecycle!lifecycle
  <2>1. UNCHANGED <<Stages, Owners, Verdicts, Tickets>>
    BY <1>1 DEF Stages, Owners, Verdicts, Tickets, StageOf, VerdictOf, Exists, IsDecided
  <2> QED BY <2>1 DEF Lifecycle!lifecycle, Stages, Owners, Verdicts, Tickets
<1>2. ASSUME NEW t \in Threads,
             \/ Submits(t) \/ Proposes(t) \/ Decides(t)
             \/ Lapses(t) \/ Starts(t) \/ Finishes(t)
      PROVE  Lifecycle!Next
  <2>1. CASE Submits(t)
    <3>1. PICK w \in WorkflowIds : w = thread[t].call.id
      BY <2>1, SubmitterKnows
    <3>2. Lifecycle!Submit(w)
      BY <2>1, <3>1, SubmitIsSubmit
    <3> QED BY <3>2 DEF Lifecycle!Next
  <2>2. ASSUME thread[t].pc \in HoldsSnap PROVE thread[t].snap.id \in WorkflowIds
    BY <2>2 DEF TypeInv, Shape, Workflow
  <2>3. CASE Proposes(t)
    BY <2>2, <2>3, ProposerKnows, ProposeIsPropose DEF Lifecycle!Next
  <2>4. CASE Decides(t)
    BY <2>2, <2>4, DeciderKnows, DecideIsDecide DEF Lifecycle!Next, Decision
  <2>5. CASE Lapses(t)
    BY <2>2, <2>5, LapserKnows, LapseIsLapse DEF Lifecycle!Next
  <2>6. CASE Starts(t)
    BY <2>2, <2>6, StarterKnows, StartIsStart DEF Lifecycle!Next
  <2>7. CASE Finishes(t)
    BY <2>2, <2>7, FinisherKnows, FinishIsFinish DEF Lifecycle!Next
  <2> QED BY <1>2, <2>1, <2>3, <2>4, <2>5, <2>6, <2>7
<1>3. ASSUME NEW t \in Threads, TaskExecute(t), UNCHANGED workflows
      PROVE  Lifecycle!Next \/ UNCHANGED Lifecycle!lifecycle
  <2>1. PICK w \in WorkflowIds : w = thread[t].snap.id
    BY <1>3 DEF TaskExecute, TypeInv, Shape, HoldsSnap, Executing, Workflow
  <2>2. UNCHANGED executions \/ Lifecycle!Issue(w)
    BY <1>3, <2>1, ExecuteIsIssue
  <2>3. Lifecycle!Issue(w) => Lifecycle!Next
    BY DEF Lifecycle!Next
  <2>4. UNCHANGED executions => UNCHANGED Lifecycle!lifecycle
    BY <1>1, <1>3
  <2> QED BY <2>2, <2>3, <2>4
<1> QED BY <1>1, <1>2, <1>3, RepositoryStep, ExecutionsStep

(* Every behaviour of the service, with its threads, snapshots, retries,   *)
(* deaths and redeliveries, is one of ApprovalLifecycle.                   *)
THEOREM ServiceImplementsLifecycle == Spec => ImplementsLifecycle
<1>1. Init => Lifecycle!Init
  BY DEF Init, Lifecycle!Init, StageOf, VerdictOf, Exists, IsDecided
<1>2. (TypeInv /\ AuthorisationInv) /\ [Next]_vars
        => [Lifecycle!Next]_Lifecycle!lifecycle
  BY LifecycleStep
<1> QED BY <1>1, <1>2, AuthAlways, PTL DEF Spec, ImplementsLifecycle, Lifecycle!Spec

-----------------------------------------------------------------------------
(* While no handler dies half way, an outcome reaches the queue and the    *)
(* audit trail: whoever wrote it goes on to the enqueue, the discard or    *)
(* the audit record that follows.                                          *)

LEMMA EventsGrow == ASSUME [Next]_vars PROVE events \subseteq events'
<1>1. CASE Tick \/ UNCHANGED vars
  BY <1>1 DEF Tick, vars
<1>2. ASSUME NEW e, Record(e) PROVE events \subseteq events'
  BY <1>2 DEF Record
<1>3. ASSUME NEW t \in Threads, Call(t) \/ Interrupt(t) PROVE events \subseteq events'
  <2>1. CASE CreateRefused(t) \/ DecideRefused(t) \/ ProcessRefused(t)
    BY <1>2, <2>1 DEF CreateRefused, DecideRefused, ProcessRefused, Refuse
  <2>2. CASE CreateIntake(t)
    BY <1>2, <2>2 DEF CreateIntake
  <2>3. CASE \/ ReadLoad(t) \/ PlanLoad(t) \/ DecideLoad(t) \/ ProcessNothing(t)
             \/ ProcessClaim(t) \/ Interrupt(t)
    BY <2>3 DEF ReadLoad, PlanLoad, DecideLoad, ProcessNothing, ProcessClaim, Interrupt
  <2> QED BY <1>3, <2>1, <2>2, <2>3 DEF Call
<1>4. ASSUME NEW t \in Threads, Step(t) PROVE events \subseteq events'
  <2>1. CASE PlanPolicy(t) \/ TaskPolicy(t) \/ RecordAudit(t)
    BY <1>2, <2>1 DEF PlanPolicy, TaskPolicy, RecordAudit
  <2>2. CASE ~(PlanPolicy(t) \/ TaskPolicy(t) \/ RecordAudit(t))
    BY <1>4, <2>2, Zenon DEF Step, CreateStore, PlanClock, ReadClock, PlanStore,
         DecideRequeue, DecideClock, DecideExpire, DecideStore, DecideEnqueue,
         TaskLoad, TaskClock, TaskExpire, TaskDiscard, Complete, TaskBegin,
         TaskExecute, TaskStore, TaskComplete, TaskDone, Respond
  <2> QED BY <2>1, <2>2
<1> QED BY <1>1, <1>3, <1>4 DEF Next

LEMMA AuditStays ==
  ASSUME [Next]_vars, NEW w, NEW action, NEW outcome, Audited(w, action, outcome)
  PROVE  Audited(w, action, outcome)'
BY EventsGrow DEF Audited

(* The points of the code from which an outcome is still to be recorded.   *)
Recording == {"audit", "decide_enqueue", "task_discard", "task_complete"}

(* A handler at such a point stays there until it takes the step of that   *)
(* point.                                                                  *)
LEMMA RecordingStep ==
  ASSUME TypeInv, [Next]_vars, Interruptible = {}, NEW t \in Threads,
         thread[t].pc \in Recording
  PROVE  \/ thread'[t] = thread[t]
         \/ thread[t].pc = "audit" /\ RecordAudit(t)
         \/ thread[t].pc = "decide_enqueue" /\ DecideEnqueue(t)
         \/ thread[t].pc = "task_discard" /\ TaskDiscard(t)
         \/ thread[t].pc = "task_complete" /\ TaskComplete(t)
<1>1. CASE Tick \/ UNCHANGED vars
  BY <1>1 DEF Tick, vars
<1>2. ASSUME NEW u \in Threads, u # t, Call(u) \/ Step(u) \/ Interrupt(u)
      PROVE  thread'[t] = thread[t]
  BY <1>2, SomebodyMoves, BecomesAt
<1>3. ~Interrupt(t)
  BY DEF Interrupt
<1>4. ~Call(t)
  BY DEF Recording, Call, Begins, CreateRefused, CreateIntake, ReadLoad, PlanLoad,
         DecideRefused, DecideLoad, ProcessRefused, ProcessNothing, ProcessClaim
<1>5. ASSUME Step(t)
      PROVE  \/ thread[t].pc = "audit" /\ RecordAudit(t)
             \/ thread[t].pc = "decide_enqueue" /\ DecideEnqueue(t)
             \/ thread[t].pc = "task_discard" /\ TaskDiscard(t)
             \/ thread[t].pc = "task_complete" /\ TaskComplete(t)
  <2>1. /\ RecordAudit(t) => thread[t].pc = "audit"
        /\ DecideEnqueue(t) => thread[t].pc = "decide_enqueue"
        /\ TaskDiscard(t) => thread[t].pc = "task_discard"
        /\ TaskComplete(t) => thread[t].pc = "task_complete"
    BY DEF RecordAudit, DecideEnqueue, TaskDiscard, TaskComplete
  <2>2. /\ ~CreateStore(t) /\ ~PlanPolicy(t) /\ ~PlanClock(t) /\ ~PlanStore(t)
        /\ ~DecideRequeue(t) /\ ~DecideClock(t) /\ ~DecideExpire(t)
        /\ ~DecideStore(t) /\ ~TaskLoad(t) /\ ~TaskClock(t) /\ ~TaskExpire(t)
        /\ ~TaskPolicy(t) /\ ~TaskBegin(t) /\ ~TaskExecute(t) /\ ~TaskStore(t)
        /\ ~TaskDone(t) /\ ~Respond(t)
    BY Zenon DEF Recording, CreateStore, PlanPolicy, PlanClock, ReadClock, PlanStore,
           DecideRequeue, DecideClock, DecideExpire, DecideStore, TaskLoad,
           TaskClock, TaskExpire, TaskPolicy, TaskBegin, TaskExecute, TaskStore,
           TaskDone, Respond
  <2> QED BY <1>5, <2>1, <2>2 DEF Step
<1> QED BY <1>1, <1>2, <1>3, <1>4, <1>5 DEF Next

(* An approval on its way to the queue arrives there: the task already     *)
(* queued for its workflow, if there is one, carries the same digest.      *)
LEMMA EnqueueArrives ==
  ASSUME TypeInv, AuthorisationInv, QueueInv, [Next]_vars, NEW t \in Threads,
         DecideEnqueue(t), NEW w, w = thread[t].call.id
  PROVE  /\ w \in WorkflowIds /\ w = thread[t].snap.id
         /\ Queued(w)'
         /\ thread'[t] = AuditThen(Answer(thread[t], thread[t].snap),
                                   "workflow.approval", "approved")
<1> DEFINE self == thread[t]
           snap == self.snap
           task == CreateExecutionTask(snap)
           next == AuditThen(Answer(self, snap), "workflow.approval", "approved")
<1>1. /\ self.pc = "decide_enqueue" /\ self.pc \in Deciding /\ self.pc \in HoldsSnap
      /\ Enqueue(t, task, next)
  BY DEF DecideEnqueue, HoldsSnap, Deciding
<1>2. /\ snap \in Workflow /\ snap.proposal \in Proposal
      /\ w \in WorkflowIds /\ w = snap.id
      /\ Legal(snap) /\ Exists(w) /\ Follows(workflows[w], snap)
  BY <1>1 DEF TypeInv, Shape, Workflow, QueueInv, Frame, AuthorisationInv, Knows, Exists
<1>3. task.workflow = w /\ task.digest = <<w, workflows[w].request>>
  BY <1>2, NoneAssumption DEF CreateExecutionTask, Legal, Follows
<1> HIDE DEF task, next
<1>4. CASE tasks[w] = None
  <2>1. /\ order \in Seq(WorkflowIds) /\ order' = Append(order, w) /\ Becomes(t, next)
    BY <1>1, <1>3, <1>4 DEF Enqueue, TypeInv, TypeOK
  <2>2. Len(order) + 1 \in DOMAIN order' /\ order'[Len(order) + 1] = w
    BY <1>2, <2>1
  <2>3. Queued(w)' /\ thread'[t] = next
    BY <2>1, <2>2, BecomesAt DEF Queued
  <2> QED BY <1>2, <2>3 DEF next
<1>5. CASE tasks[w] # None
  <2>1. Queued(w) /\ tasks[w].digest = <<w, workflows[w].request>>
    BY <1>2, <1>5 DEF QueueInv, TasksAreQueued
  <2>2. Becomes(t, next)
    BY <1>1, <1>3, <1>5, <2>1 DEF Enqueue
  <2>3. Queued(w)' /\ thread'[t] = next
    BY <1>2, <2>1, <2>2, QueueGrows, BecomesAt
  <2> QED BY <1>2, <2>3 DEF next
<1> QED BY <1>4, <1>5

(* The audit record a handler ends with.                                   *)
LEMMA EndingFields ==
  /\ \A self, x, action, outcome :
       LET s == AuditThen(Answer(self, x), action, outcome)
       IN /\ s.pc = "audit" /\ s.call = self.call
          /\ s.event.action = action /\ s.event.outcome = outcome
          /\ s.event.resource = self.call.id
  /\ \A self, error, action, outcome :
       LET s == AuditThen(Raise(self, error), action, outcome)
       IN /\ s.pc = "audit" /\ s.call = self.call
          /\ s.event.action = action /\ s.event.outcome = outcome
          /\ s.event.resource = self.call.id
BY DEF AuditThen, Answer, Raise, Event, IdleThread

(* Once an outcome is settled, it stays settled.                           *)
LEMMA SettledStays ==
  ASSUME TypeInv, AuthorisationInv, QueueInv, [Next]_vars, Interruptible = {},
         NEW w, NEW action, NEW outcome \in AuditView, Settled(w, action, outcome)
  PROVE  Settled(w, action, outcome)'
<1>1. CASE Audited(w, action, outcome)
  BY <1>1, AuditStays DEF Settled
<1>2. ASSUME NEW t \in Threads, Owes(t, w, action, outcome)
      PROVE  Settled(w, action, outcome)'
  <2> DEFINE self == thread[t]
  <2>1. self.pc \in Recording /\ self.call.id = w
    BY <1>2 DEF Owes, Recording
  <2>2. CASE thread'[t] = self
    BY <1>2, <2>2 DEF Settled, Owes
  <2>3. CASE self.pc = "audit" /\ RecordAudit(t)
    <3>1. /\ self.event.action = action /\ self.event.outcome = outcome
          /\ self.event.resource = w
      BY <1>2, <2>3 DEF Owes
    <3>2. self.event \in events'
      BY <2>3, <3>1 DEF RecordAudit, Record
    <3> QED BY <3>1, <3>2 DEF Settled, Audited
  <2>4. ASSUME NEW s, thread'[t] = s, s.pc = "audit", s.call = self.call,
               s.event.action = action, s.event.outcome = outcome,
               s.event.resource = self.call.id
        PROVE  Settled(w, action, outcome)'
    BY <1>2, <2>1, <2>4 DEF Settled, Owes
  <2>5. CASE self.pc = "decide_enqueue" /\ DecideEnqueue(t)
    <3>1. action = "workflow.approval" /\ outcome = "approved"
      BY <1>2, <2>5 DEF Owes
    <3>2. thread'[t] = AuditThen(Answer(self, self.snap),
                                 "workflow.approval", "approved")
      BY <2>5, EnqueueArrives
    <3> QED BY <2>4, <3>1, <3>2, EndingFields
  <2>6. CASE self.pc = "task_discard" /\ TaskDiscard(t)
    <3>1. action = "task.process" /\ outcome = "approval_expired"
      BY <1>2, <2>6 DEF Owes
    <3>2. thread'[t] = AuditThen(Raise(self, "ApprovalExpired"),
                                 "task.process", "approval_expired")
      BY <2>6, BecomesAt DEF TaskDiscard, Complete
    <3> QED BY <2>4, <3>1, <3>2, EndingFields
  <2>7. CASE self.pc = "task_complete" /\ TaskComplete(t)
    <3>1. action = "task.process" /\ outcome = "completed"
      BY <1>2, <2>7 DEF Owes
    <3>2. thread'[t] = AuditThen(Answer(self, self.snap), "task.process", "completed")
      BY <2>7, BecomesAt DEF TaskComplete, Complete
    <3> QED BY <2>4, <3>1, <3>2, EndingFields
  <2> QED BY <2>1, <2>2, <2>3, <2>5, <2>6, <2>7, RecordingStep
<1> QED BY <1>1, <1>2 DEF Settled

(* What a handler goes on to once it has written.                          *)
LEMMA WrittenThenNext ==
  ASSUME TypeInv, AuthorisationInv, NEW t \in Threads, thread[t].pc \in HoldsSnap,
         NEW x, Writes(t, x), NEW new, NEW next, Update(t, new, next)
  PROVE  thread'[t] = next
<1>1. IsCurrent(thread[t].snap)
  BY WriterKnows DEF IsCurrent, Exists
<1> QED BY <1>1, BecomesAt DEF Update

LEMMA DecisionGoesOn ==
  ASSUME TypeInv, AuthorisationInv, QueueInv, [Next]_vars, NEW t \in Threads,
         Decides(t), NEW w, w = thread[t].snap.id
  PROVE  LET d == workflows'[w].approval.decision
         IN /\ d \in Decision /\ thread'[t].call.op = "decide"
            /\ thread'[t].call.id = w
            /\ d = "approved" => thread'[t].pc = "decide_enqueue"
            /\ d = "rejected" =>
                 /\ thread'[t].pc = "audit"
                 /\ thread'[t].event.action = "workflow.approval"
                 /\ thread'[t].event.outcome = d
                 /\ thread'[t].event.resource = w
<1> DEFINE self == thread[t]
           made == CreateApprovalDecision(self.snap.proposal, self.call.by,
                     self.call.decision, self.call.key, self.at)
           new == RecordApproval(self.snap, made)
           enqueue == [self EXCEPT !.pc = "decide_enqueue", !.snap = new]
           end == AuditThen(Answer(self, new), "workflow.approval", self.call.decision)
<1>1. /\ self.pc \in HoldsSnap /\ self.snap \in Workflow /\ made \in Approval
      /\ made.decision \in Decision /\ made.decision = self.call.decision
      /\ Writes(t, new)
  BY DeciderKnows
<1>2. self.pc = "decide_store" /\ self.pc \in Deciding /\ self \in ThreadState
      /\ self.call.op = "decide" /\ self.call.id = w
  BY DEF Decides, Deciding, TypeInv, TypeOK, QueueInv, Frame
<1>3. Update(t, new, IF NeedsTask(self.call.decision) THEN enqueue ELSE end)
  BY DEF Decides, DecideStore
<1> HIDE DEF made
<1>4. new.approval = made
  BY <1>1, DecidedFields
<1>5. /\ enqueue.pc = "decide_enqueue" /\ enqueue.call = self.call
      /\ end.pc = "audit" /\ end.call = self.call
      /\ end.event.action = "workflow.approval"
      /\ end.event.outcome = self.call.decision
      /\ end.event.resource = self.call.id
  BY <1>2, EndingFields DEF ThreadState
<1> HIDE DEF new, enqueue, end
<1>6. workflows'[w] = new
  BY <1>1, WriterKnows
<1>7. thread'[t] = IF NeedsTask(self.call.decision) THEN enqueue ELSE end
  BY <1>1, <1>3, WrittenThenNext
<1>8. CASE self.call.decision = "approved"
  BY <1>1, <1>2, <1>4, <1>5, <1>6, <1>7, <1>8 DEF NeedsTask
<1>9. CASE self.call.decision = "rejected"
  BY <1>1, <1>2, <1>4, <1>5, <1>6, <1>7, <1>9 DEF NeedsTask
<1> QED BY <1>1, <1>8, <1>9 DEF Decision

LEMMA ExpiryGoesOn ==
  ASSUME TypeInv, AuthorisationInv, QueueInv, [Next]_vars, NEW t \in Threads,
         Lapses(t), NEW w, w = thread[t].snap.id
  PROVE  /\ thread'[t].call.id = w
         /\ \/ /\ thread[t].pc = "decide_store" /\ thread'[t].call.op = "decide"
               /\ thread'[t].pc = "audit"
               /\ thread'[t].event.action = "workflow.approval"
               /\ thread'[t].event.outcome = "expired"
               /\ thread'[t].event.resource = w
            \/ /\ thread[t].pc = "task_expire" /\ thread'[t].call.op = "process"
               /\ thread'[t].pc = "task_discard"
<1> DEFINE self == thread[t]
           end == AuditThen(Raise(self, "ApprovalExpired"),
                            "workflow.approval", "expired")
           discard == [self EXCEPT !.pc = "task_discard"]
<1>1. /\ self.pc \in HoldsSnap /\ Writes(t, Expire(self.snap)) /\ self \in ThreadState
  BY LapserKnows DEF TypeInv, TypeOK
<1>2. /\ end.pc = "audit" /\ end.call = self.call
      /\ end.event.action = "workflow.approval" /\ end.event.outcome = "expired"
      /\ end.event.resource = self.call.id
  BY EndingFields
<1>3. discard.pc = "task_discard" /\ discard.call = self.call
  BY <1>1 DEF ThreadState
<1>4. CASE DecideExpire(t)
  <2>1. /\ self.pc = "decide_store" /\ self.pc \in Deciding
        /\ Update(t, Expire(self.snap), end)
    BY <1>4 DEF DecideExpire, Deciding
  <2>2. self.call.op = "decide" /\ self.call.id = w
    BY <2>1 DEF QueueInv, Frame
  <2> HIDE DEF end
  <2>3. thread'[t] = end
    BY <1>1, <2>1, WrittenThenNext
  <2> QED BY <1>2, <2>1, <2>2, <2>3
<1>5. CASE TaskExpire(t)
  <2>1. /\ self.pc = "task_expire" /\ self.pc \in HoldsTask /\ self.pc \in Executing
        /\ Update(t, Expire(self.snap), discard)
    BY <1>5 DEF TaskExpire, HoldsTask, Executing
  <2>2. self.call.op = "process" /\ self.call.id = w
    BY <1>1, <2>1 DEF QueueInv, Frame, AuthorisationInv, Knows
  <2> HIDE DEF discard
  <2>3. thread'[t] = discard
    BY <1>1, <2>1, WrittenThenNext
  <2> QED BY <1>3, <2>1, <2>2, <2>3
<1> QED BY <1>4, <1>5 DEF Lapses

LEMMA CompletionGoesOn ==
  ASSUME TypeInv, AuthorisationInv, QueueInv, [Next]_vars, NEW t \in Threads,
         Finishes(t), NEW w, w = thread[t].snap.id
  PROVE  /\ thread'[t].call.id = w /\ thread'[t].call.op = "process"
         /\ thread'[t].pc = "task_complete"
<1> DEFINE self == thread[t]
           new == CompleteExecution(self.snap, self.result)
           next == [self EXCEPT !.pc = "task_complete", !.snap = new]
<1>1. self.pc \in HoldsSnap /\ Writes(t, new) /\ self \in ThreadState
  BY FinisherKnows DEF TypeInv, TypeOK
<1>2. next.pc = "task_complete" /\ next.call = self.call
  BY <1>1 DEF ThreadState
<1>3. /\ self.pc = "task_store" /\ self.pc \in HoldsTask /\ self.pc \in Executing
      /\ Update(t, new, next)
  BY DEF Finishes, TaskStore, HoldsTask, Executing
<1>4. self.call.op = "process" /\ self.call.id = w
  BY <1>1, <1>3 DEF QueueInv, Frame, AuthorisationInv, Knows
<1> HIDE DEF next, new
<1>5. thread'[t] = next
  BY <1>1, <1>3, WrittenThenNext
<1> QED BY <1>2, <1>4, <1>5

(* The decision on a workflow, once made.                                  *)
LEMMA DecisionKept ==
  ASSUME TypeInv, AuthorisationInv, [Next]_vars, NEW w \in WorkflowIds, IsDecided(w)
  PROVE  /\ IsDecided(w)' /\ workflows[w].approval.decision \in Decision
         /\ workflows'[w].approval.decision = workflows[w].approval.decision
<1>1. /\ workflows[w] # None /\ workflows[w].approval \in Approval
  BY DEF IsDecided, Exists, TypeInv, TypeOK, Workflow
<1>2. /\ workflows'[w] # None
      /\ workflows'[w].approval \in
           {workflows[w].approval, [workflows[w].approval EXCEPT !.consumed = TRUE]}
  BY <1>1, AuthNext, NoneAssumption DEF Grows, Extends, Follows
<1>3. ASSUME NEW a \in Approval,
             NEW b \in {a, [a EXCEPT !.consumed = TRUE]}
      PROVE  b # None /\ b.decision = a.decision /\ a.decision \in Decision
  <2>1. b \in Approval /\ b.decision = a.decision /\ a.decision \in Decision
    BY DEF Approval
  <2> QED BY <2>1, NoneAssumption
<1>4. /\ workflows'[w].approval # None
      /\ workflows'[w].approval.decision = workflows[w].approval.decision
      /\ workflows[w].approval.decision \in Decision
  BY <1>1, <1>2, <1>3
<1>5. IsDecided(w)'
  BY <1>2, <1>4 DEF IsDecided, Exists
<1> QED BY <1>4, <1>5

-----------------------------------------------------------------------------
(* The three invariants.                                                   *)

LEMMA ApprovedStep ==
  ASSUME TypeInv, AuthorisationInv, QueueInv, ApprovedIsQueued, [Next]_vars,
         Interruptible = {}
  PROVE  ApprovedIsQueued'
<1> SUFFICES ASSUME NEW w \in WorkflowIds, IsApproved(w)'
             PROVE  Queued(w)' \/ Busy(w, "decide", {"decide_enqueue"})'
  BY DEF ApprovedIsQueued
<1>1. CASE IsApproved(w)
  <2>1. CASE Queued(w)
    BY <2>1, QueueGrows
  <2>2. ASSUME NEW t \in Threads, thread[t].pc = "decide_enqueue",
               thread[t].call.op = "decide", thread[t].call.id = w
        PROVE  Queued(w)' \/ Busy(w, "decide", {"decide_enqueue"})'
    <3>1. CASE thread'[t] = thread[t]
      BY <2>2, <3>1 DEF Busy
    <3>2. CASE DecideEnqueue(t)
      BY <2>2, <3>2, EnqueueArrives
    <3> QED BY <2>2, <3>1, <3>2, RecordingStep DEF Recording
  <2> QED BY <1>1, <2>1, <2>2 DEF ApprovedIsQueued, Busy
<1>2. CASE ~IsDecided(w)
  <2>1. PICK t \in Threads : Decides(t) /\ w = thread[t].snap.id
    BY <1>2, DecisionIsWritten DEF IsApproved
  <2>2. /\ thread'[t].call.op = "decide" /\ thread'[t].call.id = w
        /\ thread'[t].pc = "decide_enqueue"
    BY <2>1, DecisionGoesOn DEF IsApproved
  <2> QED BY <2>2 DEF Busy
<1>3. CASE IsDecided(w) /\ ~IsApproved(w)
  <2>1. workflows'[w].approval.decision = workflows[w].approval.decision
    BY <1>3, DecisionKept
  <2> QED BY <1>3, <2>1 DEF IsApproved
<1> QED BY <1>1, <1>2, <1>3

(* An expired workflow whose task was queued: only its handler can have    *)
(* expired it, for work that is not approved is never queued.              *)
LEMMA ExpiredStep ==
  ASSUME TypeInv, AuthorisationInv, QueueInv, ExpiredTaskIsDiscarded, [Next]_vars,
         QueuedIsApproved', Interruptible = {}
  PROVE  ExpiredTaskIsDiscarded'
<1> SUFFICES ASSUME NEW w \in WorkflowIds, HasStatus(w, "expired")', Queued(w)'
             PROVE  w \in completed' \/ Busy(w, "process", {"task_discard"})'
  BY DEF ExpiredTaskIsDiscarded
<1>1. CASE HasStatus(w, "expired") /\ Queued(w)
  <2>1. CASE w \in completed
    BY <2>1, QueueGrows
  <2>2. ASSUME NEW t \in Threads, thread[t].pc = "task_discard",
               thread[t].call.op = "process", thread[t].call.id = w
        PROVE  w \in completed' \/ Busy(w, "process", {"task_discard"})'
    <3>1. CASE thread'[t] = thread[t]
      BY <2>2, <3>1 DEF Busy
    <3>2. CASE TaskDiscard(t)
      <4>1. thread[t].task.workflow = w
        BY <2>2 DEF QueueInv, Frame, HoldsTask
      <4> QED BY <3>2, <4>1 DEF TaskDiscard, Complete
    <3> QED BY <2>2, <3>1, <3>2, RecordingStep DEF Recording
  <2> QED BY <1>1, <2>1, <2>2 DEF ExpiredTaskIsDiscarded, Busy
<1>2. CASE HasStatus(w, "expired") /\ ~Queued(w)
  <2>1. order' # order
    BY <1>2 DEF Queued
  <2>2. PICK t \in Threads : FirstEnqueue(t)
    BY <2>1, QueueStep DEF Acknowledgement, Delivery, queue
  <2>3. /\ thread[t].pc \in {"decide_requeue", "decide_enqueue"}
        /\ thread[t].pc \in HoldsSnap /\ thread[t].snap.id \in WorkflowIds
        /\ thread[t].snap \in Workflow
    BY <2>2 DEF FirstEnqueue, TypeInv, Shape, HoldsSnap, Deciding, Workflow
  <2>4. w = thread[t].snap.id
    <3>1. order \in Seq(WorkflowIds) /\ order' = Append(order, thread[t].snap.id)
      BY <2>2 DEF FirstEnqueue, TypeInv, TypeOK
    <3>2. PICK i \in DOMAIN order' : order'[i] = w
      BY DEF Queued
    <3>3. i \in DOMAIN order \/ i = Len(order) + 1
      BY <2>3, <3>1
    <3>4. i \notin DOMAIN order
      <4>1. i \in DOMAIN order => order[i] = order'[i]
        BY <2>3, <3>1
      <4> QED BY <1>2, <3>2, <4>1 DEF Queued
    <3> QED BY <2>3, <3>1, <3>2, <3>3, <3>4
  <2>5. /\ thread[t].snap.approval # None
        /\ thread[t].snap.approval.decision = "approved"
        /\ workflows[w] # None /\ Follows(workflows[w], thread[t].snap)
    BY <2>3, <2>4 DEF AuthorisationInv, Knows
  <2>6. IsApproved(w)
    <3>1. thread[t].snap.approval \in Approval
      BY <2>3, <2>5 DEF Workflow
    <3>2. workflows[w].approval \in {thread[t].snap.approval,
                            [thread[t].snap.approval EXCEPT !.consumed = TRUE]}
      BY <2>5 DEF Follows
    <3>3. workflows[w].approval \in Approval
            /\ workflows[w].approval.decision = "approved"
      BY <2>5, <3>1, <3>2 DEF Approval
    <3> QED BY <2>5, <3>3, NoneAssumption DEF IsApproved, IsDecided, Exists
  <2>7. tasks[w] # None
    BY <1>2, <2>6 DEF QueueInv, UsedIsQueued, HasStatus
  <2> QED BY <2>2, <2>4, <2>7 DEF FirstEnqueue
<1>3. CASE ~HasStatus(w, "expired")
  <2>1. PICK t \in Threads : Lapses(t) /\ w = thread[t].snap.id
    BY <1>3, EndIsWritten
  <2>2. CASE thread[t].pc = "decide_store"
    <3> DEFINE old == thread[t].snap
               new == Expire(old)
    <3>1. /\ thread[t].pc \in HoldsSnap /\ old \in Workflow /\ Writes(t, new)
          /\ old.status = "awaiting_approval"
      BY <2>1, <2>2, LapserKnows
    <3>2. old.approval = None
      BY <3>1 DEF AuthorisationInv, Knows, Legal
    <3>3. new.approval = None
      BY <3>1, <3>2, ExpiredFields
    <3> HIDE DEF new
    <3>4. workflows'[w] = new
      BY <2>1, <3>1, WriterKnows
    <3> QED BY <3>3, <3>4 DEF QueuedIsApproved, IsApproved, IsDecided
  <2>3. CASE thread[t].pc # "decide_store"
    BY <2>1, <2>3, ExpiryGoesOn DEF Busy
  <2> QED BY <2>2, <2>3
<1> QED BY <1>1, <1>2, <1>3

Outcomes == {"approved", "rejected", "expired", "approval_expired", "completed"}

LEMMA OutcomesStep ==
  ASSUME TypeInv, AuthorisationInv, QueueInv, OutcomesAreSettled, [Next]_vars,
         Interruptible = {}, Outcomes \subseteq AuditView
  PROVE  OutcomesAreSettled'
<1>1. ASSUME NEW w \in WorkflowIds, IsDecided(w)'
      PROVE  Settled(w, "workflow.approval", workflows[w].approval.decision)'
  <2>1. CASE IsDecided(w)
    <3>1. PICK d \in Decision : d = workflows[w].approval.decision
      BY <2>1, DecisionKept
    <3>2. workflows'[w].approval.decision = d /\ d \in AuditView
      BY <2>1, <3>1, DecisionKept DEF Decision, Outcomes
    <3>3. Settled(w, "workflow.approval", d)
      BY <2>1, <3>1 DEF OutcomesAreSettled
    <3>4. Settled(w, "workflow.approval", d)'
      BY <3>2, <3>3, SettledStays
    <3> QED BY <3>2, <3>4
  <2>2. CASE ~IsDecided(w)
    <3>1. PICK t \in Threads : Decides(t) /\ w = thread[t].snap.id
      BY <1>1, <2>2, DecisionIsWritten
    <3>2. PICK d \in Decision : d = workflows'[w].approval.decision
      BY <3>1, DecisionGoesOn
    <3>3. Owes(t, w, "workflow.approval", d)'
      BY <3>1, <3>2, DecisionGoesOn DEF Owes, Decision
    <3>4. Settled(w, "workflow.approval", d)'
      BY <3>3 DEF Settled
    <3> QED BY <3>2, <3>4
  <2> QED BY <2>1, <2>2
<1>2. ASSUME NEW w \in WorkflowIds, HasStatus(w, "expired")'
      PROVE  \/ Settled(w, "workflow.approval", "expired")'
             \/ Settled(w, "task.process", "approval_expired")'
  <2>1. CASE HasStatus(w, "expired")
    BY <2>1, SettledStays DEF OutcomesAreSettled, Outcomes
  <2>2. CASE ~HasStatus(w, "expired")
    <3>1. PICK t \in Threads : Lapses(t) /\ w = thread[t].snap.id
      BY <1>2, <2>2, EndIsWritten
    <3>2. \/ Owes(t, w, "workflow.approval", "expired")'
          \/ Owes(t, w, "task.process", "approval_expired")'
      BY <3>1, ExpiryGoesOn DEF Owes
    <3> QED BY <3>2 DEF Settled
  <2> QED BY <2>1, <2>2
<1>3. ASSUME NEW w \in WorkflowIds, HasStatus(w, "completed")'
      PROVE  Settled(w, "task.process", "completed")'
  <2>1. CASE HasStatus(w, "completed")
    BY <2>1, SettledStays DEF OutcomesAreSettled, Outcomes
  <2>2. CASE ~HasStatus(w, "completed")
    <3>1. PICK t \in Threads : Finishes(t) /\ w = thread[t].snap.id
      BY <1>3, <2>2, EndIsWritten
    <3>2. Owes(t, w, "task.process", "completed")'
      BY <3>1, CompletionGoesOn DEF Owes
    <3> QED BY <3>2 DEF Settled
  <2> QED BY <2>1, <2>2
<1> QED BY <1>1, <1>2, <1>3 DEF OutcomesAreSettled

(* An approval reaches the queue: between the write of a decision and the  *)
(* enqueue only its own handler stands, however other handlers interleave. *)
THEOREM ApprovedReachesQueue ==
  ASSUME Interruptible = {}
  PROVE  Spec => []ApprovedIsQueued
<1>1. Init => ApprovedIsQueued
  BY DEF Init, ApprovedIsQueued, IsApproved, IsDecided, Exists
<1>2. (TypeInv /\ AuthorisationInv) /\ QueueInv /\ ApprovedIsQueued /\ [Next]_vars
        => ApprovedIsQueued'
  BY ApprovedStep
<1> QED BY <1>1, <1>2, AuthAlways, QueueAlways, PTL DEF Spec

(* An expired approval leaves the queue with the handler that expired it.  *)
THEOREM ExpiredLeavesQueue ==
  ASSUME Interruptible = {}
  PROVE  Spec => []ExpiredTaskIsDiscarded
<1>1. Init => ExpiredTaskIsDiscarded
  BY DEF Init, ExpiredTaskIsDiscarded, HasStatus, Exists
<1>2. (TypeInv /\ AuthorisationInv) /\ (TypeInv /\ AuthorisationInv)' /\ QueueInv
        /\ ExpiredTaskIsDiscarded /\ [Next]_vars
        => ExpiredTaskIsDiscarded'
  BY ExpiredStep DEF AuthorisationInv
<1> QED BY <1>1, <1>2, AuthAlways, QueueAlways, PTL DEF Spec

(* Every decision, expiry and completion is audited, or its handler is on  *)
(* the way to its audit record.                                            *)
THEOREM OutcomeReachesAudit ==
  ASSUME Interruptible = {}, Outcomes \subseteq AuditView
  PROVE  Spec => []OutcomeIsAudited
<1>1. Init => OutcomesAreSettled
  BY DEF Init, OutcomesAreSettled, IsDecided, HasStatus, Exists
<1>2. (TypeInv /\ AuthorisationInv) /\ QueueInv /\ OutcomesAreSettled /\ [Next]_vars
        => OutcomesAreSettled'
  BY OutcomesStep
<1>3. OutcomesAreSettled => OutcomeIsAudited
  <2> SUFFICES ASSUME OutcomesAreSettled PROVE OutcomeIsAudited
    OBVIOUS
  <2>1. ASSUME NEW w, NEW o, Settled(w, "workflow.approval", o)
        PROVE  \/ Audited(w, "workflow.approval", o)
               \/ Busy(w, "decide", {"audit"})
               \/ o = "approved" /\ Busy(w, "decide", {"decide_enqueue"})
    BY <2>1 DEF Settled, Owes, Busy
  <2>2. ASSUME NEW w, NEW o, Settled(w, "task.process", o)
        PROVE  \/ Audited(w, "task.process", o)
               \/ Busy(w, "process", {"audit"})
               \/ o = "approval_expired" /\ Busy(w, "process", {"task_discard"})
               \/ o = "completed" /\ Busy(w, "process", {"task_complete"})
    BY <2>2 DEF Settled, Owes, Busy
  <2>3. \A w, op, a, b : Busy(w, op, {a}) => Busy(w, op, {b, a}) /\ Busy(w, op, {a, b})
    BY DEF Busy
  <2>4. ASSUME NEW w \in WorkflowIds, IsDecided(w)
        PROVE  \/ Audited(w, "workflow.approval", workflows[w].approval.decision)
               \/ Busy(w, "decide", {"decide_enqueue", "audit"})
    <3>1. PICK d : d = workflows[w].approval.decision
      OBVIOUS
    <3>2. Settled(w, "workflow.approval", d)
      BY <2>4, <3>1 DEF OutcomesAreSettled
    <3> QED BY <2>1, <2>3, <3>1, <3>2
  <2>5. ASSUME NEW w \in WorkflowIds, HasStatus(w, "expired")
        PROVE  \/ Audited(w, "workflow.approval", "expired")
               \/ Audited(w, "task.process", "approval_expired")
               \/ Busy(w, "decide", {"audit"})
               \/ Busy(w, "process", {"task_discard", "audit"})
    <3>1. \/ Settled(w, "workflow.approval", "expired")
          \/ Settled(w, "task.process", "approval_expired")
      BY <2>5 DEF OutcomesAreSettled
    <3>2. Settled(w, "workflow.approval", "expired") =>
            Audited(w, "workflow.approval", "expired") \/ Busy(w, "decide", {"audit"})
      BY <2>1
    <3>3. Settled(w, "task.process", "approval_expired") =>
            \/ Audited(w, "task.process", "approval_expired")
            \/ Busy(w, "process", {"task_discard", "audit"})
      <4>1. Settled(w, "task.process", "approval_expired") =>
              \/ Audited(w, "task.process", "approval_expired")
              \/ Busy(w, "process", {"audit"}) \/ Busy(w, "process", {"task_discard"})
        BY <2>2
      <4> QED BY <4>1, <2>3
    <3> QED BY <3>1, <3>2, <3>3
  <2>6. ASSUME NEW w \in WorkflowIds, HasStatus(w, "completed")
        PROVE  \/ Audited(w, "task.process", "completed")
               \/ Busy(w, "process", {"task_complete", "audit"})
    BY <2>2, <2>3, <2>6 DEF OutcomesAreSettled
  <2> QED BY <2>4, <2>5, <2>6 DEF OutcomeIsAudited
<1> QED BY <1>1, <1>2, <1>3, AuthAlways, QueueAlways, PTL DEF Spec

-----------------------------------------------------------------------------
(* What a call is answered with.                                           *)

Contract == INSTANCE ApplicationErrors

(* The endpoint of the boundary that calls each operation.                 *)
EndpointOf ==
  [create |-> "create", read |-> "workflow", plan |-> "plan",
   decide |-> "approval", process |-> "process"]

(* What process_next_task guards against and never meets.                  *)
NeverMet(op) ==
  IF op = "process" THEN {"WorkflowNotFound", "IdempotencyConflict"} ELSE {}

Replies(op) == {"ok"} \cup (Contract!ErrorsOf[EndpointOf[op]] \ NeverMet(op))

(* A call ends with its result or with an error of its endpoint's list, a  *)
(* delivery always finds its workflow and is bound to it, and an approval  *)
(* is never refused by the queue for another digest.                       *)
AnswersAreListed ==
  \A t \in Threads :
    /\ thread[t].pc = "reply" => thread[t].reply \in Replies(thread[t].call.op)
    /\ thread[t].pc \in {"decide_requeue", "decide_enqueue"} =>
         LET task == tasks[thread[t].snap.id]
         IN task # None => task.digest = thread[t].snap.proposal.digest

PlanSteps == {"plan_policy", "plan_clock", "plan_store"}

(* What a handler's answer depends on: a delivery that has not been looked *)
(* up carries the digest of what is stored.                                *)
Speaks(s) ==
  /\ s.pc = "create_store" => s.call.op = "create"
  /\ s.pc \in PlanSteps => s.call.op = "plan"
  /\ s.pc \in {"audit", "reply"} => s.reply \in Replies(s.call.op)
  /\ s.pc = "task_load" =>
       LET w == s.task.workflow
       IN /\ w \in WorkflowIds /\ workflows[w] # None
          /\ s.task.digest = <<w, workflows[w].request>>

(* A decided workflow keeps the proposal that was decided on.              *)
DecidedHasProposal ==
  \A w \in WorkflowIds : IsDecided(w) => workflows[w].proposal # None

RepliesInv ==
  /\ DecidedHasProposal
  /\ \A t \in Threads : Speaks(thread[t])

LEMMA ReplyTable ==
  /\ \A op : "ok" \in Replies(op)
  /\ {"PermissionDenied", "ComplianceOverlayUnavailable", "DataProcessingDenied",
      "IdempotencyConflict"} \subseteq Replies("create")
  /\ {"WorkflowNotFound"} \subseteq Replies("read")
  /\ {"WorkflowNotFound", "InvalidWorkflowState", "DataProcessingDenied",
      "PromptInjectionRejected", "EvaluationGateRejected"} \subseteq Replies("plan")
  /\ {"PermissionDenied", "WorkflowNotFound", "InvalidWorkflowState",
      "IdempotencyConflict", "ApprovalExpired"} \subseteq Replies("decide")
  /\ {"PermissionDenied", "NoPendingTask", "ApprovalExpired", "InvalidWorkflowState",
      "DataProcessingDenied"} \subseteq Replies("process")
<1>1. \A op : "ok" \in Replies(op)
  BY DEF Replies
<1>2. /\ {"PermissionDenied", "ComplianceOverlayUnavailable", "DataProcessingDenied",
          "IdempotencyConflict"} \subseteq Replies("create")
      /\ {"WorkflowNotFound"} \subseteq Replies("read")
  BY DEF Replies, NeverMet, EndpointOf, Contract!ErrorsOf
<1>3. {"WorkflowNotFound", "InvalidWorkflowState", "DataProcessingDenied",
       "PromptInjectionRejected", "EvaluationGateRejected"} \subseteq Replies("plan")
  BY DEF Replies, NeverMet, EndpointOf, Contract!ErrorsOf
<1>4. {"PermissionDenied", "WorkflowNotFound", "InvalidWorkflowState",
       "IdempotencyConflict", "ApprovalExpired"} \subseteq Replies("decide")
  BY DEF Replies, NeverMet, EndpointOf, Contract!ErrorsOf
<1>5. {"PermissionDenied", "NoPendingTask", "ApprovalExpired", "InvalidWorkflowState",
       "DataProcessingDenied"} \subseteq Replies("process")
  BY DEF Replies, NeverMet, EndpointOf, Contract!ErrorsOf
<1> QED BY <1>1, <1>2, <1>3, <1>4, <1>5

LEMMA SilentSpeaks ==
  ASSUME NEW s, s.pc \notin {"create_store", "audit", "reply", "task_load"}, s.pc \notin PlanSteps
  PROVE  Speaks(s)
BY DEF Speaks

LEMMA EndingSpeaks ==
  ASSUME NEW self
  PROVE  /\ \A w : Speaks(Answer(self, w))
         /\ \A w, action, outcome : Speaks(AuditThen(Answer(self, w), action, outcome))
         /\ \A error \in Replies(self.call.op) :
              /\ Speaks(Raise(self, error))
              /\ \A action, outcome :
                   Speaks(AuditThen(Raise(self, error), action, outcome))
<1>1. ASSUME NEW s, s.pc = "reply", s.reply \in Replies(s.call.op) PROVE Speaks(s)
  BY <1>1 DEF Speaks, PlanSteps
<1>2. ASSUME NEW s, s.pc = "audit", s.reply \in Replies(s.call.op) PROVE Speaks(s)
  BY <1>2 DEF Speaks, PlanSteps
<1>3. ASSUME NEW w
      PROVE  /\ Answer(self, w).pc = "reply" /\ Answer(self, w).reply = "ok"
             /\ \A action, outcome :
                  /\ AuditThen(Answer(self, w), action, outcome).pc = "audit"
                  /\ AuditThen(Answer(self, w), action, outcome).reply = "ok"
  BY DEF Answer, AuditThen, IdleThread
<1>4. ASSUME NEW error
      PROVE  /\ Raise(self, error).pc = "reply" /\ Raise(self, error).reply = error
             /\ Raise(self, error).call = self.call
             /\ \A action, outcome :
                  /\ AuditThen(Raise(self, error), action, outcome).pc = "audit"
                  /\ AuditThen(Raise(self, error), action, outcome).reply = error
                  /\ AuditThen(Raise(self, error), action, outcome).call = self.call
  BY DEF Raise, AuditThen, IdleThread
<1> QED BY <1>1, <1>2, <1>3, <1>4, ReplyTable

(* The calls that start a handler.                                         *)
LEMMA CallSpeaks ==
  ASSUME TypeInv, AuthorisationInv, QueueInv, NEW t \in Threads, Call(t)
  PROVE  \E s : Becomes(t, s) /\ Speaks(s)
<1> DEFINE Asked(call) == [IdleThread EXCEPT !.call = call]
<1>1. \A call : Asked(call).call = call
  BY DEF IdleThread
<1>2. CASE CreateRefused(t) \/ DecideRefused(t) \/ ProcessRefused(t)
  <2>1. \E call : /\ call.op \in {"create", "decide", "process"}
                  /\ Becomes(t, Raise(Asked(call), "PermissionDenied"))
    <3>1. \A p : [NoCall EXCEPT !.op = "create", !.by = p].op = "create"
      BY DEF NoCall
    <3>2. \A p : [NoCall EXCEPT !.op = "decide", !.by = p].op = "decide"
      BY DEF NoCall
    <3>3. \A p : ProcessCall(p, None).op = "process"
      BY DEF NoCall, ProcessCall
    <3>4. CASE CreateRefused(t)
      <4>1. PICK p \in Principals :
              Becomes(t, Raise(Asked([NoCall EXCEPT !.op = "create", !.by = p]),
                               "PermissionDenied"))
        BY <3>4 DEF CreateRefused, Refuse
      <4> DEFINE call == [NoCall EXCEPT !.op = "create", !.by = p]
      <4>2. call.op = "create" /\ Becomes(t, Raise(Asked(call), "PermissionDenied"))
        BY <3>1, <4>1
      <4> HIDE DEF call, Asked
      <4> QED BY <4>2
    <3>5. CASE DecideRefused(t)
      <4>1. PICK p \in Principals :
              Becomes(t, Raise(Asked([NoCall EXCEPT !.op = "decide", !.by = p]),
                               "PermissionDenied"))
        BY <3>5 DEF DecideRefused, Refuse
      <4> DEFINE call == [NoCall EXCEPT !.op = "decide", !.by = p]
      <4>2. call.op = "decide" /\ Becomes(t, Raise(Asked(call), "PermissionDenied"))
        BY <3>2, <4>1
      <4> HIDE DEF call, Asked
      <4> QED BY <4>2
    <3>6. CASE ProcessRefused(t)
      <4>1. PICK p \in Principals :
              Becomes(t, Raise(Asked(ProcessCall(p, None)), "PermissionDenied"))
        BY <3>6 DEF ProcessRefused, Refuse
      <4> HIDE DEF Asked
      <4> QED BY <3>3, <4>1
    <3> QED BY <1>2, <3>4, <3>5, <3>6
  <2> HIDE DEF Asked
  <2> QED BY <1>1, <2>1, EndingSpeaks, ReplyTable
<1>3. CASE CreateIntake(t)
  <2>1. PICK p \in Principals, w \in WorkflowIds, r \in Requests,
             c \in Contexts, k \in Keys :
          LET call == CreateCall(p, w, r, c, k)
              self == [IdleThread EXCEPT !.call = call]
          IN /\ HasRole(p, {"requester", "administrator"})
             /\ FreshId(w)
             /\ IF c \in UnreviewedOverlay
                  THEN /\ Becomes(t, Raise(self, "ComplianceOverlayUnavailable"))
                       /\ UNCHANGED events
                  ELSE /\ Record(Event(self, "data_processing.workflow_intake",
                                       Outcome("workflow_intake", call), None))
                       /\ Becomes(t, IF Allows("workflow_intake", call)
                                       THEN [self EXCEPT !.pc = "create_store"]
                                       ELSE Raise(self, "DataProcessingDenied"))
    BY <1>3 DEF CreateIntake
  <2> DEFINE call == CreateCall(p, w, r, c, k)
             next == [Asked(call) EXCEPT !.pc = "create_store"]
  <2>2. call.op = "create"
    BY DEF CreateCall, NoCall
  <2>3. next.pc = "create_store" /\ next.call = call
    BY DEF IdleThread
  <2>4. \/ Becomes(t, Raise(Asked(call), "ComplianceOverlayUnavailable"))
        \/ Becomes(t, next)
        \/ Becomes(t, Raise(Asked(call), "DataProcessingDenied"))
    BY <2>1
  <2> HIDE DEF call, next, Asked
  <2>5. Speaks(next)
    BY <2>2, <2>3 DEF Speaks, PlanSteps
  <2> QED BY <1>1, <2>2, <2>4, <2>5, EndingSpeaks, ReplyTable
<1>4. CASE ReadLoad(t)
  <2>1. PICK p, w :
          LET self == Asked([NoCall EXCEPT !.op = "read", !.by = p, !.id = w])
          IN \/ Becomes(t, AuditThen(Answer(self, workflows[w]),
                                     "workflow.read", "allowed"))
             \/ Becomes(t, AuditThen(Raise(self, "WorkflowNotFound"),
                                     "workflow.read", "not_found"))
    BY <1>4 DEF ReadLoad
  <2> DEFINE call == [NoCall EXCEPT !.op = "read", !.by = p, !.id = w]
  <2>2. call.op = "read"
    BY DEF NoCall
  <2>3. \/ Becomes(t, AuditThen(Answer(Asked(call), workflows[w]),
                                "workflow.read", "allowed"))
        \/ Becomes(t, AuditThen(Raise(Asked(call), "WorkflowNotFound"),
                                "workflow.read", "not_found"))
    BY <2>1
  <2> HIDE DEF call, Asked
  <2> QED BY <1>1, <2>2, <2>3, EndingSpeaks, ReplyTable
<1>5. CASE PlanLoad(t)
  <2>1. PICK p, w :
          LET self == Asked([NoCall EXCEPT !.op = "plan", !.by = p, !.id = w])
          IN \/ Becomes(t, AuditThen(Raise(self, "WorkflowNotFound"),
                                     "workflow.plan", "not_found"))
             \/ Becomes(t, Answer(self, workflows[w]))
             \/ Becomes(t, [self EXCEPT !.pc = "plan_policy", !.snap = workflows[w]])
             \/ Becomes(t, Raise(self, "InvalidWorkflowState"))
    BY <1>5 DEF PlanLoad
  <2> DEFINE call == [NoCall EXCEPT !.op = "plan", !.by = p, !.id = w]
             next == [Asked(call) EXCEPT !.pc = "plan_policy", !.snap = workflows[w]]
  <2>2. call.op = "plan"
    BY DEF NoCall
  <2>3. next.pc = "plan_policy" /\ next.call = call
    BY DEF IdleThread
  <2>4. \/ Becomes(t, AuditThen(Raise(Asked(call), "WorkflowNotFound"),
                                "workflow.plan", "not_found"))
        \/ Becomes(t, Answer(Asked(call), workflows[w]))
        \/ Becomes(t, next)
        \/ Becomes(t, Raise(Asked(call), "InvalidWorkflowState"))
    BY <2>1
  <2> HIDE DEF call, next, Asked
  <2>5. Speaks(next)
    BY <2>2, <2>3 DEF Speaks
  <2> QED BY <1>1, <2>2, <2>4, <2>5, EndingSpeaks, ReplyTable
<1>6. CASE DecideLoad(t)
  <2>1. PICK p \in Principals, w \in WorkflowIds, k \in Keys, d \in Decision :
          LET found == workflows[w]
              self  == [IdleThread EXCEPT !.call = DecideCall(p, w, k, d)]
          IN /\ HasRole(p, {"reviewer", "administrator"})
             /\ \/ /\ found = None
                   /\ Becomes(t, Raise(self, "WorkflowNotFound"))
                \/ /\ found # None /\ IsOwner(p, found)
                   /\ Becomes(t, AuditThen(Raise(self, "PermissionDenied"),
                                           "workflow.approval", "self_approval_denied"))
                \/ /\ found # None /\ ~IsOwner(p, found) /\ found.approval # None
                   /\ Becomes(t, Replay(self, found))
                \/ /\ found # None /\ ~IsOwner(p, found) /\ found.approval = None
                   /\ Becomes(t, IF found.status = "awaiting_approval"
                                      /\ found.proposal # None
                                   THEN [self EXCEPT !.pc = "decide_clock",
                                                     !.snap = found]
                                   ELSE Raise(self, "InvalidWorkflowState"))
    BY <1>6 DEF DecideLoad
  <2> DEFINE call == DecideCall(p, w, k, d)
             found == workflows[w]
             loaded(pc) == [Asked(call) EXCEPT !.pc = pc, !.snap = found]
  <2>2. call.op = "decide"
    BY DEF DecideCall, NoCall
  <2>3. \A pc : loaded(pc).pc = pc
    BY DEF IdleThread
  <2>4. \/ Becomes(t, Raise(Asked(call), "WorkflowNotFound"))
        \/ Becomes(t, AuditThen(Raise(Asked(call), "PermissionDenied"),
                                "workflow.approval", "self_approval_denied"))
        \/ Becomes(t, Replay(Asked(call), found))
        \/ Becomes(t, loaded("decide_clock"))
        \/ Becomes(t, Raise(Asked(call), "InvalidWorkflowState"))
    BY <2>1
  <2>5. \/ Replay(Asked(call), found) = Raise(Asked(call), "InvalidWorkflowState")
        \/ Replay(Asked(call), found) = Raise(Asked(call), "IdempotencyConflict")
        \/ Replay(Asked(call), found) = Answer(Asked(call), found)
        \/ Replay(Asked(call), found) = loaded("decide_requeue")
    BY DEF Replay
  <2> HIDE DEF call, loaded, Asked, found
  <2>6. Speaks(loaded("decide_clock")) /\ Speaks(loaded("decide_requeue"))
    BY <2>3, SilentSpeaks DEF PlanSteps
  <2>7. Speaks(Replay(Asked(call), found))
    BY <1>1, <2>2, <2>5, <2>6, EndingSpeaks, ReplyTable
  <2> QED BY <1>1, <2>2, <2>4, <2>6, <2>7, EndingSpeaks, ReplyTable
<1>7. CASE ProcessNothing(t)
  <2>1. PICK p : Becomes(t, Raise(Asked(ProcessCall(p, None)), "NoPendingTask"))
    BY <1>7 DEF ProcessNothing
  <2>2. ProcessCall(p, None).op = "process"
    BY DEF NoCall, ProcessCall
  <2> HIDE DEF Asked
  <2> QED BY <1>1, <2>1, <2>2, EndingSpeaks, ReplyTable
<1>8. CASE ProcessClaim(t)
  <2>1. PICK p \in Principals, w \in WorkflowIds :
          /\ IsNext(w)
          /\ Becomes(t, [IdleThread EXCEPT !.pc = "task_load",
                           !.call = ProcessCall(p, w), !.task = Delivered(tasks[w])])
    BY <1>8 DEF ProcessClaim
  <2> DEFINE next == [IdleThread EXCEPT !.pc = "task_load",
                        !.call = ProcessCall(p, w), !.task = Delivered(tasks[w])]
  <2>2. next.pc = "task_load" /\ next.task = Delivered(tasks[w])
    BY DEF IdleThread
  <2>3. tasks[w] \in Task /\ tasks[w].workflow = w /\ tasks[w] # None
    BY <2>1 DEF IsNext, TypeInv, TypeOK, OrderHasTasks
  <2>4. Delivered(tasks[w]).workflow = w /\ Delivered(tasks[w]).digest = tasks[w].digest
    BY <2>3 DEF Delivered, Task
  <2>5. workflows[w] # None /\ tasks[w].digest = <<w, workflows[w].request>>
    BY <2>3 DEF QueueInv, TasksAreQueued, AuthorisationInv, QueuedIsApproved,
                IsApproved, IsDecided, Exists
  <2> HIDE DEF next
  <2>6. Speaks(next)
    BY <2>2, <2>4, <2>5 DEF Speaks, PlanSteps
  <2> QED BY <2>1, <2>6 DEF next
<1> QED BY <1>2, <1>3, <1>4, <1>5, <1>6, <1>7, <1>8 DEF Call

(* The steps of a handler: plan and create first.                          *)
LEMMA SubmissionSpeaks ==
  ASSUME TypeInv, NEW t \in Threads, Speaks(thread[t]),
         CreateStore(t) \/ PlanPolicy(t) \/ PlanClock(t) \/ PlanStore(t)
  PROVE  \E s : Becomes(t, s) /\ Speaks(s)
<1> DEFINE self == thread[t]
<1>1. self \in ThreadState /\ self.call \in CallFrame
  BY DEF TypeInv, TypeOK, ThreadState
<1>2. CASE CreateStore(t)
  <2> DEFINE Ended(x) == [Answer(self, x) EXCEPT !.call.id = x.id]
             Stored(x) == AuditThen(Ended(x), "workflow.create", "accepted")
  <2>1. \A x : Stored(x).pc = "audit" /\ Stored(x).reply = "ok"
    BY DEF AuditThen, Answer, IdleThread
  <2>2. \/ \E x : Becomes(t, Stored(x))
        \/ Becomes(t, Raise(self, "IdempotencyConflict"))
    BY <1>2 DEF CreateStore
  <2>3. self.call.op = "create"
    BY <1>2 DEF CreateStore, Speaks
  <2> HIDE DEF Stored
  <2>4. \A x : Speaks(Stored(x))
    BY <2>1, ReplyTable DEF Speaks, PlanSteps
  <2> QED BY <2>2, <2>3, <2>4, EndingSpeaks, ReplyTable
<1>3. ASSUME NEW pc \in PlanSteps, NEW s, s.pc = pc, s.call = self.call,
             self.call.op = "plan"
      PROVE  Speaks(s)
  BY <1>3 DEF Speaks, PlanSteps
<1>4. CASE PlanPolicy(t)
  <2> DEFINE next == [self EXCEPT !.pc = "plan_clock"]
  <2>1. self.call.op = "plan"
    BY <1>4 DEF PlanPolicy, Speaks, PlanSteps
  <2>2. next.pc = "plan_clock" /\ next.call = self.call
    BY <1>1 DEF ThreadState
  <2>3. \/ Becomes(t, Raise(self, "DataProcessingDenied"))
        \/ Becomes(t, AuditThen(Raise(self, "PromptInjectionRejected"),
                                "guardrail.input", "blocked"))
        \/ Becomes(t, AuditThen(Raise(self, "EvaluationGateRejected"),
                                "evaluation.planning_gate", "failed"))
        \/ Becomes(t, next)
    BY <1>4 DEF PlanPolicy
  <2> HIDE DEF next
  <2>4. Speaks(next)
    BY <1>3, <2>1, <2>2 DEF PlanSteps
  <2> QED BY <2>1, <2>3, <2>4, EndingSpeaks, ReplyTable
<1>5. CASE PlanClock(t)
  <2> DEFINE next == [self EXCEPT !.at = clock, !.pc = "plan_store"]
  <2>1. self.call.op = "plan" /\ Becomes(t, next)
    BY <1>5 DEF PlanClock, ReadClock, Speaks, PlanSteps
  <2>2. next.pc = "plan_store" /\ next.call = self.call
    BY <1>1 DEF ThreadState
  <2> HIDE DEF next
  <2> QED BY <1>3, <2>1, <2>2 DEF PlanSteps
<1>6. CASE PlanStore(t)
  <2>1. self.call.op = "plan"
    BY <1>6 DEF PlanStore, Speaks, PlanSteps
  <2>2. \/ \E w : Becomes(t, AuditThen(Answer(self, w), "workflow.plan", "evaluated"))
        \/ Becomes(t, Raise(self, "InvalidWorkflowState"))
    BY <1>6, UpdateBecomes DEF PlanStore
  <2> QED BY <2>1, <2>2, EndingSpeaks, ReplyTable
<1> QED BY <1>2, <1>4, <1>5, <1>6

LEMMA DecisionSpeaks ==
  ASSUME TypeInv, QueueInv, NEW t \in Threads,
         \/ DecideRequeue(t) \/ DecideClock(t) \/ DecideExpire(t)
         \/ DecideStore(t) \/ DecideEnqueue(t)
  PROVE  \E s : Becomes(t, s) /\ Speaks(s)
<1> DEFINE self == thread[t]
<1>1. self \in ThreadState
  BY DEF TypeInv, TypeOK
<1>2. self.call.op = "decide"
  <2>1. self.pc \in Deciding
    BY DEF DecideRequeue, DecideClock, ReadClock, DecideExpire, DecideStore,
           DecideEnqueue, Deciding
  <2> QED BY <2>1 DEF QueueInv, Frame
<1>3. CASE DecideRequeue(t)
  <2>1. \/ Becomes(t, Answer(self, self.snap))
        \/ Becomes(t, Raise(self, "IdempotencyConflict"))
    BY <1>3, EnqueueBecomes DEF DecideRequeue
  <2> QED BY <1>2, <2>1, EndingSpeaks, ReplyTable
<1>4. CASE DecideClock(t)
  <2> DEFINE next == [self EXCEPT !.at = clock, !.pc = "decide_store"]
  <2>1. Becomes(t, next)
    BY <1>4 DEF DecideClock, ReadClock
  <2>2. next.pc = "decide_store"
    BY <1>1 DEF ThreadState
  <2> HIDE DEF next
  <2> QED BY <2>1, <2>2, SilentSpeaks DEF PlanSteps
<1>5. CASE DecideExpire(t)
  <2>1. \/ Becomes(t, AuditThen(Raise(self, "ApprovalExpired"),
                                "workflow.approval", "expired"))
        \/ Becomes(t, Raise(self, "InvalidWorkflowState"))
    BY <1>5, UpdateBecomes DEF DecideExpire
  <2> QED BY <1>2, <2>1, EndingSpeaks, ReplyTable
<1>6. CASE DecideStore(t)
  <2> DEFINE next(w) == [self EXCEPT !.pc = "decide_enqueue", !.snap = w]
  <2>1. \/ \E w : Becomes(t, next(w))
        \/ \E w : Becomes(t, AuditThen(Answer(self, w), "workflow.approval",
                                       self.call.decision))
        \/ Becomes(t, Raise(self, "InvalidWorkflowState"))
    BY <1>6, Zenon DEF DecideStore, Update
  <2>2. \A w : next(w).pc = "decide_enqueue"
    BY <1>1 DEF ThreadState
  <2> HIDE DEF next
  <2>3. \A w : Speaks(next(w))
    BY <2>2, SilentSpeaks DEF PlanSteps
  <2> QED BY <1>2, <2>1, <2>3, EndingSpeaks, ReplyTable
<1>7. CASE DecideEnqueue(t)
  <2>1. \/ Becomes(t, AuditThen(Answer(self, self.snap), "workflow.approval", "approved"))
        \/ Becomes(t, Raise(self, "IdempotencyConflict"))
    BY <1>7, EnqueueBecomes DEF DecideEnqueue
  <2> QED BY <1>2, <2>1, EndingSpeaks, ReplyTable
<1> QED BY <1>3, <1>4, <1>5, <1>6, <1>7

(* A delivered task finds a workflow that was approved for its digest.     *)
LEMMA DeliveryIsBound ==
  ASSUME TypeInv, AuthorisationInv, QueueInv, DecidedHasProposal,
         NEW t \in Threads, thread[t].pc = "task_load", Speaks(thread[t])
  PROVE  LET task  == thread[t].task
             found == workflows[task.workflow]
         IN /\ found # None /\ IsBound(task, found)
            /\ found.status = "completed" => found.ticket.digest = task.digest
<1> DEFINE task  == thread[t].task
           found == workflows[task.workflow]
<1>1. /\ task \in Task /\ task.workflow \in WorkflowIds
      /\ tasks[task.workflow] # None
  BY DEF TypeInv, Shape, QueueInv, Frame, HoldsTask, Task
<1>2. /\ found # None /\ found.approval # None /\ found.proposal # None
  BY <1>1 DEF QueueInv, TasksAreQueued, AuthorisationInv, QueuedIsApproved,
              IsApproved, IsDecided, Exists, DecidedHasProposal
<1>3. /\ task.digest = <<task.workflow, found.request>>
      /\ found \in Workflow /\ found.id = task.workflow
  BY <1>1, <1>2 DEF Speaks, TypeInv, TypeOK
<1>4. Legal(found)
  BY <1>1, <1>2 DEF AuthorisationInv, StoredIsLegal, Exists
<1>5. IsBound(task, found)
  BY <1>2, <1>3, <1>4 DEF IsBound, Legal
<1>6. ASSUME found.status = "completed" PROVE found.ticket.digest = task.digest
  <2>1. found.ticket \in executions /\ found.ticket.key[1] = task.workflow
    BY <1>1, <1>2, <1>6 DEF AuthorisationInv, StoredIsLegal, Exists
  <2> QED BY <1>3, <2>1 DEF AuthorisationInv, TicketIsBacked
<1> QED BY <1>2, <1>5, <1>6

LEMMA TaskSpeaks ==
  ASSUME TypeInv, AuthorisationInv, QueueInv, RepliesInv, NEW t \in Threads,
         \/ TaskLoad(t) \/ TaskClock(t) \/ TaskExpire(t) \/ TaskDiscard(t)
         \/ TaskPolicy(t) \/ TaskBegin(t) \/ TaskExecute(t) \/ TaskStore(t)
         \/ TaskComplete(t) \/ TaskDone(t)
  PROVE  \E s : Becomes(t, s) /\ Speaks(s)
<1> DEFINE self == thread[t]
<1>1. self \in ThreadState
  BY DEF TypeInv, TypeOK
<1>2. self.call.op = "process"
  <2>1. self.pc \in HoldsTask
    BY DEF TaskLoad, TaskClock, TaskExpire, TaskDiscard, TaskPolicy, TaskBegin,
           TaskExecute, TaskStore, TaskComplete, TaskDone, HoldsTask, Executing
  <2> QED BY <2>1 DEF QueueInv, Frame
<1>3. ASSUME NEW s, s.pc \in HoldsTask \ {"task_load"} PROVE Speaks(s)
  BY <1>3, SilentSpeaks DEF PlanSteps, HoldsTask, Executing
<1>4. CASE TaskLoad(t)
  <2> DEFINE found == workflows[self.task.workflow]
             loaded(pc) == [self EXCEPT !.pc = pc, !.snap = found]
  <2>1. /\ found # None /\ IsBound(self.task, found)
        /\ found.status = "completed" => found.ticket.digest = self.task.digest
    BY <1>4, DeliveryIsBound DEF TaskLoad, RepliesInv
  <2>2. Becomes(t, loaded("task_clock")) \/ Becomes(t, loaded("task_done"))
    BY <1>4, <2>1 DEF TaskLoad
  <2>3. \A pc : loaded(pc).pc = pc
    BY <1>1 DEF ThreadState
  <2> HIDE DEF loaded
  <2> QED BY <1>3, <2>2, <2>3 DEF HoldsTask, Executing
<1>5. CASE TaskClock(t)
  <2> DEFINE read(pc) == [[self EXCEPT !.at = clock] EXCEPT !.pc = pc]
  <2>1. \/ Becomes(t, Raise(self, "InvalidWorkflowState"))
        \/ \E pc \in {"task_expire", "task_policy", "task_execute"} :
             Becomes(t, read(pc))
    BY <1>5 DEF TaskClock
  <2>2. \A pc : read(pc).pc = pc
    BY <1>1 DEF ThreadState
  <2> HIDE DEF read
  <2>3. \A pc \in {"task_expire", "task_policy", "task_execute"} : Speaks(read(pc))
    BY <1>3, <2>2 DEF HoldsTask, Executing
  <2> QED BY <1>2, <2>1, <2>3, EndingSpeaks, ReplyTable
<1>6. CASE TaskExpire(t)
  <2> DEFINE next == [self EXCEPT !.pc = "task_discard"]
  <2>1. Becomes(t, next) \/ Becomes(t, Raise(self, "InvalidWorkflowState"))
    BY <1>6, UpdateBecomes DEF TaskExpire
  <2>2. next.pc = "task_discard"
    BY <1>1 DEF ThreadState
  <2> HIDE DEF next
  <2> QED BY <1>2, <1>3, <2>1, <2>2, EndingSpeaks, ReplyTable DEF HoldsTask
<1>7. CASE TaskDiscard(t) \/ TaskComplete(t) \/ TaskDone(t)
  <2>1. \/ Becomes(t, AuditThen(Raise(self, "ApprovalExpired"),
                                "task.process", "approval_expired"))
        \/ Becomes(t, AuditThen(Answer(self, self.snap), "task.process", "completed"))
        \/ Becomes(t, Answer(self, self.snap))
    BY <1>7 DEF TaskDiscard, TaskComplete, TaskDone, Complete
  <2> QED BY <1>2, <2>1, EndingSpeaks, ReplyTable
<1>8. CASE TaskPolicy(t)
  <2> DEFINE next == [self EXCEPT !.pc = "task_begin"]
  <2>1. Becomes(t, next) \/ Becomes(t, Raise(self, "DataProcessingDenied"))
    BY <1>8 DEF TaskPolicy
  <2>2. next.pc = "task_begin"
    BY <1>1 DEF ThreadState
  <2> HIDE DEF next
  <2> QED BY <1>2, <1>3, <2>1, <2>2, EndingSpeaks, ReplyTable DEF HoldsTask, Executing
<1>9. CASE TaskBegin(t) \/ TaskStore(t)
  <2> DEFINE next(pc, w) == [self EXCEPT !.pc = pc, !.snap = w]
  <2>1. \/ \E w : Becomes(t, next("task_execute", w)) \/ Becomes(t, next("task_complete", w))
        \/ Becomes(t, Raise(self, "InvalidWorkflowState"))
    BY <1>9, UpdateBecomes DEF TaskBegin, TaskStore
  <2>2. \A pc, w : next(pc, w).pc = pc
    BY <1>1 DEF ThreadState
  <2> HIDE DEF next
  <2>3. \A w : Speaks(next("task_execute", w)) /\ Speaks(next("task_complete", w))
    BY <1>3, <2>2 DEF HoldsTask, Executing
  <2> QED BY <1>2, <2>1, <2>3, EndingSpeaks, ReplyTable
<1>10. CASE TaskExecute(t)
  <2> DEFINE next(x) == [self EXCEPT !.pc = "task_store", !.result = x]
  <2>1. /\ self.pc = "task_execute" /\ self.task \in Task /\ self.snap \in Workflow
        /\ self.snap.proposal \in Proposal
        /\ self.snap.id = self.task.workflow /\ Legal(self.snap)
        /\ self.snap.id \in WorkflowIds
        /\ Follows(workflows[self.snap.id], self.snap)
    BY <1>10 DEF TaskExecute, TypeInv, Shape, AuthorisationInv, Knows, HoldsSnap,
                 HoldsTask, Executing, Workflow
  <2>2. self.snap.proposal.digest = <<self.snap.id, self.snap.request>>
    BY <2>1, NoneAssumption DEF Legal
  <2>3. ASSUME NEW e \in IssuedFor(self.task)
        PROVE  e.digest = self.snap.proposal.digest
    <3>1. e \in executions /\ e.key[1] = self.snap.id
      BY <2>1 DEF IssuedFor, TicketKey
    <3>2. e.digest = <<workflows[self.snap.id].id, workflows[self.snap.id].request>>
      BY <3>1 DEF AuthorisationInv, TicketIsBacked
    <3> QED BY <2>1, <2>2, <3>2 DEF Follows
  <2>4. \E x : Becomes(t, next(x))
    BY <1>10, <2>3 DEF TaskExecute
  <2>5. \A x : next(x).pc = "task_store"
    BY <1>1 DEF ThreadState
  <2> HIDE DEF next
  <2> QED BY <1>3, <2>4, <2>5 DEF HoldsTask, Executing
<1> QED BY <1>4, <1>5, <1>6, <1>7, <1>8, <1>9, <1>10

LEMMA LastSpeaks ==
  ASSUME TypeInv, NEW t \in Threads, Speaks(thread[t]),
         RecordAudit(t) \/ Respond(t) \/ Interrupt(t)
  PROVE  \E s : Becomes(t, s) /\ Speaks(s)
<1>1. CASE RecordAudit(t)
  <2> DEFINE next == [thread[t] EXCEPT !.pc = "reply", !.event = None]
  <2>1. Becomes(t, next) /\ thread[t].reply \in Replies(thread[t].call.op)
    BY <1>1 DEF RecordAudit, Speaks
  <2>2. next.pc = "reply" /\ next.call = thread[t].call /\ next.reply = thread[t].reply
    BY DEF TypeInv, TypeOK, ThreadState
  <2> HIDE DEF next
  <2>3. Speaks(next)
    BY <2>1, <2>2 DEF Speaks, PlanSteps
  <2> QED BY <2>1, <2>3
<1>2. CASE Respond(t) \/ Interrupt(t)
  <2>1. Speaks(IdleThread)
    BY DEF Speaks, IdleThread, PlanSteps
  <2> QED BY <1>2, <2>1 DEF Respond, Interrupt
<1> QED BY <1>1, <1>2

(* What is stored changes, requests never do.                              *)
LEMMA SpeaksOn ==
  ASSUME AuthorisationInv, Grows, NEW t \in Threads,
         NEW s, thread'[t] = s, Speaks(s)
  PROVE  Speaks(thread[t])'
<1>1. ASSUME NEW w \in WorkflowIds, workflows[w] # None
      PROVE  workflows'[w] # None /\ workflows'[w].request = workflows[w].request
  BY <1>1 DEF Grows, Extends, Follows
<1> QED BY <1>1 DEF Speaks

LEMMA SpeaksStep ==
  ASSUME TypeInv, AuthorisationInv, QueueInv, RepliesInv, [Next]_vars,
         NEW u \in Threads
  PROVE  Speaks(thread[u])'
<1>1. Grows /\ Speaks(thread[u])
  BY AuthNext DEF RepliesInv
<1>2. CASE thread'[u] = thread[u]
  BY <1>1, <1>2, SpeaksOn
<1>3. ASSUME NEW t \in Threads, Call(t) \/ Step(t) \/ Interrupt(t)
      PROVE  Speaks(thread[u])'
  <2>1. PICK s : Becomes(t, s) /\ Speaks(s)
    <3>1. Speaks(thread[t])
      BY DEF RepliesInv
    <3> QED BY <1>3, <3>1, CallSpeaks, SubmissionSpeaks, DecisionSpeaks, TaskSpeaks,
            LastSpeaks DEF Step
  <2>2. thread'[t] = s /\ (u # t => thread'[u] = thread[u])
    BY <2>1, BecomesAt
  <2> QED BY <1>1, <1>2, <2>1, <2>2, SpeaksOn
<1> QED BY <1>2, <1>3 DEF Next, Tick, vars

LEMMA DecidedHasProposalStep ==
  ASSUME TypeInv, AuthorisationInv, DecidedHasProposal, [Next]_vars
  PROVE  DecidedHasProposal'
<1> SUFFICES ASSUME NEW w \in WorkflowIds, IsDecided(w)'
             PROVE  workflows'[w].proposal # None
  BY DEF DecidedHasProposal
<1>1. CASE workflows'[w] = workflows[w]
  BY <1>1 DEF DecidedHasProposal, IsDecided, Exists
<1>2. ASSUME NEW t \in Threads, Submits(t) PROVE workflows'[w].proposal # None
  <2>1. workflows'[w].approval = None \/ workflows'[w] = workflows[w]
    BY <1>2, SubmitterKnows
  <2> QED BY <1>1, <2>1 DEF IsDecided
<1>3. ASSUME NEW t \in Threads, thread[t].pc \in HoldsSnap, NEW new, Writes(t, new),
             \/ new.proposal # None
             \/ new.approval = None
             \/ /\ new.proposal = thread[t].snap.proposal
                /\ thread[t].snap.approval # None
      PROVE  workflows'[w].proposal # None
  <2>1. workflows'[w] = workflows[w] \/ (w = thread[t].snap.id /\ workflows'[w] = new)
    BY <1>3, WriterKnows
  <2>2. CASE w = thread[t].snap.id /\ workflows'[w] = new
    <3>1. workflows[w] = thread[t].snap /\ Exists(w)
      BY <1>3, <2>2, WriterKnows
    <3> QED BY <1>3, <2>2, <3>1 DEF DecidedHasProposal, IsDecided
  <2> QED BY <1>1, <2>1, <2>2
<1>4. ASSUME NEW t \in Threads, Proposes(t) PROVE workflows'[w].proposal # None
  <2> DEFINE proposal == CreateToolProposal(thread[t].snap, thread[t].at)
             new == ApplyPlanningResult(thread[t].snap, proposal)
  <2>1. /\ thread[t].pc \in HoldsSnap /\ thread[t].snap \in Workflow
        /\ proposal \in Proposal /\ Writes(t, new)
    BY <1>4, ProposerKnows
  <2> HIDE DEF proposal
  <2>2. new.proposal # None
    BY <2>1, PlannedFields, NoneAssumption, ZenonT(40)
  <2> HIDE DEF new
  <2> QED BY <1>3, <2>1, <2>2
<1>5. ASSUME NEW t \in Threads, Decides(t) PROVE workflows'[w].proposal # None
  <2> DEFINE self == thread[t]
             made == CreateApprovalDecision(self.snap.proposal, self.call.by,
                       self.call.decision, self.call.key, self.at)
             new == RecordApproval(self.snap, made)
  <2>1. /\ self.pc \in HoldsSnap /\ self.snap \in Workflow /\ made \in Approval
        /\ Writes(t, new)
    BY <1>5, DeciderKnows
  <2>2. self.snap.proposal # None
    BY <1>5, NoneAssumption DEF Decides, TypeInv, Shape, Deciding
  <2> HIDE DEF made
  <2>3. new.proposal = self.snap.proposal
    BY <2>1, DecidedFields
  <2> HIDE DEF new
  <2> QED BY <1>3, <2>1, <2>2, <2>3
<1>6. ASSUME NEW t \in Threads, Lapses(t) PROVE workflows'[w].proposal # None
  <2> DEFINE new == Expire(thread[t].snap)
  <2>1. thread[t].pc \in HoldsSnap /\ thread[t].snap \in Workflow /\ Writes(t, new)
    BY <1>6, LapserKnows
  <2>2. thread[t].snap.proposal # None
    BY <1>6, NoneAssumption DEF Lapses, TypeInv, Shape, Deciding, Executing
  <2>3. new.proposal = thread[t].snap.proposal
    BY <2>1, ExpiredFields
  <2> HIDE DEF new
  <2> QED BY <1>3, <2>1, <2>2, <2>3
<1>7. ASSUME NEW t \in Threads, Starts(t) PROVE workflows'[w].proposal # None
  <2> DEFINE new == BeginExecution(thread[t].snap)
  <2>1. thread[t].pc \in HoldsSnap /\ thread[t].snap \in Workflow /\ Writes(t, new)
    BY <1>7, StarterKnows
  <2>2. thread[t].snap.proposal # None
    BY <1>7, NoneAssumption DEF Starts, TypeInv, Shape, Executing
  <2>3. new.proposal = thread[t].snap.proposal
    BY <2>1, BegunFields
  <2> HIDE DEF new
  <2> QED BY <1>3, <2>1, <2>2, <2>3
<1>8. ASSUME NEW t \in Threads, Finishes(t) PROVE workflows'[w].proposal # None
  <2> DEFINE new == CompleteExecution(thread[t].snap, thread[t].result)
  <2>1. /\ thread[t].pc \in HoldsSnap /\ thread[t].snap \in Workflow /\ Writes(t, new)
        /\ thread[t].snap.approval \in Approval /\ thread[t].result \in Ticket
    BY <1>8, FinisherKnows
  <2>2. thread[t].snap.proposal # None
    BY <1>8, NoneAssumption DEF Finishes, TypeInv, Shape, Executing
  <2>3. new.proposal = thread[t].snap.proposal
    BY <2>1, CompletedFields
  <2> HIDE DEF new
  <2> QED BY <1>3, <2>1, <2>2, <2>3
<1>9. CASE UNCHANGED <<workflows, idempotency>>
  BY <1>1, <1>9
<1> QED BY <1>2, <1>4, <1>5, <1>6, <1>7, <1>8, <1>9, RepositoryStep

(* The tables of errors agree: whatever handlers interleave, are           *)
(* redelivered or die, each operation of service.py answers with its       *)
(* result or with an error that the boundary lists for its endpoint, and   *)
(* three defensive checks never fire: a delivery always finds a workflow   *)
(* bound to it, the executor never meets another digest under a task's     *)
(* key, and the queue never refuses an approval.                           *)
THEOREM AnswersAreKnown == Spec => []AnswersAreListed
<1>1. Init => RepliesInv
  BY DEF Init, RepliesInv, DecidedHasProposal, IsDecided, Exists, Speaks, IdleThread,
         PlanSteps
<1>2. (TypeInv /\ AuthorisationInv) /\ QueueInv /\ RepliesInv /\ [Next]_vars
        => RepliesInv'
  <2> SUFFICES ASSUME TypeInv, AuthorisationInv, QueueInv, RepliesInv, [Next]_vars
               PROVE  RepliesInv'
    OBVIOUS
  <2>1. DecidedHasProposal'
    BY DecidedHasProposalStep DEF RepliesInv
  <2>2. \A t \in Threads : Speaks(thread[t])'
    BY SpeaksStep
  <2> QED BY <2>1, <2>2 DEF RepliesInv
<1>3. (TypeInv /\ AuthorisationInv) /\ QueueInv /\ RepliesInv => AnswersAreListed
  <2> SUFFICES ASSUME TypeInv, AuthorisationInv, QueueInv, RepliesInv,
                      NEW t \in Threads,
                      thread[t].pc \in {"decide_requeue", "decide_enqueue"},
                      tasks[thread[t].snap.id] # None
               PROVE  tasks[thread[t].snap.id].digest = thread[t].snap.proposal.digest
    BY DEF AnswersAreListed, RepliesInv, Speaks
  <2> DEFINE snap == thread[t].snap
  <2>1. /\ snap \in Workflow /\ snap.id \in WorkflowIds /\ snap.proposal # None
        /\ Legal(snap) /\ Follows(workflows[snap.id], snap)
    BY NoneAssumption DEF TypeInv, Shape, HoldsSnap, Deciding, AuthorisationInv, Knows,
                          Workflow
  <2>2. tasks[snap.id].digest = <<snap.id, workflows[snap.id].request>>
    BY <2>1 DEF QueueInv, TasksAreQueued
  <2> QED BY <2>1, <2>2 DEF Legal, Follows
<1> QED BY <1>1, <1>2, <1>3, AuthAlways, QueueAlways, PTL DEF Spec

=============================================================================
