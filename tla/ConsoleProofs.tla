---------------------------- MODULE ConsoleProofs ----------------------------
(***************************************************************************)
(* Theorems about any number of pages of the console over the service, for *)
(* any number of handlers, whatever requests, answers and handlers get     *)
(* lost.  A step of a page is a step of the service or leaves it alone, so *)
(* the theorems about the service hold under it.                           *)
(***************************************************************************)
EXTENDS ConsoleInvariant, OutcomeProofs

-----------------------------------------------------------------------------
(* Pages are clients: nothing they do is new to the service.               *)

LEMMA ClientStep == [ConsoleNext]_consoleVars => [Next]_vars
<1>1. CASE UNCHANGED consoleVars
  BY <1>1 DEF consoleVars
<1>2. ASSUME NEW p \in Pages, PageStep(p) PROVE Next \/ UNCHANGED vars
  <2>1. CASE Submit(p) \/ PressDecide(p) \/ PressProcess(p) \/ \E c \in Chain : Loses(p, c)
    BY <2>1 DEF Submit, PressDecide, PressProcess, Press, Loses, service, vars, queue
  <2>2. ASSUME NEW t \in Threads,
               SendCreate(p, t) \/ SendPlan(p, t) \/ SendDecide(p, t) \/ SendProcess(p, t)
        PROVE  Next
    BY <2>2 DEF SendCreate, SendPlan, SendDecide, SendProcess, Next, Call
  <2>3. ASSUME NEW t \in Threads, NEW c \in Chain, Receives(p, c, t) PROVE Next
    BY <2>3 DEF Receives, Next, Step
  <2> QED BY <1>2, <2>1, <2>2, <2>3 DEF PageStep
<1>3. ASSUME NEW t \in Threads, Serves(t) \/ Dies(t) PROVE Next
  BY <1>3 DEF Serves, Dies, Next
<1> QED BY <1>1, <1>2, <1>3 DEF ConsoleNext, Next

ServiceInv == TypeInv /\ AuthorisationInv /\ QueueInv

(* Whatever pages do, the service sees calls it models: each theorem about *)
(* the service holds of the service behind the console.                    *)
THEOREM PagesAreClients == ConsoleSpec => Spec
<1>1. ConsoleInit => Init
  BY DEF ConsoleInit
<1> QED BY <1>1, ClientStep, PTL DEF ConsoleSpec, Spec

LEMMA ServiceHolds == ConsoleSpec => []ServiceInv
<1>1. Spec => []ServiceInv
  BY AuthAlways, QueueAlways, PTL DEF ServiceInv
<1> QED BY <1>1, PagesAreClients, PTL

-----------------------------------------------------------------------------
(* The turns of a handler that was called: from r to s.                    *)

Resting    == {"idle"} \cup Ending

GoesOn(r, s) ==
  /\ r.pc \notin Resting \cup {"create_store", "decide_requeue"}
  /\ s.pc \notin Resting \cup {"create_store", "decide_requeue"}
  /\ s.call = r.call
  /\ s.pc \in PlanPoints => r.pc \in PlanPoints /\ s.snap = r.snap
  /\ s.pc \in {"task_complete", "task_done"} => s.snap.id = s.task.workflow

GivesUp(r, s) ==
  r.pc \notin Resting /\ s.pc \in Ending /\ s.call = r.call /\ s.reply # "ok"

IsCreated(r, s) ==
  /\ r.pc = "create_store" /\ s.call.id = s.snap.id
  /\ Known(r.call) = None =>
       s.call.id = r.call.id /\ workflows'[s.snap.id].proposal = None

IsPlanned(r, s) ==
  r.pc = "plan_store" /\ s.call.id = r.call.id /\ s.snap.id = r.snap.id
    /\ s.snap.status = "awaiting_approval"

(* Queued(w)', for a w that is primed already.                             *)
IsListed(w) == \E i \in DOMAIN order' : order'[i] = w

IsQueued(r, s) ==
  r.pc \in {"decide_requeue", "decide_enqueue"} /\ s.call.id = r.call.id
    /\ s.snap = r.snap /\ IsListed(s.snap.id)

IsRejected(r, s) ==
  r.pc = "decide_store" /\ s.call.id = r.call.id /\ s.snap.id = r.snap.id
    /\ s.snap.status # "approved"

IsExecuted(r, s) ==
  r.pc \in {"task_complete", "task_done"} /\ s.call.id = r.call.id /\ s.snap = r.snap

Succeeds(r, s) ==
  /\ r.pc \notin Resting /\ s.pc \in Ending /\ s.reply = "ok"
  /\ s.call.op = r.call.op /\ s.call.key = r.call.key
  /\ s.call.decision = r.call.decision
  /\ s.snap \in Workflow /\ workflows'[s.snap.id] # None
  /\ Follows(workflows'[s.snap.id], s.snap)
  /\ \/ IsCreated(r, s) \/ IsPlanned(r, s) \/ IsQueued(r, s)
     \/ IsRejected(r, s) \/ IsExecuted(r, s)

IsAudited(r, s) ==
  r.pc = "audit" /\ s.pc = "reply" /\ s.call = r.call /\ s.snap = r.snap
    /\ s.reply = r.reply

IsAnswered(r, s) == r.pc = "reply" /\ s = IdleThread

Turns(r, s) ==
  GoesOn(r, s) \/ GivesUp(r, s) \/ Succeeds(r, s) \/ IsAudited(r, s) \/ IsAnswered(r, s)

(* How the ends of a handler look from outside.                            *)
LEMMA Ends ==
  /\ \A self, w : /\ Answer(self, w).pc = "reply" /\ Answer(self, w).reply = "ok"
                  /\ Answer(self, w).call = self.call /\ Answer(self, w).snap = w
  /\ \A self, error : /\ Raise(self, error).pc = "reply"
                      /\ Raise(self, error).call = self.call
                      /\ Raise(self, error).reply = error
  /\ \A self, w, action, outcome :
       LET s == AuditThen(Answer(self, w), action, outcome)
       IN s.pc = "audit" /\ s.reply = "ok" /\ s.call = self.call /\ s.snap = w
  /\ \A self, error, action, outcome :
       LET s == AuditThen(Raise(self, error), action, outcome)
       IN s.pc = "audit" /\ s.reply = error /\ s.call = self.call
BY DEF Answer, Raise, AuditThen, IdleThread

LEMMA RaisesGivesUp ==
  ASSUME NEW r, r.pc \notin Resting, NEW error, error # "ok"
  PROVE  /\ GivesUp(r, Raise(r, error))
         /\ \A action, outcome : GivesUp(r, AuditThen(Raise(r, error), action, outcome))
BY Ends DEF GivesUp, Ending

(* What is in a handler's hands while it works.                            *)
LEMMA InHand ==
  ASSUME ServiceInv, NEW t \in Threads
  PROVE  LET r == thread[t]
         IN /\ r \in ThreadState /\ Shape(r) /\ Frame(r)
            /\ r.pc \in HoldsSnap =>
                 /\ r.snap \in Workflow /\ r.snap.id \in WorkflowIds
                 /\ workflows[r.snap.id] # None /\ Follows(workflows[r.snap.id], r.snap)
BY DEF ServiceInv, TypeInv, TypeOK, AuthorisationInv, QueueInv, Shape, Knows, Workflow

(* A write that succeeds stores what the handler goes on with.             *)
LEMMA Stored ==
  ASSUME ServiceInv, NEW t \in Threads, NEW new \in Workflow, NEW next,
         Update(t, new, next), Becomes(t, next), next # Raise(thread[t], "InvalidWorkflowState")
  PROVE  workflows'[new.id] = new /\ workflows'[new.id] # None /\ Follows(new, new)
<1>1. workflows' = [workflows EXCEPT ![new.id] = new]
  <2>1. thread'[t] = next
    BY BecomesAt DEF ServiceInv
  <2>2. ~Becomes(t, Raise(thread[t], "InvalidWorkflowState"))
    BY <2>1, BecomesAt DEF ServiceInv
  <2> QED BY <2>2 DEF Update
<1>2. new.id \in WorkflowIds /\ new # None
  BY NoneAssumption DEF Workflow
<1> QED BY <1>1, <1>2, FollowsItself DEF ServiceInv, TypeInv, TypeOK

LEMMA PlanTurns ==
  ASSUME ServiceInv, NEW t \in Threads, PlanPolicy(t) \/ PlanClock(t) \/ PlanStore(t)
  PROVE  Turns(thread[t], thread'[t])
<1> DEFINE r == thread[t]
<1>1. r \in ThreadState /\ r.pc \in PlanPoints
  BY InHand DEF PlanPolicy, PlanClock, PlanStore, ReadClock, PlanPoints
<1>2. /\ r.pc \notin Resting \cup {"create_store", "decide_requeue"}
      /\ r.pc \in HoldsSnap
  BY <1>1 DEF PlanPoints, Resting, Ending, HoldsSnap
<1>3. \A pc \in {"plan_clock", "plan_store"} :
        /\ pc \in PlanPoints /\ pc \notin {"task_complete", "task_done"}
        /\ pc \notin Resting \cup {"create_store", "decide_requeue"}
  BY DEF PlanPoints, Resting, Ending
<1>4. CASE PlanPolicy(t)
  <2> DEFINE next == [r EXCEPT !.pc = "plan_clock"]
  <2>1. next.pc = "plan_clock" /\ next.call = r.call /\ next.snap = r.snap
    BY <1>1 DEF ThreadState
  <2>2. \/ thread'[t] = next
        \/ GivesUp(r, thread'[t])
    <3>1. \/ Becomes(t, Raise(r, "DataProcessingDenied"))
          \/ Becomes(t, AuditThen(Raise(r, "PromptInjectionRejected"),
                                  "guardrail.input", "blocked"))
          \/ Becomes(t, AuditThen(Raise(r, "EvaluationGateRejected"),
                                  "evaluation.planning_gate", "failed"))
          \/ Becomes(t, next)
      BY <1>4 DEF PlanPolicy
    <3> HIDE DEF next
    <3> QED BY <1>2, <3>1, BecomesAt, RaisesGivesUp DEF ServiceInv
  <2> HIDE DEF next
  <2> QED BY <1>1, <1>2, <1>3, <2>1, <2>2 DEF Turns, GoesOn
<1>5. CASE PlanClock(t)
  <2> DEFINE next == [r EXCEPT !.at = clock, !.pc = "plan_store"]
  <2>1. next.pc = "plan_store" /\ next.call = r.call /\ next.snap = r.snap
    BY <1>1 DEF ThreadState
  <2>2. thread'[t] = next
    BY <1>5, BecomesAt DEF PlanClock, ReadClock, ServiceInv
  <2> HIDE DEF next
  <2> QED BY <1>1, <1>2, <1>3, <2>1, <2>2 DEF Turns, GoesOn
<1>6. CASE PlanStore(t)
  <2> DEFINE proposal == CreateToolProposal(r.snap, r.at)
             new == ApplyPlanningResult(r.snap, proposal)
             next == AuditThen(Answer(r, new), "workflow.plan", "evaluated")
  <2>1. r.pc = "plan_store" /\ r.snap \in Workflow /\ r.at \in Nat
    BY <1>1, <1>2, <1>6, InHand DEF PlanStore, ThreadState
  <2>2. new \in Workflow /\ new.id = r.snap.id /\ new.status = "awaiting_approval"
    BY <2>1, ProposalType, PlannedFields
  <2> HIDE DEF new
  <2>3. next.pc = "audit" /\ next.reply = "ok" /\ next.call = r.call /\ next.snap = new
    BY Ends
  <2>4. Update(t, new, next)
    BY <1>6 DEF PlanStore, new
  <2> HIDE DEF next
  <2>5. CASE Becomes(t, next)
    <3>1. next # Raise(r, "InvalidWorkflowState")
      BY <2>3, Ends
    <3>2. workflows'[new.id] = new /\ workflows'[new.id] # None /\ Follows(new, new)
      BY <2>2, <2>4, <2>5, <3>1, Stored
    <3>3. thread'[t] = next
      BY <2>5, BecomesAt DEF ServiceInv
    <3> QED BY <1>2, <2>1, <2>2, <2>3, <3>2, <3>3 DEF Turns, Succeeds, IsPlanned, Ending
  <2>6. CASE Becomes(t, Raise(r, "InvalidWorkflowState"))
    BY <1>2, <2>6, BecomesAt, RaisesGivesUp DEF Turns, ServiceInv
  <2> QED BY <2>4, <2>5, <2>6 DEF Update
<1> QED BY <1>4, <1>5, <1>6

LEMMA CreateTurns ==
  ASSUME ServiceInv, NEW t \in Threads, CreateStore(t)
  PROVE  Turns(thread[t], thread'[t])
<1> DEFINE r == thread[t]
           call == r.call
           new == Receive(call.id, call.by, call.request, call.context)
           seen == Known(call)
           ended(x) == [Answer(r, x) EXCEPT !.call.id = x.id]
           next(x) == AuditThen(ended(x), "workflow.create", "accepted")
<1>1. /\ r \in ThreadState /\ r.pc = "create_store" /\ r.call \in CallFrame
      /\ call.id \in WorkflowIds /\ call.by \in Principals /\ call.key \in Keys
      /\ call.request \in Requests /\ call.context \in Contexts
  BY InHand DEF CreateStore, Shape, ThreadState
<1>2. r.pc \notin Resting
  BY <1>1 DEF Resting, Ending
<1>3. ASSUME NEW x
      PROVE  /\ next(x).pc = "audit" /\ next(x).reply = "ok" /\ next(x).snap = x
             /\ next(x).call = [call EXCEPT !.id = x.id]
  BY DEF AuditThen, Answer, IdleThread
<1> HIDE DEF next
<1>4. ASSUME NEW x
      PROVE  /\ next(x).call.op = call.op /\ next(x).call.key = call.key
             /\ next(x).call.decision = call.decision /\ next(x).call.id = x.id
  <2>1. \A c \in CallFrame : \A id :
          LET n == [c EXCEPT !.id = id]
          IN n.op = c.op /\ n.key = c.key /\ n.decision = c.decision /\ n.id = id
    BY DEF CallFrame
  <2>2. next(x).call = [call EXCEPT !.id = x.id]
    BY <1>3
  <2> QED BY <1>1, <2>1, <2>2
<1>7. ASSUME NEW x, x \in Workflow, workflows'[x.id] # None, Follows(workflows'[x.id], x),
             seen = None => x.id = call.id /\ workflows'[x.id].proposal = None
      PROVE  Turns(r, next(x))
  <2>1. next(x).snap = x /\ next(x).call.id = x.id
    BY <1>3, <1>4
  <2>3. IsCreated(r, next(x))
    BY <1>1, <1>7, <2>1 DEF IsCreated
  <2>2. Succeeds(r, next(x))
    BY <1>2, <1>3, <1>4, <1>7, <2>1, <2>3 DEF Succeeds, Ending
  <2> QED BY <2>2 DEF Turns
<1>5. CASE seen # None
  <2>1. seen \in WorkflowIds /\ workflows[seen] # None
    BY <1>1, <1>5 DEF ServiceInv, TypeInv, TypeOK, KeysResolve, Known
  <2>2. /\ workflows[seen] \in Workflow /\ workflows[seen].id = seen
        /\ Follows(workflows[seen], workflows[seen])
    BY <2>1, FollowsItself DEF ServiceInv, TypeInv, TypeOK
  <2>3. workflows' = workflows
    BY <1>5 DEF CreateStore
  <2>4. \/ Becomes(t, next(workflows[seen]))
        \/ Becomes(t, Raise(r, "IdempotencyConflict"))
    BY <1>5 DEF CreateStore, next
  <2>5. CASE Becomes(t, next(workflows[seen]))
    <3>1. thread'[t] = next(workflows[seen])
      BY <2>5, BecomesAt DEF ServiceInv
    <3> QED BY <1>5, <1>7, <2>1, <2>2, <2>3, <3>1
  <2>6. CASE Becomes(t, Raise(r, "IdempotencyConflict"))
    BY <1>2, <2>6, BecomesAt, RaisesGivesUp DEF Turns, ServiceInv
  <2> QED BY <2>4, <2>5, <2>6
<1>6. CASE seen = None
  <2>1. /\ new \in Workflow /\ new.id = call.id /\ new # None
        /\ Follows(new, new)
    BY <1>1, ReceiveType, FollowsItself, NoneAssumption
  <2>5. new.proposal = None
    BY DEF Receive
  <2>2. workflows'[call.id] = new
    BY <1>1, <1>6 DEF CreateStore, ServiceInv, TypeInv, TypeOK
  <2>3. Becomes(t, next(new))
    BY <1>6 DEF CreateStore, next
  <2> HIDE DEF new
  <2>4. thread'[t] = next(new)
    BY <2>3, BecomesAt DEF ServiceInv
  <2> QED BY <1>7, <2>1, <2>2, <2>4, <2>5
<1> QED BY <1>5, <1>6, SMTT(20)

(* After an enqueue that succeeds the task is in the queue.                *)
LEMMA EnqueueTurns ==
  ASSUME ServiceInv, ServiceInv', NEW t \in Threads, DecideRequeue(t) \/ DecideEnqueue(t)
  PROVE  /\ Turns(thread[t], thread'[t])
         /\ thread[t].pc = "decide_requeue" =>
              /\ thread'[t].reply = "ok" /\ thread'[t].snap = thread[t].snap
              /\ thread'[t].pc \in Ending
<1> DEFINE r == thread[t]
           w == r.snap.id
           task == CreateExecutionTask(r.snap)
           plain == Answer(r, r.snap)
           audited == AuditThen(plain, "workflow.approval", "approved")
<1>1. /\ r.pc \in {"decide_requeue", "decide_enqueue"} /\ r.pc \in Deciding
      /\ r.pc \in HoldsSnap /\ r.pc \notin Resting /\ workflows' = workflows
  BY DEF DecideRequeue, DecideEnqueue, Deciding, HoldsSnap, Resting, Ending
<1>2. /\ r.snap \in Workflow /\ w \in WorkflowIds /\ r.snap.proposal \in Proposal
      /\ workflows[w] # None /\ Follows(workflows[w], r.snap) /\ Legal(r.snap)
  BY <1>1, InHand DEF Shape, ServiceInv, AuthorisationInv, Knows
<1>3. task \in Task /\ task.workflow = w /\ task.digest = r.snap.proposal.digest
  BY <1>2, TaskType DEF CreateExecutionTask
<1>4. r.snap.proposal # None /\ task.digest = <<w, workflows[w].request>>
  BY <1>2, <1>3, NoneAssumption DEF Legal, Follows
<1>5. tasks[w] # None => tasks[w].digest = task.digest
  BY <1>2, <1>4 DEF ServiceInv, QueueInv, TasksAreQueued
<1> HIDE DEF task
<1>6. /\ plain.reply = "ok" /\ plain.call = r.call /\ plain.snap = r.snap
      /\ plain.pc \in Ending /\ audited.pc \in Ending
      /\ audited.reply = "ok" /\ audited.call = r.call /\ audited.snap = r.snap
  BY Ends DEF Ending
<1> HIDE DEF plain, audited
<1>7. \E next \in {plain, audited} : Enqueue(t, task, next)
  BY DEF DecideRequeue, DecideEnqueue, plain, audited, task
<1>8. PICK next \in {plain, audited} : Enqueue(t, task, next)
  BY <1>7
<1>9. Becomes(t, next) /\ tasks'[w] # None
  <2>1. CASE tasks[w] = None
    <3>1. tasks' = [tasks EXCEPT ![w] = task] /\ Becomes(t, next)
      BY <1>3, <1>8, <2>1 DEF Enqueue
    <3>2. tasks'[w] = task /\ task # None
      BY <1>2, <1>3, <3>1, NoneAssumption DEF ServiceInv, TypeInv, TypeOK
    <3> QED BY <3>1, <3>2
  <2>2. CASE tasks[w] # None
    BY <1>3, <1>5, <1>8, <2>2 DEF Enqueue
  <2> QED BY <2>1, <2>2
<1>10. IsListed(w)
  <2>1. \A v \in WorkflowIds : tasks'[v] # None => IsListed(v)
    BY DEF ServiceInv, QueueInv, TasksAreQueued, Queued, IsListed
  <2> QED BY <1>2, <1>9, <2>1
<1>11. thread'[t] = next
  BY <1>9, BecomesAt DEF ServiceInv
<1>12. next.reply = "ok" /\ next.call = r.call /\ next.snap = r.snap /\ next.pc \in Ending
  BY <1>6
<1>13. IsQueued(r, next)
  BY <1>1, <1>10, <1>12 DEF IsQueued
<1>14. Succeeds(r, next)
  BY <1>1, <1>2, <1>12, <1>13 DEF Succeeds
<1> QED BY <1>11, <1>12, <1>14 DEF Turns

LEMMA DecideTurns ==
  ASSUME ServiceInv, NEW t \in Threads, DecideClock(t) \/ DecideExpire(t) \/ DecideStore(t)
  PROVE  Turns(thread[t], thread'[t])
<1> DEFINE r == thread[t]
<1>1. /\ r \in ThreadState /\ r.pc \in {"decide_clock", "decide_store"}
      /\ r.pc \in HoldsSnap
  BY InHand DEF DecideClock, DecideExpire, DecideStore, ReadClock, HoldsSnap, Deciding
<1>2. r.pc \notin Resting \cup {"create_store", "decide_requeue"}
  BY <1>1 DEF Resting, Ending
<1>3. \A pc \in {"decide_store", "decide_enqueue"} :
        /\ pc \notin PlanPoints /\ pc \notin {"task_complete", "task_done"}
        /\ pc \notin Resting \cup {"create_store", "decide_requeue"}
  BY DEF PlanPoints, Resting, Ending
<1>4. ASSUME Becomes(t, Raise(r, "InvalidWorkflowState")) PROVE Turns(r, thread'[t])
  BY <1>2, <1>4, BecomesAt, RaisesGivesUp DEF Turns, ServiceInv
<1>5. CASE DecideClock(t)
  <2> DEFINE next == [r EXCEPT !.at = clock, !.pc = "decide_store"]
  <2>1. next.pc = "decide_store" /\ next.call = r.call
    BY <1>1 DEF ThreadState
  <2>2. thread'[t] = next
    BY <1>5, BecomesAt DEF DecideClock, ReadClock, ServiceInv
  <2> HIDE DEF next
  <2> QED BY <1>2, <1>3, <2>1, <2>2 DEF Turns, GoesOn
<1>6. CASE DecideExpire(t)
  <2> DEFINE next == AuditThen(Raise(r, "ApprovalExpired"), "workflow.approval", "expired")
  <2>1. Becomes(t, next) \/ Becomes(t, Raise(r, "InvalidWorkflowState"))
    BY <1>6, UpdateBecomes DEF DecideExpire
  <2>2. CASE Becomes(t, next)
    BY <1>2, <2>2, BecomesAt, RaisesGivesUp DEF Turns, ServiceInv
  <2> QED BY <1>4, <2>1, <2>2
<1>7. CASE DecideStore(t)
  <2> DEFINE call == r.call
             made == CreateApprovalDecision(r.snap.proposal, call.by,
                                            call.decision, call.key, r.at)
             new == RecordApproval(r.snap, made)
             onward == [r EXCEPT !.pc = "decide_enqueue", !.snap = new]
             closed == AuditThen(Answer(r, new), "workflow.approval", call.decision)
             next == IF NeedsTask(call.decision) THEN onward ELSE closed
  <2>1. /\ r.pc = "decide_store" /\ r.snap \in Workflow /\ r.at \in Nat
        /\ r.snap.proposal \in Proposal
        /\ call.by \in Principals /\ call.key \in Keys /\ call.decision \in Decision
    BY <1>1, <1>7, InHand DEF DecideStore, Shape, Deciding, ThreadState
  <2>2. made \in Approval /\ made.decision = call.decision
    BY <2>1, ApprovalType DEF CreateApprovalDecision
  <2>3. new \in Workflow /\ new.id = r.snap.id /\ new.status = call.decision
    BY <2>1, <2>2, DecidedFields
  <2> HIDE DEF made, new
  <2>4. onward.pc = "decide_enqueue" /\ onward.call = call
    BY <1>1 DEF ThreadState
  <2>5. /\ closed.pc \in Ending /\ closed.reply = "ok" /\ closed.call = call
        /\ closed.snap = new
    BY Ends DEF Ending
  <2> HIDE DEF onward, closed
  <2>6. Update(t, new, next)
    BY <1>7 DEF DecideStore, new, made, onward, closed
  <2>7. Becomes(t, next) \/ Becomes(t, Raise(r, "InvalidWorkflowState"))
    BY <2>6, UpdateBecomes
  <2>8. CASE NeedsTask(call.decision) /\ Becomes(t, onward)
    <3>1. thread'[t] = onward
      BY <2>8, BecomesAt DEF ServiceInv
    <3> QED BY <1>2, <1>3, <2>4, <3>1 DEF Turns, GoesOn
  <2>9. CASE ~NeedsTask(call.decision) /\ Becomes(t, closed)
    <3>1. closed # Raise(r, "InvalidWorkflowState")
      BY <2>5, Ends
    <3>2. Update(t, new, closed)
      BY <2>6, <2>9
    <3>3. workflows'[new.id] = new /\ workflows'[new.id] # None /\ Follows(new, new)
      BY <2>3, <2>9, <3>1, <3>2, Stored
    <3>4. thread'[t] = closed
      BY <2>9, BecomesAt DEF ServiceInv
    <3>5. IsRejected(r, closed)
      BY <2>1, <2>3, <2>5, <2>9 DEF IsRejected, NeedsTask
    <3>6. Succeeds(r, closed)
      BY <1>2, <2>3, <2>5, <3>3, <3>5 DEF Succeeds
    <3> QED BY <3>4, <3>6 DEF Turns
  <2> QED BY <1>4, <2>7, <2>8, <2>9
<1> QED BY <1>5, <1>6, <1>7

LEMMA TaskTurns ==
  ASSUME ServiceInv, NEW t \in Threads,
         \/ TaskLoad(t) \/ TaskClock(t) \/ TaskExpire(t) \/ TaskPolicy(t)
         \/ TaskBegin(t) \/ TaskExecute(t) \/ TaskStore(t)
  PROVE  Turns(thread[t], thread'[t])
<1> DEFINE r == thread[t]
           working == {"task_clock", "task_expire", "task_discard", "task_policy",
                       "task_begin", "task_execute", "task_store"}
<1>1. /\ r \in ThreadState /\ r.pc \in working \cup {"task_load"}
      /\ r.pc \notin Resting \cup {"create_store", "decide_requeue"}
  BY InHand, Zenon DEF TaskLoad, TaskClock, TaskExpire, TaskPolicy, TaskBegin, TaskExecute,
                TaskStore, Resting, Ending
<1>2. \A pc \in working \cup {"task_complete", "task_done"} :
        /\ pc \notin Resting \cup {"create_store", "decide_requeue"}
        /\ pc \notin PlanPoints
  BY DEF PlanPoints, Resting, Ending
<1>3. ASSUME NEW error, error # "ok", Becomes(t, Raise(r, error))
      PROVE  Turns(r, thread'[t])
  BY <1>1, <1>3, BecomesAt, RaisesGivesUp DEF Turns, ServiceInv
<1>4. ASSUME NEW s, s.pc \in working, s.call = r.call, Becomes(t, s)
      PROVE  Turns(r, thread'[t])
  BY <1>1, <1>2, <1>4, BecomesAt DEF Turns, GoesOn, ServiceInv
<1>5. ASSUME NEW s, s.pc \in {"task_complete", "task_done"}, s.call = r.call,
             s.snap.id = s.task.workflow, Becomes(t, s)
      PROVE  Turns(r, thread'[t])
  BY <1>1, <1>2, <1>5, BecomesAt DEF Turns, GoesOn, ServiceInv
<1>6. CASE TaskLoad(t)
  <2> DEFINE found == workflows[r.task.workflow]
             loaded(pc) == [r EXCEPT !.pc = pc, !.snap = found]
  <2>1. r.task.workflow \in WorkflowIds
    BY <1>6, InHand, Zenon DEF TaskLoad, Shape, HoldsTask, Task
  <2>2. \/ \E error : error # "ok" /\ Becomes(t, Raise(r, error))
        \/ Becomes(t, loaded("task_clock"))
        \/ found # None /\ Becomes(t, loaded("task_done"))
    <3>1. \/ Becomes(t, Raise(r, "WorkflowNotFound"))
          \/ Becomes(t, Raise(r, "IdempotencyConflict"))
          \/ Becomes(t, Raise(r, "InvalidWorkflowState"))
          \/ Becomes(t, loaded("task_clock"))
          \/ found # None /\ Becomes(t, loaded("task_done"))
      BY <1>6 DEF TaskLoad
    <3> HIDE DEF loaded, found
    <3> QED BY <3>1
  <2>3. \A pc : /\ loaded(pc).pc = pc /\ loaded(pc).call = r.call
                /\ loaded(pc).task = r.task /\ loaded(pc).snap = found
    BY <1>1 DEF ThreadState
  <2>4. found # None => found.id = r.task.workflow
    BY <2>1 DEF ServiceInv, TypeInv, TypeOK
  <2> HIDE DEF loaded, found
  <2> QED BY <1>3, <1>4, <1>5, <2>2, <2>3, <2>4
<1>7. CASE TaskClock(t)
  <2> DEFINE read(pc) == [[r EXCEPT !.at = clock] EXCEPT !.pc = pc]
  <2>1. \/ Becomes(t, Raise(r, "InvalidWorkflowState"))
        \/ \E pc \in {"task_expire", "task_policy", "task_execute"} : Becomes(t, read(pc))
    BY <1>7 DEF TaskClock
  <2>2. \A pc : read(pc).pc = pc /\ read(pc).call = r.call
    BY <1>1 DEF ThreadState
  <2> HIDE DEF read
  <2>3. ASSUME NEW pc \in {"task_expire", "task_policy", "task_execute"}, Becomes(t, read(pc))
        PROVE  Turns(r, thread'[t])
    BY <1>4, <2>2, <2>3
  <2> QED BY <1>3, <2>1, <2>3
<1>8. CASE TaskExpire(t)
  <2> DEFINE next == [r EXCEPT !.pc = "task_discard"]
  <2>1. Becomes(t, next) \/ Becomes(t, Raise(r, "InvalidWorkflowState"))
    BY <1>8, UpdateBecomes DEF TaskExpire
  <2>2. next.pc = "task_discard" /\ next.call = r.call
    BY <1>1 DEF ThreadState
  <2> HIDE DEF next
  <2> QED BY <1>3, <1>4, <2>1, <2>2
<1>9. CASE TaskPolicy(t)
  <2> DEFINE next == [r EXCEPT !.pc = "task_begin"]
  <2>1. Becomes(t, next) \/ Becomes(t, Raise(r, "DataProcessingDenied"))
    BY <1>9 DEF TaskPolicy
  <2>2. next.pc = "task_begin" /\ next.call = r.call
    BY <1>1 DEF ThreadState
  <2> HIDE DEF next
  <2> QED BY <1>3, <1>4, <2>1, <2>2
<1>10. CASE TaskBegin(t)
  <2> DEFINE begun == BeginExecution(r.snap)
             next == [r EXCEPT !.pc = "task_execute", !.snap = begun]
  <2>1. Becomes(t, next) \/ Becomes(t, Raise(r, "InvalidWorkflowState"))
    BY <1>10, UpdateBecomes DEF TaskBegin
  <2>2. next.pc = "task_execute" /\ next.call = r.call
    BY <1>1 DEF ThreadState
  <2> HIDE DEF next
  <2> QED BY <1>3, <1>4, <2>1, <2>2
<1>11. CASE TaskExecute(t)
  <2> DEFINE next(x) == [r EXCEPT !.pc = "task_store", !.result = x]
  <2>1. (\E x : Becomes(t, next(x))) \/ Becomes(t, Raise(r, "IdempotencyConflict"))
    BY <1>11 DEF TaskExecute
  <2>2. \A x : next(x).pc = "task_store" /\ next(x).call = r.call
    BY <1>1 DEF ThreadState
  <2> HIDE DEF next
  <2>3. ASSUME NEW x, Becomes(t, next(x)) PROVE Turns(r, thread'[t])
    BY <1>4, <2>2, <2>3
  <2> QED BY <1>3, <2>1, <2>3, SMTT(20)
<1>12. CASE TaskStore(t)
  <2> DEFINE done == CompleteExecution(r.snap, r.result)
             next == [r EXCEPT !.pc = "task_complete", !.snap = done]
  <2>1. /\ r.pc \in Executing /\ r.snap \in Workflow /\ r.snap.id = r.task.workflow
        /\ r.snap.approval \in Approval /\ r.result \in Ticket
    BY <1>12 DEF TaskStore, ServiceInv, TypeInv, Shape, HoldsSnap, Executing,
                 AuthorisationInv, Knows
  <2>2. Becomes(t, next) \/ Becomes(t, Raise(r, "InvalidWorkflowState"))
    BY <1>12, UpdateBecomes DEF TaskStore
  <2>3. done.id = r.snap.id
    BY <2>1, CompletedFields
  <2> HIDE DEF done
  <2>4. /\ next.pc = "task_complete" /\ next.call = r.call
        /\ next.task = r.task /\ next.snap = done
    BY <1>1 DEF ThreadState
  <2> HIDE DEF next
  <2> QED BY <1>3, <1>5, <2>1, <2>2, <2>3, <2>4
<1> QED BY <1>6, <1>7, <1>8, <1>9, <1>10, <1>11, <1>12

LEMMA LastTurns ==
  ASSUME ServiceInv, NEW t \in Threads,
         TaskDiscard(t) \/ TaskComplete(t) \/ TaskDone(t) \/ RecordAudit(t) \/ Respond(t)
  PROVE  Turns(thread[t], thread'[t])
<1> DEFINE r == thread[t]
<1>1. r \in ThreadState
  BY InHand
<1>2. CASE TaskDiscard(t)
  <2>1. r.pc \notin Resting
    BY <1>2 DEF TaskDiscard, Resting, Ending
  <2> QED BY <1>2, <2>1, BecomesAt, RaisesGivesUp DEF TaskDiscard, Complete, Turns, ServiceInv
<1>3. CASE TaskComplete(t) \/ TaskDone(t)
  <2> DEFINE plain == Answer(r, r.snap)
             audited == AuditThen(plain, "task.process", "completed")
  <2>1. /\ r.pc \in {"task_complete", "task_done"} /\ r.pc \notin Resting
        /\ r.pc \in HoldsSnap /\ workflows' = workflows
    BY <1>3 DEF TaskComplete, TaskDone, Complete, Resting, Ending, HoldsSnap
  <2>2. /\ r.snap \in Workflow /\ r.snap.id \in WorkflowIds
        /\ workflows[r.snap.id] # None /\ Follows(workflows[r.snap.id], r.snap)
    BY <2>1, InHand
  <2>3. /\ plain.reply = "ok" /\ plain.call = r.call /\ plain.snap = r.snap
        /\ plain.pc \in Ending /\ audited.pc \in Ending
        /\ audited.reply = "ok" /\ audited.call = r.call /\ audited.snap = r.snap
    BY Ends DEF Ending
  <2>4. Becomes(t, plain) \/ Becomes(t, audited)
    BY <1>3 DEF TaskComplete, TaskDone, Complete
  <2> HIDE DEF plain, audited
  <2>5. thread'[t] \in {plain, audited}
    BY <2>4, BecomesAt DEF ServiceInv
  <2>6. PICK s \in {plain, audited} : thread'[t] = s
    BY <2>5
  <2>7. s.reply = "ok" /\ s.call = r.call /\ s.snap = r.snap /\ s.pc \in Ending
    BY <2>3
  <2>8. Succeeds(r, s)
    BY <2>1, <2>2, <2>7 DEF Succeeds, IsExecuted
  <2> QED BY <2>6, <2>8 DEF Turns
<1>4. CASE RecordAudit(t)
  <2> DEFINE next == [r EXCEPT !.pc = "reply", !.event = None]
  <2>1. thread'[t] = next /\ r.pc = "audit"
    BY <1>4, BecomesAt DEF RecordAudit, ServiceInv
  <2>2. /\ next.pc = "reply" /\ next.call = r.call /\ next.snap = r.snap
        /\ next.reply = r.reply
    BY <1>1 DEF ThreadState
  <2> HIDE DEF next
  <2> QED BY <2>1, <2>2 DEF Turns, IsAudited
<1>5. CASE Respond(t)
  BY <1>5, BecomesAt DEF Respond, Turns, IsAnswered, ServiceInv
<1> QED BY <1>2, <1>3, <1>4, <1>5

(* Every step of a called handler is one of the turns, and leaves the      *)
(* other handlers alone.                                                   *)
LEMMA HandlerTurns ==
  ASSUME ServiceInv, ServiceInv', NEW t \in Threads, Step(t)
  PROVE  /\ Turns(thread[t], thread'[t])
         /\ \A u \in Threads : u # t => thread'[u] = thread[u]
         /\ thread[t].pc = "decide_requeue" =>
              /\ thread'[t].reply = "ok" /\ thread'[t].snap = thread[t].snap
              /\ thread'[t].pc \in Ending
<1>1. \A u \in Threads : u # t => thread'[u] = thread[u]
  <2>1. \E s : Becomes(t, s)
    BY SomebodyMoves
  <2> QED BY <2>1, BecomesAt DEF ServiceInv
<1>2. Turns(thread[t], thread'[t])
  BY PlanTurns, CreateTurns, EnqueueTurns, DecideTurns, TaskTurns, LastTurns DEF Step
<1>3. ASSUME thread[t].pc = "decide_requeue"
      PROVE  DecideRequeue(t)
  BY <1>3 DEF Step, CreateStore, PlanPolicy, PlanClock, PlanStore, DecideRequeue,
       DecideClock, ReadClock, DecideExpire, DecideStore, DecideEnqueue, TaskLoad,
       TaskClock, TaskExpire, TaskDiscard, TaskPolicy, TaskBegin, TaskExecute,
       TaskStore, TaskComplete, TaskDone, RecordAudit, Respond
<1> QED BY <1>1, <1>2, <1>3, EnqueueTurns

-----------------------------------------------------------------------------
(* Pages.                                                                  *)

LEMMA Fields ==
  ASSUME NEW page \in PageState
  PROVE  /\ page["submit"] = page.submit /\ page["action"] = page.action
         /\ \A c \in Chain : page[c] \in ChainState
BY DEF PageState, Chain

LEMMA ReplacesChain ==
  ASSUME NEW page \in PageState, NEW c \in Chain, NEW v
  PROVE  LET new == [page EXCEPT ![c] = v]
         IN /\ new[c] = v /\ \A d \in Chain \ {c} : new[d] = page[d]
            /\ new.shown = page.shown /\ new.error = page.error
            /\ v \in ChainState => new \in PageState
<1>1. CASE c = "submit"
  BY <1>1 DEF PageState, Chain
<1>2. CASE c = "action"
  BY <1>2 DEF PageState, Chain
<1> QED BY <1>1, <1>2 DEF Chain

LEMMA RestsTyped ==
  /\ Rests \in ChainState /\ Rests.step = "idle" /\ Rests.on = None
  /\ Rests.again = FALSE /\ Rests.id = None
BY DEF Rests, ChainState, SubmitSteps

(* The moves of one page: what they do to the display and to each chain.   *)

OtherPages(p)     == \A q \in Pages \ {p} : pages'[q] = pages[q]
OtherChains(p, c) == \A d \in Chain \ {c} : pages'[p][d] = pages[p][d]

BeginsSubmit(p) ==
  /\ UNCHANGED service /\ OtherPages(p) /\ OtherChains(p, "submit")
  /\ pages[p]["submit"].step = "idle" /\ pages'[p].shown = None
  /\ \E persona \in Personas :
       pages'[p]["submit"] = [Rests EXCEPT !.step = "create", !.by = persona]

BeginsDecide(p) ==
  /\ UNCHANGED service /\ OtherPages(p) /\ OtherChains(p, "action")
  /\ pages[p]["action"].step = "idle" /\ pages'[p].shown = pages[p].shown
  /\ pages[p].shown # None
  /\ \E reviewer \in Deciders, d \in Decision :
       pages'[p]["action"] = [Rests EXCEPT !.step = "decide", !.by = reviewer,
                                !.decision = d, !.id = pages[p].shown.id]

BeginsProcess(p) ==
  /\ UNCHANGED service /\ OtherPages(p) /\ OtherChains(p, "action")
  /\ pages[p]["action"].step = "idle" /\ pages'[p].shown = pages[p].shown
  /\ pages'[p]["action"] = [Rests EXCEPT !.step = "process", !.by = Operator]

Drops(p, c) ==
  /\ OtherChains(p, c) /\ pages'[p].shown = pages[p].shown /\ pages'[p].error
  /\ pages'[p][c] = Rests

Gives(p, c) ==
  UNCHANGED service /\ OtherPages(p) /\ Drops(p, c)

(* A chain sends its next request, and waits for the handler.              *)
Waiting(p, c, t, from, step) ==
  /\ OtherPages(p) /\ OtherChains(p, c) /\ pages'[p].shown = pages[p].shown
  /\ pages[p][c].step = from
  /\ pages'[p][c] = [pages[p][c] EXCEPT !.step = step, !.on = t]

AsksCreate(p, t)  == SendCreate(p, t) /\ Waiting(p, "submit", t, "create", "creating")
AsksPlan(p, t)    == SendPlan(p, t) /\ Waiting(p, "submit", t, "plan", "planning")
AsksProcess(p, t) == SendProcess(p, t) /\ Waiting(p, "action", t, "process", "processing")

AsksDecide(p, t) ==
  LET chain == pages[p]["action"]
      made  == workflows[chain.id].approval
  IN /\ SendDecide(p, t)
     /\ OtherPages(p) /\ OtherChains(p, "action") /\ pages'[p].shown = pages[p].shown
     /\ chain.step = "decide"
     /\ pages'[p]["action"] =
          [chain EXCEPT !.step = "deciding", !.on = t,
                        !.again = made # None /\ made.decision = chain.decision]

Hears(p, c, t) ==
  /\ Respond(t) /\ pages[p][c].on = t /\ OtherPages(p)
  /\ \/ thread[t].reply # "ok" /\ Drops(p, c)
     \/ /\ thread[t].reply = "ok" /\ pages[p][c].step = "creating"
        /\ OtherChains(p, c) /\ pages'[p].shown = pages[p].shown
        /\ pages'[p][c] = [pages[p][c] EXCEPT !.step = "plan", !.on = None,
                                              !.id = thread[t].snap.id]
     \/ /\ thread[t].reply = "ok" /\ pages[p][c].step # "creating"
        /\ OtherChains(p, c) /\ pages'[p].shown = thread[t].snap
        /\ pages'[p][c] = Rests

Falls(t) ==
  /\ Interrupt(t)
  /\ \A p \in Pages :
       \/ pages'[p] = pages[p] /\ \A c \in Chain : pages[p][c].on # t
       \/ \E c \in Chain : pages[p][c].on = t /\ Drops(p, c)

PageMoves(p) ==
  \/ BeginsSubmit(p) \/ BeginsDecide(p) \/ BeginsProcess(p) \/ \E c \in Chain : Gives(p, c)
  \/ \E t \in Threads :
       \/ AsksCreate(p, t) \/ AsksPlan(p, t) \/ AsksDecide(p, t) \/ AsksProcess(p, t)
       \/ \E c \in Chain : Hears(p, c, t)

LEMMA SetsPage ==
  ASSUME PagesTyped, NEW p \in Pages, NEW page, Sets(p, page)
  PROVE  pages'[p] = page /\ OtherPages(p)
BY DEF PagesTyped, Sets, OtherPages

LEMMA FailsDrops ==
  ASSUME PagesTyped, NEW p \in Pages, NEW c \in Chain, pages'[p] = Fails(pages[p], c)
  PROVE  Drops(p, c)
<1>1. pages[p] \in PageState
  BY DEF PagesTyped
<1>2. ASSUME NEW page \in PageState
      PROVE  LET new == Fails(page, c)
             IN /\ new[c] = Rests /\ \A d \in Chain \ {c} : new[d] = page[d]
                /\ new.shown = page.shown /\ new.error = TRUE
  <2>1. CASE c = "submit"
    BY <2>1 DEF PageState, Chain, Fails
  <2>2. CASE c = "action"
    BY <2>2 DEF PageState, Chain, Fails
  <2> QED BY <2>1, <2>2 DEF Chain
<1> QED BY <1>1, <1>2 DEF Drops, OtherChains

LEMMA WaitsWaiting ==
  ASSUME PagesTyped, NEW p \in Pages, NEW t, NEW c \in Chain, NEW from, NEW step,
         pages[p][c].step = from, Waits(p, c, t, step)
  PROVE  Waiting(p, c, t, from, step)
<1> DEFINE chain == [pages[p][c] EXCEPT !.step = step, !.on = t]
<1>1. pages[p] \in PageState /\ pages[p][c] \in ChainState
  BY Fields DEF PagesTyped
<1>2. \A page \in PageState : page[c] \in ChainState =>
        [page EXCEPT ![c].step = step, ![c].on = t]
          = [page EXCEPT ![c] = [page[c] EXCEPT !.step = step, !.on = t]]
  <2>1. CASE c = "submit"
    BY <2>1 DEF PageState, ChainState, Chain
  <2>2. CASE c = "action"
    BY <2>2 DEF PageState, ChainState, Chain
  <2> QED BY <2>1, <2>2 DEF Chain
<1>3. pages'[p] = [pages[p] EXCEPT ![c] = chain] /\ OtherPages(p)
  BY <1>1, <1>2, SetsPage DEF Waits
<1> HIDE DEF chain
<1>4. pages'[p][c] = chain /\ OtherChains(p, c) /\ pages'[p].shown = pages[p].shown
  BY <1>1, <1>3, ReplacesChain, SMTT(30) DEF OtherChains
<1> QED BY <1>3, <1>4 DEF Waiting, chain

LEMMA PagesMove ==
  ASSUME PagesTyped, NEW p \in Pages, PageStep(p)
  PROVE  PageMoves(p)
<1> DEFINE page == pages[p]
<1>1. /\ page \in PageState /\ page["submit"] = page.submit
      /\ page["action"] = page.action /\ {"submit", "action"} = Chain
  BY Fields DEF PagesTyped, Chain
<1>2. CASE Submit(p)
  <2>1. PICK persona \in Personas :
          Sets(p, [page EXCEPT !.shown = None, !.error = FALSE,
                     !.submit = [Rests EXCEPT !.step = "create", !.by = persona]])
    BY <1>2 DEF Submit
  <2> DEFINE chain == [Rests EXCEPT !.step = "create", !.by = persona]
             new == [page EXCEPT !.shown = None, !.error = FALSE, !.submit = chain]
  <2>2. pages'[p] = new /\ OtherPages(p)
    BY <2>1, SetsPage
  <2> HIDE DEF chain
  <2>3. new.shown = None /\ new["submit"] = chain /\ new["action"] = page["action"]
    BY <1>1 DEF PageState
  <2> HIDE DEF new
  <2> QED BY <1>1, <1>2, <2>2, <2>3
          DEF Submit, PageMoves, BeginsSubmit, OtherChains, Chain, chain
<1>3. CASE PressDecide(p)
  <2>1. PICK reviewer \in Deciders, d \in Decision :
          Press(p, [Rests EXCEPT !.step = "decide", !.by = reviewer, !.decision = d,
                                 !.id = page.shown.id])
    BY <1>3 DEF PressDecide
  <2> DEFINE chain == [Rests EXCEPT !.step = "decide", !.by = reviewer, !.decision = d,
                                    !.id = page.shown.id]
             new == [page EXCEPT !.error = FALSE, !.action = chain]
  <2>2. /\ pages'[p] = new /\ OtherPages(p) /\ page.action.step = "idle"
        /\ UNCHANGED service /\ page.shown # None
    BY <1>3, <2>1, SetsPage DEF Press, PressDecide, Shows
  <2> HIDE DEF chain
  <2>3. new.shown = page.shown /\ new["action"] = chain /\ new["submit"] = page["submit"]
    BY <1>1 DEF PageState
  <2> HIDE DEF new
  <2>4. BeginsDecide(p)
    BY <1>1, <2>2, <2>3 DEF BeginsDecide, OtherChains, Chain, chain
  <2> QED BY <2>4 DEF PageMoves
<1>4. CASE PressProcess(p)
  <2> DEFINE chain == [Rests EXCEPT !.step = "process", !.by = Operator]
             new == [page EXCEPT !.error = FALSE, !.action = chain]
  <2>2. /\ pages'[p] = new /\ OtherPages(p) /\ page.action.step = "idle"
        /\ UNCHANGED service
    BY <1>4, SetsPage DEF Press, PressProcess
  <2> HIDE DEF chain
  <2>3. new.shown = page.shown /\ new["action"] = chain /\ new["submit"] = page["submit"]
    BY <1>1 DEF PageState
  <2> HIDE DEF new
  <2>4. BeginsProcess(p)
    BY <1>1, <2>2, <2>3 DEF BeginsProcess, OtherChains, Chain, chain
  <2> QED BY <2>4 DEF PageMoves
<1>5. ASSUME NEW c \in Chain, Loses(p, c) PROVE Gives(p, c)
  BY <1>5, SetsPage, FailsDrops DEF Loses, Gives
<1>6. ASSUME NEW t \in Threads, SendCreate(p, t) PROVE AsksCreate(p, t)
  BY <1>1, <1>6, WaitsWaiting DEF SendCreate, AsksCreate
<1>7. ASSUME NEW t \in Threads, SendPlan(p, t) PROVE AsksPlan(p, t)
  BY <1>1, <1>7, WaitsWaiting DEF SendPlan, AsksPlan
<1>8. ASSUME NEW t \in Threads, SendProcess(p, t) PROVE AsksProcess(p, t)
  BY <1>1, <1>8, WaitsWaiting DEF SendProcess, AsksProcess
<1>9. ASSUME NEW t \in Threads, SendDecide(p, t) PROVE AsksDecide(p, t)
  <2> DEFINE made == workflows[page.action.id].approval
             again == made # None /\ made.decision = page.action.decision
             chain == [page.action EXCEPT !.step = "deciding", !.on = t, !.again = again]
             new == [page EXCEPT !.action = chain]
  <2>1. Sets(p, [page EXCEPT !.action.step = "deciding", !.action.on = t,
                             !.action.again = again])
        /\ page.action.step = "decide"
    BY <1>9 DEF SendDecide
  <2> HIDE DEF again
  <2>2. [page EXCEPT !.action.step = "deciding", !.action.on = t,
                     !.action.again = again] = new
    BY <1>1 DEF PageState, ChainState
  <2>3. pages'[p] = new /\ OtherPages(p)
    BY <2>1, <2>2, SetsPage
  <2> HIDE DEF chain
  <2>4. new.shown = page.shown /\ new["action"] = chain /\ new["submit"] = page["submit"]
    BY <1>1 DEF PageState
  <2> HIDE DEF new
  <2> QED BY <1>1, <1>9, <2>1, <2>3, <2>4
          DEF AsksDecide, OtherChains, Chain, chain, again
<1>10. ASSUME NEW t \in Threads, NEW c \in Chain, Receives(p, c, t) PROVE Hears(p, c, t)
  <2>1. Respond(t) /\ page[c].on = t
    BY <1>10 DEF Receives, Awaits
  <2>2. CASE thread[t].reply # "ok"
    BY <1>10, <2>1, <2>2, SetsPage, FailsDrops DEF Receives, Hears
  <2>3. CASE thread[t].reply = "ok" /\ page[c].step = "creating"
    <3> DEFINE id == thread[t].snap.id
               chain == [page[c] EXCEPT !.step = "plan", !.on = None, !.id = id]
    <3>1. Sets(p, [page EXCEPT ![c].step = "plan", ![c].on = None, ![c].id = id])
      BY <1>10, <2>3 DEF Receives
    <3> HIDE DEF id
    <3>2. [page EXCEPT ![c].step = "plan", ![c].on = None, ![c].id = id]
            = [page EXCEPT ![c] = chain]
      <4>1. CASE c = "submit"
        BY <1>1, <4>1 DEF PageState, ChainState, Chain
      <4>2. CASE c = "action"
        BY <1>1, <4>2 DEF PageState, ChainState, Chain
      <4> QED BY <4>1, <4>2 DEF Chain
    <3>3. pages'[p] = [page EXCEPT ![c] = chain] /\ OtherPages(p)
      BY <3>1, <3>2, SetsPage
    <3> HIDE DEF chain
    <3>4. pages'[p][c] = chain /\ OtherChains(p, c) /\ pages'[p].shown = page.shown
      BY <1>1, <3>3, ReplacesChain DEF OtherChains
    <3> QED BY <2>1, <2>3, <3>3, <3>4 DEF Hears, chain, id
  <2>4. CASE thread[t].reply = "ok" /\ page[c].step # "creating"
    <3> DEFINE chained == [page EXCEPT ![c] = Rests]
    <3>1. Sets(p, ShowsReply(chained, thread[t]))
      BY <1>10, <2>4 DEF Receives
    <3>2. /\ chained[c] = Rests /\ \A d \in Chain \ {c} : chained[d] = page[d]
          /\ chained \in PageState
      BY <1>1, ReplacesChain, RestsTyped
    <3> HIDE DEF chained
    <3> DEFINE new == [chained EXCEPT !.shown = thread[t].snap]
    <3>3. pages'[p] = new /\ OtherPages(p)
      BY <3>1, SetsPage DEF ShowsReply
    <3>4. new.shown = thread[t].snap /\ \A d \in Chain : new[d] = chained[d]
      BY <3>2 DEF PageState, Chain
    <3> HIDE DEF new
    <3> QED BY <2>1, <2>4, <3>2, <3>3, <3>4 DEF Hears, OtherChains
  <2> QED BY <2>2, <2>3, <2>4
<1> QED BY <1>2, <1>3, <1>4, <1>5, <1>6, <1>7, <1>8, <1>9, <1>10 DEF PageStep, PageMoves

-----------------------------------------------------------------------------
(* What a handler holds right after a page called it.                      *)

Calls(t) ==
  /\ thread[t].pc = "idle" /\ UNCHANGED <<workflows, idempotency, order>>
  /\ \A u \in Threads : u # t => thread'[u] = thread[u]

Failed(s) == s.pc \in Ending /\ s.reply # "ok"

LEMMA CreateCalls ==
  ASSUME ServiceInv, NEW p, NEW t \in Threads, AsksCreate(p, t)
  PROVE  LET s == thread'[t]
         IN /\ Calls(t) /\ s.call.op = "create"
            /\ s.call.id \in WorkflowIds => FreshId(s.call.id)
            /\ \/ Failed(s)
               \/ s.pc = "create_store" /\ FreshKey(s.call.key)
<1> DEFINE s == thread'[t]
<1>1. /\ CreateIntake(t) \/ CreateRefused(t)
      /\ s.call.key # None => FreshKey(s.call.key)
  BY DEF AsksCreate, SendCreate
<1>2. CASE CreateRefused(t)
  <2>1. PICK by \in Principals :
          Refuse(t, [NoCall EXCEPT !.op = "create", !.by = by], "workflow.create")
    BY <1>2 DEF CreateRefused
  <2> DEFINE call == [NoCall EXCEPT !.op = "create", !.by = by]
  <2>2. call.op = "create" /\ call.id = None
    BY DEF NoCall
  <2> HIDE DEF call
  <2>3. Becomes(t, Raise([IdleThread EXCEPT !.call = call], "PermissionDenied"))
    BY <2>1 DEF Refuse, call
  <2>4. s = Raise([IdleThread EXCEPT !.call = call], "PermissionDenied")
        /\ \A u \in Threads : u # t => thread'[u] = thread[u]
    BY <2>3, BecomesAt DEF ServiceInv
  <2>5. s.call = call /\ s.pc = "reply" /\ s.reply = "PermissionDenied"
    BY <2>4 DEF Raise, IdleThread
  <2>6. Calls(t)
    BY <1>2, <2>4 DEF Calls, CreateRefused, Begins, queue
  <2> QED BY <2>2, <2>5, <2>6, NoneAssumption DEF Failed, Ending
<1>3. CASE CreateIntake(t)
  <2>1. PICK by \in Principals, w \in WorkflowIds, r \in Requests, c \in Contexts,
             k \in Keys :
          LET call == CreateCall(by, w, r, c, k)
              self == [IdleThread EXCEPT !.call = call]
          IN /\ HasRole(by, {"requester", "administrator"})
             /\ FreshId(w)
             /\ IF c \in UnreviewedOverlay
                  THEN /\ Becomes(t, Raise(self, "ComplianceOverlayUnavailable"))
                       /\ UNCHANGED events
                  ELSE /\ Record(Event(self, "data_processing.workflow_intake",
                                       Outcome("workflow_intake", call), None))
                       /\ Becomes(t, IF Allows("workflow_intake", call)
                                       THEN [self EXCEPT !.pc = "create_store"]
                                       ELSE Raise(self, "DataProcessingDenied"))
    BY <1>3 DEF CreateIntake
  <2> DEFINE call == CreateCall(by, w, r, c, k)
             self == [IdleThread EXCEPT !.call = call]
             going == [self EXCEPT !.pc = "create_store"]
  <2>2. call.op = "create" /\ call.id = w /\ call.key = k
    BY DEF CreateCall, NoCall
  <2>3. \/ Becomes(t, going)
        \/ \E error \in {"ComplianceOverlayUnavailable", "DataProcessingDenied"} :
             Becomes(t, Raise(self, error))
    BY <2>1
  <2> HIDE DEF call
  <2>4. going.pc = "create_store" /\ going.call = call /\ self.call = call
    BY DEF IdleThread
  <2> HIDE DEF self, going
  <2>5. \A u \in Threads : u # t => thread'[u] = thread[u]
    BY <2>3, BecomesAt DEF ServiceInv
  <2>6. \/ s = going
        \/ \E error \in {"ComplianceOverlayUnavailable", "DataProcessingDenied"} :
             s = Raise(self, error)
    BY <2>3, BecomesAt DEF ServiceInv
  <2>7. s.call = call /\ (Failed(s) \/ s.pc = "create_store")
    BY <2>4, <2>6, Ends DEF Failed, Ending
  <2>8. Calls(t)
    BY <1>3, <2>5 DEF Calls, CreateIntake, Begins, queue
  <2>9. FreshId(w) /\ k # None
    BY <2>1, NoneAssumption
  <2> QED BY <1>1, <2>2, <2>7, <2>8, <2>9
<1> QED BY <1>1, <1>2, <1>3

LEMMA PlanCalls ==
  ASSUME ServiceInv, NEW p, NEW t \in Threads, AsksPlan(p, t)
  PROVE  LET s == thread'[t]
             found == workflows[s.call.id]
         IN /\ Calls(t) /\ s.call.op = "plan"
            /\ s.call.id \in WorkflowIds /\ s.call.id = pages[p]["submit"].id
            /\ \/ Failed(s)
               \/ /\ Succeeded(s) /\ s.pc = "reply" /\ s.snap = found
                  /\ found # None /\ found.proposal # None
               \/ /\ s.pc = "plan_policy" /\ s.snap = found /\ found # None
<1> DEFINE s == thread'[t]
<1>1. PlanLoad(t) /\ s.call.id = pages[p].submit.id
  BY DEF AsksPlan, SendPlan
<1>2. PICK by \in Principals, w \in WorkflowIds :
        LET found == workflows[w]
            self  == [IdleThread EXCEPT
                        !.call = [NoCall EXCEPT !.op = "plan", !.by = by, !.id = w]]
            mayPlan == /\ found # None
                       /\ found.owner = by \/ HasRole(by, {"administrator"})
        IN \/ /\ ~mayPlan
              /\ Becomes(t, AuditThen(Raise(self, "WorkflowNotFound"),
                                      "workflow.plan", "not_found"))
           \/ /\ mayPlan /\ found.proposal # None
              /\ Becomes(t, Answer(self, found))
           \/ /\ mayPlan /\ found.proposal = None
              /\ Becomes(t, IF found.status = "received"
                              THEN [self EXCEPT !.pc = "plan_policy", !.snap = found]
                              ELSE Raise(self, "InvalidWorkflowState"))
  BY <1>1 DEF PlanLoad
<1> DEFINE found == workflows[w]
           call == [NoCall EXCEPT !.op = "plan", !.by = by, !.id = w]
           self == [IdleThread EXCEPT !.call = call]
           lost == AuditThen(Raise(self, "WorkflowNotFound"), "workflow.plan", "not_found")
           done == Answer(self, found)
           late == Raise(self, "InvalidWorkflowState")
           next == [self EXCEPT !.pc = "plan_policy", !.snap = found]
<1>3. \/ Becomes(t, lost) \/ Becomes(t, late)
      \/ Becomes(t, done) /\ found # None /\ found.proposal # None
      \/ Becomes(t, next) /\ found # None
  BY <1>2
<1>4. call.op = "plan" /\ call.id = w
  BY DEF NoCall
<1> HIDE DEF call, found
<1>5. self.call = call /\ next.pc = "plan_policy" /\ next.call = call /\ next.snap = found
  BY DEF IdleThread
<1> HIDE DEF self
<1>6. Failed(lost) /\ lost.call = call /\ Failed(late) /\ late.call = call
  BY <1>5, Ends DEF Failed, Ending
<1>7. done.pc = "reply" /\ Succeeded(done) /\ done.call = call /\ done.snap = found
  BY <1>5, Ends DEF Succeeded, Ending
<1> HIDE DEF next, lost, done, late
<1>8. \A u \in Threads : u # t => thread'[u] = thread[u]
  BY <1>3, BecomesAt DEF ServiceInv
<1>9. \/ s = lost \/ s = late
      \/ s = done /\ found # None /\ found.proposal # None
      \/ s = next /\ found # None
  BY <1>3, BecomesAt DEF ServiceInv
<1>10. Calls(t)
  BY <1>1, <1>8 DEF Calls, PlanLoad, Begins, queue
<1>11. s.call = call
  BY <1>5, <1>6, <1>7, <1>9
<1>12. pages[p].submit = pages[p]["submit"]
  OBVIOUS
<1>13. found = workflows[s.call.id]
  BY <1>4, <1>11 DEF found
<1>14. \/ Failed(s)
       \/ /\ Succeeded(s) /\ s.pc = "reply" /\ s.snap = found
          /\ found # None /\ found.proposal # None
       \/ /\ s.pc = "plan_policy" /\ s.snap = found /\ found # None
  BY <1>5, <1>6, <1>7, <1>9
<1> QED BY <1>1, <1>4, <1>10, <1>11, <1>12, <1>13, <1>14

LEMMA ProcessCalls ==
  ASSUME ServiceInv, NEW p, NEW t \in Threads, AsksProcess(p, t)
  PROVE  LET s == thread'[t]
         IN /\ Calls(t) /\ s.call.op = "process"
            /\ Failed(s) \/ s.pc = "task_load"
<1> DEFINE s == thread'[t]
<1>1. ProcessClaim(t) \/ ProcessNothing(t)
  BY DEF AsksProcess, SendProcess
<1>2. ASSUME NEW by, NEW w
      PROVE  ProcessCall(by, w).op = "process"
  BY DEF ProcessCall, NoCall
<1>3. CASE ProcessNothing(t)
  <2>1. PICK by \in Principals :
          Becomes(t, Raise([IdleThread EXCEPT !.call = ProcessCall(by, None)],
                           "NoPendingTask"))
    BY <1>3 DEF ProcessNothing
  <2>2. s = Raise([IdleThread EXCEPT !.call = ProcessCall(by, None)], "NoPendingTask")
        /\ \A u \in Threads : u # t => thread'[u] = thread[u]
    BY <2>1, BecomesAt DEF ServiceInv
  <2>3. s.call = ProcessCall(by, None) /\ s.pc = "reply" /\ s.reply = "NoPendingTask"
    BY <2>2 DEF Raise, IdleThread
  <2>4. Calls(t)
    BY <1>3, <2>2 DEF Calls, ProcessNothing, Begins, queue
  <2> QED BY <1>2, <2>3, <2>4 DEF Failed, Ending
<1>4. CASE ProcessClaim(t)
  <2>1. PICK by \in Principals, w \in WorkflowIds :
          Becomes(t, [IdleThread EXCEPT !.pc = "task_load",
                        !.call = ProcessCall(by, w), !.task = Delivered(tasks[w])])
    BY <1>4 DEF ProcessClaim
  <2>2. s = [IdleThread EXCEPT !.pc = "task_load",
                        !.call = ProcessCall(by, w), !.task = Delivered(tasks[w])]
        /\ \A u \in Threads : u # t => thread'[u] = thread[u]
    BY <2>1, BecomesAt DEF ServiceInv
  <2>3. s.call = ProcessCall(by, w) /\ s.pc = "task_load"
    BY <2>2 DEF IdleThread
  <2>4. Calls(t)
    BY <1>4, <2>2 DEF Calls, ProcessClaim, Begins
  <2> QED BY <1>2, <2>3, <2>4
<1> QED BY <1>1, <1>3, <1>4

(* A decision that repeats the stored one, key and all, is replayed, unless*)
(* it is the owner's.                                                      *)
LEMMA DecideCalls ==
  ASSUME ServiceInv, NEW p, NEW t \in Threads, AsksDecide(p, t)
  PROVE  LET s == thread'[t]
             call == s.call
             chain == pages[p]["action"]
             found == workflows[call.id]
         IN /\ Calls(t) /\ call.op = "decide"
            /\ call.id \in WorkflowIds /\ call.id = chain.id
            /\ call.by = chain.by /\ call.decision = chain.decision
            /\ call.key = call.decision
            /\ \/ Failed(s)
               \/ /\ Succeeded(s) /\ s.pc = "reply" /\ s.snap = found /\ found # None
                  /\ found.approval # None /\ found.approval.decision = call.decision
                  /\ ~(call.decision = "approved" /\ found.proposal # None)
               \/ /\ s.pc = "decide_requeue" /\ s.snap = found
                  /\ found.approval.decision = call.decision
               \/ s.pc = "decide_clock"
            /\ /\ found # None /\ found.approval # None
               /\ found.approval.key = call.key
               /\ found.approval.decision = call.decision
               => \/ /\ s.pc \in Ending /\ s.reply = "PermissionDenied"
                     /\ found.owner = call.by
                  \/ s.pc = "decide_requeue" /\ s.snap = found
                  \/ Succeeded(s) /\ s.snap = found
<1> DEFINE s == thread'[t]
           chain == pages[p].action
<1>1. /\ DecideLoad(t) /\ s.call.by = chain.by /\ s.call.id = chain.id
      /\ s.call.decision = chain.decision /\ s.call.key = chain.decision
      /\ chain = pages[p]["action"]
  BY DEF AsksDecide, SendDecide, DecisionKey
<1>2. PICK by \in Principals, w \in WorkflowIds, k \in Keys, d \in Decision :
        LET found == workflows[w]
            self  == [IdleThread EXCEPT !.call = DecideCall(by, w, k, d)]
        IN /\ HasRole(by, {"reviewer", "administrator"})
           /\ \/ /\ found = None
                 /\ Becomes(t, Raise(self, "WorkflowNotFound"))
              \/ /\ found # None /\ IsOwner(by, found)
                 /\ Becomes(t, AuditThen(Raise(self, "PermissionDenied"),
                                         "workflow.approval", "self_approval_denied"))
              \/ /\ found # None /\ ~IsOwner(by, found) /\ found.approval # None
                 /\ Becomes(t, Replay(self, found))
              \/ /\ found # None /\ ~IsOwner(by, found) /\ found.approval = None
                 /\ Becomes(t, IF found.status = "awaiting_approval" /\ found.proposal # None
                                 THEN [self EXCEPT !.pc = "decide_clock", !.snap = found]
                                 ELSE Raise(self, "InvalidWorkflowState"))
  BY <1>1 DEF DecideLoad
<1> DEFINE found == workflows[w]
           call == DecideCall(by, w, k, d)
           self == [IdleThread EXCEPT !.call = call]
           same == found.approval.key = k /\ found.approval.decision = d
           denied == AuditThen(Raise(self, "PermissionDenied"),
                               "workflow.approval", "self_approval_denied")
           clocked == [self EXCEPT !.pc = "decide_clock", !.snap = found]
           again == [self EXCEPT !.pc = "decide_requeue", !.snap = found]
<1>3. /\ call.op = "decide" /\ call.id = w /\ call.by = by /\ call.key = k
      /\ call.decision = d
  BY DEF DecideCall, NoCall
<1> HIDE DEF call, found
<1>4. /\ self.call = call /\ clocked.pc = "decide_clock" /\ clocked.call = call
      /\ again.pc = "decide_requeue" /\ again.call = call /\ again.snap = found
  BY DEF IdleThread
<1>5. \/ found # None /\ found.owner = by /\ Becomes(t, denied)
      \/ found = None /\ Becomes(t, Raise(self, "WorkflowNotFound"))
      \/ found # None /\ found.approval # None /\ Becomes(t, Replay(self, found))
      \/ found.approval = None /\ Becomes(t, clocked)
      \/ found.approval = None /\ Becomes(t, Raise(self, "InvalidWorkflowState"))
  BY <1>2 DEF IsOwner, found, call
<1>6. \/ ~same /\ \E error \in {"InvalidWorkflowState", "IdempotencyConflict"} :
                    Replay(self, found) = Raise(self, error)
      \/ /\ same /\ Replay(self, found) = again
      \/ /\ same /\ ~(d = "approved" /\ found.proposal # None)
         /\ Replay(self, found) = Answer(self, found)
  BY <1>3, <1>4 DEF Replay
<1> HIDE DEF self, denied, clocked, again, same
<1>7. \A u \in Threads : u # t => thread'[u] = thread[u]
  BY <1>5, BecomesAt DEF ServiceInv
<1>8. Calls(t)
  BY <1>1, <1>7 DEF Calls, DecideLoad, Begins, queue
<1>9. /\ denied.pc \in Ending /\ denied.reply = "PermissionDenied"
      /\ denied.call = call
  BY <1>4, Ends DEF denied, Ending
<1>10. /\ \A error : /\ Raise(self, error).call = call /\ Raise(self, error).pc \in Ending
                     /\ Raise(self, error).reply = error
       /\ LET a == Answer(self, found)
          IN a.pc = "reply" /\ a.call = call /\ a.snap = found /\ Succeeded(a)
  BY <1>4, Ends DEF Succeeded, Ending
<1> DEFINE wrong == \E error \in {"InvalidWorkflowState", "IdempotencyConflict"} :
                      s = Raise(self, error)
<1>11. \/ found # None /\ found.owner = by /\ s = denied
       \/ found = None /\ s = Raise(self, "WorkflowNotFound")
       \/ found # None /\ found.approval # None /\ s = Replay(self, found)
       \/ found.approval = None /\ s = clocked
       \/ found.approval = None /\ s = Raise(self, "InvalidWorkflowState")
  BY <1>5, BecomesAt DEF ServiceInv
<1>12. \/ found # None /\ found.owner = by /\ s = denied
       \/ found = None /\ s = Raise(self, "WorkflowNotFound")
       \/ ~same /\ wrong
       \/ same /\ s = again
       \/ /\ same /\ ~(d = "approved" /\ found.proposal # None)
          /\ found # None /\ found.approval # None /\ s = Answer(self, found)
       \/ found.approval = None /\ s = clocked
       \/ found.approval = None /\ wrong
  BY <1>6, <1>11
<1>13. s.call = call
  BY <1>4, <1>9, <1>10, <1>12
<1>14. workflows[s.call.id] = found
  BY <1>3, <1>13 DEF found
<1>15. \/ Failed(s)
       \/ /\ Succeeded(s) /\ s.pc = "reply" /\ s.snap = found /\ found # None
          /\ found.approval # None /\ found.approval.decision = d
          /\ ~(d = "approved" /\ found.proposal # None)
       \/ s.pc = "decide_requeue" /\ s.snap = found /\ found.approval.decision = d
       \/ s.pc = "decide_clock"
  BY <1>4, <1>9, <1>10, <1>12 DEF Failed, same
<1>16. found # None /\ found.approval # None /\ same
       => \/ s.pc \in Ending /\ s.reply = "PermissionDenied" /\ found.owner = by
          \/ s.pc = "decide_requeue" /\ s.snap = found
          \/ Succeeded(s) /\ s.snap = found
  BY <1>4, <1>9, <1>10, <1>12
<1> HIDE DEF s, chain, wrong
<1>17. /\ s.call.op = "decide" /\ s.call.id = w /\ w \in WorkflowIds
       /\ s.call.by = by /\ s.call.key = k /\ s.call.decision = d
       /\ same <=> found.approval.key = k /\ found.approval.decision = d
  BY <1>3, <1>13 DEF same
<1>18. /\ found # None /\ found.approval # None
       /\ found.approval.key = s.call.key /\ found.approval.decision = s.call.decision
       => \/ s.pc \in Ending /\ s.reply = "PermissionDenied" /\ found.owner = s.call.by
          \/ s.pc = "decide_requeue" /\ s.snap = found
          \/ Succeeded(s) /\ s.snap = found
  BY <1>16, <1>17
<1>19. \/ Failed(s)
       \/ /\ Succeeded(s) /\ s.pc = "reply" /\ s.snap = found /\ found # None
          /\ found.approval # None /\ found.approval.decision = s.call.decision
          /\ ~(s.call.decision = "approved" /\ found.proposal # None)
       \/ s.pc = "decide_requeue" /\ s.snap = found /\ found.approval.decision = s.call.decision
       \/ s.pc = "decide_clock"
  BY <1>15, <1>17
<1>20. s.call.key = s.call.decision
  BY <1>1 DEF s
<1> QED BY <1>1, <1>8, <1>14, <1>17, <1>18, <1>19, <1>20 DEF s, chain

-----------------------------------------------------------------------------
(* The steps of the console.                                               *)

Quiet    == UNCHANGED <<thread, workflows, idempotency, order>>
Stops(t) ==
  /\ thread'[t] = IdleThread /\ UNCHANGED <<workflows, idempotency, order>>
  /\ \A u \in Threads : u # t => thread'[u] = thread[u]

Works(t) ==
  /\ Turns(thread[t], thread'[t])
  /\ \A u \in Threads : u # t => thread'[u] = thread[u]
  /\ thread[t].pc = "decide_requeue" =>
       /\ thread'[t].reply = "ok" /\ thread'[t].snap = thread[t].snap
       /\ thread'[t].pc \in Ending

(* A press of a button, or the loss of a request.                          *)
Presses(p) ==
  BeginsSubmit(p) \/ BeginsDecide(p) \/ BeginsProcess(p) \/ \E c \in Chain : Gives(p, c)

Asks(p, t) == AsksCreate(p, t) \/ AsksPlan(p, t) \/ AsksDecide(p, t) \/ AsksProcess(p, t)

Proceeds(t) ==
  /\ Works(t) /\ UNCHANGED pages
  /\ thread[t].pc = "reply" => \A p \in Pages, c \in Chain : pages[p][c].on # t

LEMMA DiesFalls ==
  ASSUME PagesTyped, NEW t \in Threads, Dies(t)
  PROVE  Falls(t)
<1>1. ASSUME NEW p \in Pages
      PROVE  \/ pages'[p] = pages[p] /\ \A c \in Chain : pages[p][c].on # t
             \/ \E c \in Chain : pages[p][c].on = t /\ Drops(p, c)
  <2>1. CASE \E c \in Chain : Awaits(p, c, t)
    <3> DEFINE c == CHOOSE d \in Chain : Awaits(p, d, t)
    <3>1. c \in Chain /\ Awaits(p, c, t)
      BY <2>1
    <3>2. pages'[p] = Fails(pages[p], c)
      BY <2>1 DEF Dies
    <3> HIDE DEF c
    <3>3. Drops(p, c)
      BY <3>1, <3>2, FailsDrops
    <3> QED BY <3>1, <3>3 DEF Awaits
  <2>2. CASE ~\E c \in Chain : Awaits(p, c, t)
    BY <2>2 DEF Dies, Awaits
  <2> QED BY <2>1, <2>2
<1> QED BY <1>1 DEF Dies, Falls

LEMMA ConsoleSteps ==
  ASSUME ServiceInv, ServiceInv', PagesTyped, [ConsoleNext]_consoleVars
  PROVE  \/ Quiet /\ UNCHANGED pages
         \/ Quiet /\ \E p \in Pages : Presses(p)
         \/ \E t \in Threads : Proceeds(t)
         \/ \E t \in Threads : Falls(t) /\ Stops(t)
         \/ \E p \in Pages, t \in Threads : Asks(p, t)
         \/ \E p \in Pages, c \in Chain, t \in Threads :
              Hears(p, c, t) /\ Works(t) /\ Stops(t)
<1>1. CASE UNCHANGED consoleVars \/ (Tick /\ UNCHANGED pages)
  BY <1>1 DEF consoleVars, vars, Tick, Quiet, queue
<1>2. ASSUME NEW t \in Threads, Step(t) PROVE Works(t)
  BY <1>2, HandlerTurns DEF Works
<1>3. ASSUME NEW t \in Threads, Respond(t) PROVE Step(t) /\ Stops(t)
  BY <1>3, BecomesAt DEF Respond, Stops, Step, ServiceInv, queue
<1>4. ASSUME NEW t \in Threads, Dies(t) PROVE Falls(t) /\ Stops(t)
  BY <1>4, DiesFalls, BecomesAt DEF Falls, Interrupt, Stops, ServiceInv, queue
<1>5. ASSUME NEW t \in Threads, Serves(t) PROVE Proceeds(t)
  BY <1>2, <1>5 DEF Serves, Proceeds, Abandoned, Awaits
<1>6. ASSUME NEW p \in Pages, PageStep(p)
      PROVE  \/ Quiet /\ Presses(p)
             \/ \E t \in Threads : Asks(p, t)
             \/ \E c \in Chain, t \in Threads :
                  Hears(p, c, t) /\ Works(t) /\ Stops(t)
  <2>1. CASE Presses(p)
    <3>1. UNCHANGED service
      BY <2>1 DEF Presses, BeginsSubmit, BeginsDecide, BeginsProcess, Gives
    <3> QED BY <2>1, <3>1 DEF service, Quiet, queue
  <2>2. CASE \E t \in Threads, c \in Chain : Hears(p, c, t)
    <3>1. PICK t \in Threads, c \in Chain : Hears(p, c, t)
      BY <2>2
    <3>2. Respond(t)
      BY <3>1 DEF Hears
    <3> QED BY <1>2, <1>3, <3>1, <3>2
  <2> QED BY <1>6, <2>1, <2>2, PagesMove DEF PageMoves, Presses, Asks
<1> QED BY <1>1, <1>4, <1>5, <1>6 DEF ConsoleNext

(* What lasts whatever step is taken.                                      *)
LEMMA Lasting ==
  ASSUME ServiceInv, ServiceInv', [ConsoleNext]_consoleVars
  PROVE  /\ \A w : SeenIn(workflows, w) => SeenIn(workflows', w)
         /\ \A w \in WorkflowIds : workflows[w] # None =>
              workflows'[w] # None /\ Follows(workflows'[w], workflows[w])
         /\ ListedIn(order) \subseteq ListedIn(order')
<1>1. [Next]_vars
  BY ClientStep
<1>2. Grows
  BY <1>1, AuthNext DEF ServiceInv
<1>3. \A w \in WorkflowIds : workflows[w] # None =>
        workflows'[w] # None /\ Follows(workflows'[w], workflows[w])
  BY <1>2 DEF Grows, Extends
<1>4. ASSUME NEW w, SeenIn(workflows, w) PROVE SeenIn(workflows', w)
  <2>1. w \in Workflow /\ w.id \in WorkflowIds /\ workflows[w.id] # None
        /\ Follows(workflows[w.id], w)
    BY <1>4 DEF SeenIn, Workflow
  <2>2. workflows[w.id] \in Workflow /\ workflows'[w.id] \in Workflow
    BY <1>3, <2>1 DEF ServiceInv, TypeInv, TypeOK
  <2> QED BY <1>3, <2>1, <2>2, FollowsTransitive DEF SeenIn
<1>5. \A w \in WorkflowIds : Queued(w) => Queued(w)'
  BY <1>1, QueueGrows DEF ServiceInv
<1>6. ListedIn(order) \subseteq ListedIn(order')
  BY <1>5 DEF ListedIn, Queued
<1> QED BY <1>3, <1>4, <1>6

-----------------------------------------------------------------------------
(* What handlers hold.                                                     *)

LEMMA TurnsNamed ==
  ASSUME NEW r, NEW s, Named(r), Frame(r), Turns(r, s)
  PROVE  Named(s)
<1>1. CASE GoesOn(r, s)
  <2>1. s.pc \notin Ending /\ s.pc # "create_store"
    BY <1>1 DEF GoesOn, Resting
  <2> QED BY <1>1, <2>1 DEF GoesOn, Named, Succeeded
<1>2. CASE GivesUp(r, s)
  BY <1>2 DEF GivesUp, Named, Succeeded, PlanPoints, Ending
<1>3. CASE Succeeds(r, s)
  <2>1. s.pc \in Ending
    BY <1>3 DEF Succeeds
  <2>2. s.call.id = s.snap.id
    <3>1. CASE IsCreated(r, s)
      BY <3>1 DEF IsCreated
    <3>2. CASE IsPlanned(r, s)
      BY <3>2 DEF IsPlanned, Named, PlanPoints
    <3>3. CASE IsQueued(r, s) \/ IsRejected(r, s)
      BY <3>3 DEF IsQueued, IsRejected, Frame, Deciding
    <3>4. CASE IsExecuted(r, s)
      BY <3>4 DEF IsExecuted, Frame, HoldsTask, Named
    <3> QED BY <1>3, <3>1, <3>2, <3>3, <3>4 DEF Succeeds
  <2> QED BY <2>1, <2>2 DEF Named, PlanPoints, Ending
<1>4. CASE IsAudited(r, s)
  BY <1>4 DEF IsAudited, Named, Succeeded, PlanPoints, Ending
<1>5. CASE IsAnswered(r, s)
  BY <1>5 DEF IsAnswered, IdleThread, Named, Succeeded, PlanPoints, Ending
<1> QED BY <1>1, <1>2, <1>3, <1>4, <1>5 DEF Turns

LEMMA CalledNamed ==
  ASSUME ServiceInv, NEW p, NEW t \in Threads, Asks(p, t)
  PROVE  Named(thread'[t])
<1>1. \A s : Failed(s) => Named(s)
  BY DEF Failed, Named, Succeeded, PlanPoints, Ending
<1>2. CASE AsksCreate(p, t)
  BY <1>1, <1>2, CreateCalls DEF Named, PlanPoints, Succeeded, Ending
<1>3. CASE AsksPlan(p, t)
  <2>1. \A w \in WorkflowIds : workflows[w] # None => workflows[w].id = w
    BY DEF ServiceInv, TypeInv, TypeOK
  <2> QED BY <1>1, <1>3, <2>1, PlanCalls DEF Named, PlanPoints, Succeeded, Ending
<1>4. CASE AsksDecide(p, t)
  <2>1. \A w \in WorkflowIds : workflows[w] # None => workflows[w].id = w
    BY DEF ServiceInv, TypeInv, TypeOK
  <2> QED BY <1>1, <1>4, <2>1, DecideCalls DEF Named, PlanPoints, Succeeded, Ending
<1>5. CASE AsksProcess(p, t)
  BY <1>1, <1>5, ProcessCalls DEF Named, PlanPoints, Succeeded, Ending
<1> QED BY <1>2, <1>3, <1>4, <1>5 DEF Asks

(* Of a step only one handler turns, and it works, stops or is called.     *)
LEMMA HandlerMoves ==
  ASSUME ServiceInv, ServiceInv', PagesTyped, [ConsoleNext]_consoleVars
  PROVE  \/ Quiet
         \/ \E t \in Threads : Works(t) \/ Stops(t)
         \/ \E t \in Threads, p \in Pages : Asks(p, t) /\ Calls(t)
<1>1. ASSUME NEW t \in Threads, NEW p \in Pages, Asks(p, t) PROVE Calls(t)
  BY <1>1, CreateCalls, PlanCalls, DecideCalls, ProcessCalls DEF Asks
<1> QED BY <1>1, ConsoleSteps DEF Proceeds

LEMMA CallsAreNamedStep ==
  ASSUME ServiceInv, ServiceInv', PagesTyped, CallsAreNamed, [ConsoleNext]_consoleVars
  PROVE  CallsAreNamed'
<1>1. ASSUME NEW u \in Threads PROVE Named(thread'[u])
  <2>1. Named(thread[u]) /\ Frame(thread[u])
    BY DEF CallsAreNamed, ServiceInv, QueueInv
  <2>2. Named(IdleThread)
    BY DEF IdleThread, Named, Succeeded, PlanPoints, Ending
  <2>3. CASE thread'[u] = thread[u]
    BY <2>1, <2>3
  <2>4. ASSUME Works(u) PROVE Named(thread'[u])
    BY <2>1, <2>4, TurnsNamed DEF Works
  <2>5. ASSUME NEW p \in Pages, Asks(p, u) PROVE Named(thread'[u])
    BY <2>5, CalledNamed
  <2>6. \/ thread'[u] = thread[u] \/ Works(u) \/ thread'[u] = IdleThread
        \/ \E p \in Pages : Asks(p, u)
    BY HandlerMoves DEF Quiet, Works, Stops, Calls
  <2> QED BY <2>2, <2>3, <2>4, <2>5, <2>6
<1> QED BY <1>1 DEF CallsAreNamed, Named, Succeeded

LEMMA CalledStored ==
  ASSUME ServiceInv, NEW p, NEW t \in Threads, Asks(p, t), Succeeded(thread'[t])
  PROVE  SeenIn(workflows, thread'[t].snap)
<1> DEFINE s == thread'[t]
<1>1. /\ s.call.id \in WorkflowIds /\ s.snap = workflows[s.call.id] /\ s.snap # None
  BY CreateCalls, PlanCalls, DecideCalls, ProcessCalls DEF Asks, Failed, Succeeded, Ending
<1>2. /\ s.snap \in Workflow /\ s.snap.id = s.call.id
  BY <1>1 DEF ServiceInv, TypeInv, TypeOK
<1> QED BY <1>1, <1>2, FollowsItself DEF SeenIn

LEMMA ResultsAreStoredStep ==
  ASSUME ServiceInv, ServiceInv', PagesTyped, ResultsAreStored, [ConsoleNext]_consoleVars
  PROVE  ResultsAreStored'
<1>1. ASSUME NEW u \in Threads, Succeeded(thread'[u])
      PROVE  SeenIn(workflows', thread'[u].snap)
  <2>1. Succeeded(thread[u]) => SeenIn(workflows', thread[u].snap)
    BY Lasting DEF ResultsAreStored
  <2>2. CASE thread'[u] = thread[u]
    BY <1>1, <2>1, <2>2
  <2>3. CASE Works(u)
    <3>1. CASE Succeeds(thread[u], thread'[u])
      BY <3>1 DEF Succeeds, SeenIn
    <3>2. CASE IsAudited(thread[u], thread'[u])
      BY <1>1, <2>1, <3>2 DEF IsAudited, Succeeded, Ending
    <3> QED BY <1>1, <2>3, <3>1, <3>2
            DEF Works, Turns, GoesOn, GivesUp, IsAnswered, IdleThread, Succeeded,
                Resting, Ending
  <2>4. CASE thread'[u] = IdleThread
    BY <1>1, <2>4 DEF IdleThread, Succeeded, Ending
  <2>5. ASSUME NEW p \in Pages, Asks(p, u) PROVE SeenIn(workflows', thread'[u].snap)
    BY <1>1, <2>5, CalledStored, Lasting
  <2>6. \/ thread'[u] = thread[u] \/ Works(u) \/ thread'[u] = IdleThread
        \/ \E p \in Pages : Asks(p, u)
    BY HandlerMoves DEF Quiet, Works, Stops, Calls
  <2> QED BY <2>2, <2>3, <2>4, <2>5, <2>6
<1> QED BY <1>1 DEF ResultsAreStored, Succeeded, SeenIn

-----------------------------------------------------------------------------
(* What pages hold.                                                        *)

LEMMA SetsShaped ==
  ASSUME pages \in [Pages -> PageState], NEW p \in Pages, NEW page \in PageState,
         Sets(p, page)
  PROVE  pages' \in [Pages -> PageState]
BY DEF Sets

(* The pages a step may leave are pages.                                   *)
LEMMA Shapes ==
  ASSUME NEW page \in PageState, NEW c \in Chain
  PROVE  /\ Fails(page, c) \in PageState
         /\ \A step \in OnTheWay, t \in Threads :
              [page EXCEPT ![c].step = step, ![c].on = t] \in PageState
         /\ \A id \in WorkflowIds :
              [page EXCEPT ![c].step = "plan", ![c].on = None, ![c].id = id] \in PageState
         /\ \A reply : reply.snap \in Workflow =>
              ShowsReply([page EXCEPT ![c] = Rests], reply) \in PageState
<1>1. Rests \in ChainState
  BY RestsTyped
<1>2. ASSUME NEW id \in WorkflowIds
      PROVE  [page EXCEPT ![c].step = "plan", ![c].on = None, ![c].id = id] \in PageState
  <2>1. CASE c = "submit"
    BY <2>1 DEF PageState, ChainState, SubmitSteps
  <2>2. CASE c = "action"
    BY <2>2 DEF PageState, ChainState, SubmitSteps
  <2> QED BY <2>1, <2>2 DEF Chain
<1>3. ASSUME NEW step \in OnTheWay, NEW t \in Threads
      PROVE  [page EXCEPT ![c].step = step, ![c].on = t] \in PageState
  <2>1. step \in SubmitSteps \cup ActionSteps
    BY DEF OnTheWay, SubmitSteps, ActionSteps
  <2>2. CASE c = "submit"
    BY <2>1, <2>2 DEF PageState, ChainState
  <2>3. CASE c = "action"
    BY <2>1, <2>3 DEF PageState, ChainState
  <2> QED BY <2>2, <2>3 DEF Chain
<1>4. Fails(page, c) \in PageState
  <2>1. CASE c = "submit"
    BY <1>1, <2>1 DEF Fails, PageState
  <2>2. CASE c = "action"
    BY <1>1, <2>2 DEF Fails, PageState
  <2> QED BY <2>1, <2>2 DEF Chain
<1>5. ASSUME NEW reply, reply.snap \in Workflow
      PROVE  ShowsReply([page EXCEPT ![c] = Rests], reply) \in PageState
  <2> DEFINE new == [page EXCEPT ![c] = Rests]
  <2>1. new \in PageState
    BY <1>1, ReplacesChain
  <2>2. \A pg \in PageState : ShowsReply(pg, reply) \in PageState
    BY <1>5 DEF ShowsReply, PageState
  <2> QED BY <2>1, <2>2
<1> QED BY <1>2, <1>3, <1>4, <1>5

LEMMA PagesShaped ==
  ASSUME ServiceInv, PagesTyped, ResultsAreStored, NEW p \in Pages, PageStep(p)
  PROVE  pages' \in [Pages -> PageState]
<1> DEFINE page == pages[p]
<1>1. pages \in [Pages -> PageState] /\ page \in PageState
  BY DEF PagesTyped
<1>2. ASSUME NEW new \in PageState, Sets(p, new) PROVE pages' \in [Pages -> PageState]
  BY <1>1, <1>2, SetsShaped
<1>3. CASE Submit(p)
  <2>1. PICK persona \in Personas :
          Sets(p, [page EXCEPT !.shown = None, !.error = FALSE,
                     !.submit = [Rests EXCEPT !.step = "create", !.by = persona]])
    BY <1>3 DEF Submit
  <2>2. persona \in Principals
    BY ConsoleAssumption
  <2>3. [Rests EXCEPT !.step = "create", !.by = persona] \in ChainState
    BY <2>2 DEF Rests, ChainState, SubmitSteps
  <2> QED BY <1>1, <1>2, <2>1, <2>3 DEF PageState
<1>4. CASE PressDecide(p)
  <2>1. PICK reviewer \in Deciders, d \in Decision :
          Press(p, [Rests EXCEPT !.step = "decide", !.by = reviewer, !.decision = d,
                                 !.id = page.shown.id])
    BY <1>4 DEF PressDecide
  <2>2. reviewer \in Principals /\ page.shown.id \in WorkflowIds
    BY <1>1, <1>4, ConsoleAssumption DEF PressDecide, Shows, PageState, Workflow
  <2>3. [Rests EXCEPT !.step = "decide", !.by = reviewer, !.decision = d,
                      !.id = page.shown.id] \in ChainState
    BY <2>2 DEF Rests, ChainState, ActionSteps
  <2> QED BY <1>1, <1>2, <2>1, <2>3 DEF Press, PageState
<1>5. CASE PressProcess(p)
  <2>1. [Rests EXCEPT !.step = "process", !.by = Operator] \in ChainState
    BY ConsoleAssumption DEF Rests, ChainState, ActionSteps
  <2> QED BY <1>1, <1>2, <1>5, <2>1 DEF PressProcess, Press, PageState
<1>6. ASSUME NEW c \in Chain, Loses(p, c) PROVE pages' \in [Pages -> PageState]
  BY <1>1, <1>2, <1>6, Shapes DEF Loses
<1>7. ASSUME NEW t \in Threads, SendCreate(p, t) \/ SendPlan(p, t) \/ SendProcess(p, t)
      PROVE  pages' \in [Pages -> PageState]
  <2>1. \E c \in Chain, step \in OnTheWay : Waits(p, c, t, step)
    BY <1>7 DEF SendCreate, SendPlan, SendProcess, Chain, OnTheWay
  <2>2. PICK c \in Chain, step \in OnTheWay : Waits(p, c, t, step)
    BY <2>1
  <2>3. [page EXCEPT ![c].step = step, ![c].on = t] \in PageState
    BY <1>1, Shapes
  <2> QED BY <1>2, <2>2, <2>3 DEF Waits
<1>8. ASSUME NEW t \in Threads, SendDecide(p, t) PROVE pages' \in [Pages -> PageState]
  <2> DEFINE made == workflows[page.action.id].approval
             again == made # None /\ made.decision = page.action.decision
  <2>1. Sets(p, [page EXCEPT !.action.step = "deciding", !.action.on = t,
                             !.action.again = again])
    BY <1>8 DEF SendDecide
  <2>2. again \in BOOLEAN
    OBVIOUS
  <2> HIDE DEF again
  <2>3. [page EXCEPT !.action.step = "deciding", !.action.on = t,
                     !.action.again = again] \in PageState
    BY <1>1, <2>2, ZenonT(40) DEF PageState, ChainState, ActionSteps
  <2> QED BY <1>2, <2>1, <2>3
<1>9. ASSUME NEW t \in Threads, NEW c \in Chain, Receives(p, c, t)
      PROVE  pages' \in [Pages -> PageState]
  <2>1. \/ Sets(p, Fails(page, c))
        \/ /\ thread[t].pc = "reply" /\ thread[t].reply = "ok"
           /\ \/ Sets(p, [page EXCEPT ![c].step = "plan", ![c].on = None,
                                      ![c].id = thread[t].snap.id])
              \/ Sets(p, ShowsReply([page EXCEPT ![c] = Rests], thread[t]))
    BY <1>9 DEF Receives
  <2>2. thread[t].pc = "reply" /\ thread[t].reply = "ok" =>
          thread[t].snap \in Workflow /\ thread[t].snap.id \in WorkflowIds
    BY DEF ResultsAreStored, Succeeded, Ending, SeenIn, Workflow
  <2>3. CASE Sets(p, Fails(page, c))
    BY <1>1, <1>2, <2>3, Shapes
  <2>4. CASE /\ thread[t].pc = "reply" /\ thread[t].reply = "ok"
             /\ Sets(p, [page EXCEPT ![c].step = "plan", ![c].on = None,
                                     ![c].id = thread[t].snap.id])
    BY <1>1, <1>2, <2>2, <2>4, Shapes, ZenonT(40)
  <2>5. CASE /\ thread[t].pc = "reply" /\ thread[t].reply = "ok"
             /\ Sets(p, ShowsReply([page EXCEPT ![c] = Rests], thread[t]))
    BY <1>1, <1>2, <2>2, <2>5, Shapes
  <2> QED BY <2>1, <2>3, <2>4, <2>5
<1> QED BY <1>3, <1>4, <1>5, <1>6, <1>7, <1>8, <1>9 DEF PageStep

LEMMA PagesStayPages ==
  ASSUME ServiceInv, PagesTyped, ResultsAreStored, [ConsoleNext]_consoleVars
  PROVE  pages' \in [Pages -> PageState]
<1>1. pages \in [Pages -> PageState]
  BY DEF PagesTyped
<1>2. ASSUME NEW t \in Threads, Dies(t) PROVE pages' \in [Pages -> PageState]
  <2>1. ASSUME NEW p \in Pages
        PROVE  (IF \E c \in Chain : Awaits(p, c, t)
                  THEN Fails(pages[p], CHOOSE c \in Chain : Awaits(p, c, t))
                  ELSE pages[p]) \in PageState
    <3>1. CASE \E c \in Chain : Awaits(p, c, t)
      <4> DEFINE c == CHOOSE d \in Chain : Awaits(p, d, t)
      <4>1. c \in Chain
        BY <3>1
      <4> HIDE DEF c
      <4>2. Fails(pages[p], c) \in PageState
        BY <1>1, <4>1, Shapes
      <4> QED BY <3>1, <4>2 DEF c
    <3>2. CASE ~\E c \in Chain : Awaits(p, c, t)
      BY <1>1, <3>2
    <3> QED BY <3>1, <3>2
  <2> QED BY <1>2, <2>1 DEF Dies
<1>3. CASE UNCHANGED pages
  BY <1>1, <1>3
<1> QED BY <1>2, <1>3, PagesShaped DEF ConsoleNext, Serves, consoleVars

(* The chains after a step.                                                *)
ChainTyped(c, chain) ==
  /\ chain.step \in (IF c = "submit" THEN SubmitSteps ELSE ActionSteps)
  /\ chain.on # None <=> chain.step \in OnTheWay

LEMMA PagesTypedStep ==
  ASSUME ServiceInv, ServiceInv', PagesTyped, ResultsAreStored, [ConsoleNext]_consoleVars
  PROVE  PagesTyped'
<1>1. pages' \in [Pages -> PageState]
  BY PagesStayPages
<1>2. \A q \in Pages, d \in Chain :
        ChainTyped(d, pages[q][d]) /\ pages[q][d] \in ChainState
  BY Fields DEF PagesTyped, ChainTyped, Chain
<1>3. \A d \in Chain : ChainTyped(d, Rests)
  BY DEF ChainTyped, Rests, SubmitSteps, ActionSteps, OnTheWay
<1>4. ASSUME NEW q \in Pages, NEW d \in Chain PROVE ChainTyped(d, pages'[q][d])
  <2>1. CASE pages'[q][d] = pages[q][d] \/ pages'[q][d] = Rests
    BY <1>2, <1>3, <2>1
  <2>2. CASE Presses(q)
    <3>1. CASE \E c \in Chain : Gives(q, c)
      BY <2>1, <3>1 DEF Gives, Drops, OtherChains
    <3>2. CASE BeginsSubmit(q)
      <4>1. PICK persona \in Personas :
              pages'[q]["submit"] = [Rests EXCEPT !.step = "create", !.by = persona]
        BY <3>2 DEF BeginsSubmit
      <4>2. ChainTyped("submit", pages'[q]["submit"])
        BY <4>1 DEF ChainTyped, Rests, SubmitSteps, OnTheWay
      <4>3. d # "submit" => pages'[q][d] = pages[q][d]
        BY <3>2 DEF BeginsSubmit, OtherChains
      <4> QED BY <2>1, <4>2, <4>3
    <3>3. CASE BeginsDecide(q)
      <4>1. PICK reviewer \in Deciders, v \in Decision :
              pages'[q]["action"] = [Rests EXCEPT !.step = "decide", !.by = reviewer,
                                       !.decision = v, !.id = pages[q].shown.id]
        BY <3>3 DEF BeginsDecide
      <4>2. ChainTyped("action", pages'[q]["action"])
        BY <4>1 DEF ChainTyped, Rests, ActionSteps, OnTheWay
      <4>3. d # "action" => pages'[q][d] = pages[q][d]
        BY <3>3 DEF BeginsDecide, OtherChains
      <4> QED BY <2>1, <4>2, <4>3
    <3>4. CASE BeginsProcess(q)
      <4>1. ChainTyped("action", [Rests EXCEPT !.step = "process", !.by = Operator])
        BY DEF ChainTyped, Rests, ActionSteps, OnTheWay
      <4> QED BY <2>1, <3>4, <4>1 DEF BeginsProcess, OtherChains
    <3> QED BY <2>2, <3>1, <3>2, <3>3, <3>4 DEF Presses
  <2>3. ASSUME NEW t \in Threads, Asks(q, t) PROVE ChainTyped(d, pages'[q][d])
    <3>1. \A chain \in ChainState : t # None =>
            /\ ChainTyped("submit", [chain EXCEPT !.step = "creating", !.on = t])
            /\ ChainTyped("submit", [chain EXCEPT !.step = "planning", !.on = t])
            /\ ChainTyped("action", [chain EXCEPT !.step = "processing", !.on = t])
            /\ \A b : ChainTyped("action", [chain EXCEPT !.step = "deciding", !.on = t,
                                                         !.again = b])
      BY DEF ChainTyped, ChainState, SubmitSteps, ActionSteps, OnTheWay
    <3>2. t # None /\ \A c \in Chain : pages[q][c] \in ChainState
      BY <1>2, ConsoleAssumption
    <3>3. {"submit", "action"} = Chain
      BY DEF Chain
    <3>4. CASE AsksCreate(q, t) \/ AsksPlan(q, t) \/ AsksProcess(q, t)
      BY <2>1, <3>1, <3>2, <3>3, <3>4, Zenon
         DEF AsksCreate, AsksPlan, AsksProcess, Waiting, OtherChains
    <3>5. CASE AsksDecide(q, t)
      <4> DEFINE chain == pages[q]["action"]
                 made  == workflows[chain.id].approval
                 again == made # None /\ made.decision = chain.decision
      <4>1. /\ pages'[q]["action"] =
                 [chain EXCEPT !.step = "deciding", !.on = t, !.again = again]
            /\ d # "action" => pages'[q][d] = pages[q][d]
        BY <3>5 DEF AsksDecide, OtherChains
      <4> HIDE DEF again
      <4>2. ChainTyped("action", pages'[q]["action"])
        <5>1. chain \in ChainState
          BY <3>2, <3>3
        <5> HIDE DEF chain
        <5> QED BY <3>2, <4>1, <5>1 DEF ChainTyped, ChainState, ActionSteps, OnTheWay
      <4> QED BY <2>1, <4>1, <4>2
    <3> QED BY <2>3, <3>4, <3>5 DEF Asks
  <2>4. ASSUME NEW c \in Chain, NEW t \in Threads, Hears(q, c, t)
        PROVE  ChainTyped(d, pages'[q][d])
    <3>1. CASE d # c
      BY <2>1, <2>4, <3>1 DEF Hears, Drops, OtherChains
    <3>2. CASE d = c /\ pages[q][c].step = "creating" /\ pages'[q][c] # Rests
      <4>1. pages'[q][c] = [pages[q][c] EXCEPT !.step = "plan", !.on = None,
                                              !.id = thread[t].snap.id]
        BY <2>4, <3>2 DEF Hears, Drops
      <4>2. c = "submit"
        BY <1>2, <3>2 DEF ChainTyped, ActionSteps, Chain
      <4>3. \A chain \in ChainState : \A id :
              ChainTyped("submit", [chain EXCEPT !.step = "plan", !.on = None, !.id = id])
        BY DEF ChainTyped, ChainState, SubmitSteps, OnTheWay
      <4>4. pages[q][c] \in ChainState
        BY <1>2
      <4>5. ChainTyped("submit", pages'[q][c])
        BY <4>1, <4>3, <4>4
      <4> QED BY <3>2, <4>2, <4>5
    <3> QED BY <2>1, <2>4, <3>1, <3>2 DEF Hears, Drops
  <2>5. ASSUME NEW t \in Threads, Falls(t) PROVE ChainTyped(d, pages'[q][d])
    BY <2>1, <2>5 DEF Falls, Drops, OtherChains
  <2>6. \/ pages'[q] = pages[q]
        \/ Presses(q)
        \/ \E t \in Threads : Asks(q, t) \/ Falls(t) \/ \E c \in Chain : Hears(q, c, t)
    <3>1. ASSUME NEW p \in Pages, p # q, OtherPages(p) PROVE pages'[q] = pages[q]
      BY <3>1 DEF OtherPages
    <3>2. ASSUME NEW p \in Pages, Presses(p) PROVE OtherPages(p)
      BY <3>2 DEF Presses, BeginsSubmit, BeginsDecide, BeginsProcess, Gives
    <3>3. ASSUME NEW p \in Pages, NEW t \in Threads, Asks(p, t) PROVE OtherPages(p)
      BY <3>3 DEF Asks, AsksCreate, AsksPlan, AsksProcess, AsksDecide, Waiting
    <3>4. ASSUME NEW p \in Pages, NEW t \in Threads, NEW c \in Chain, Hears(p, c, t)
          PROVE  OtherPages(p)
      BY <3>4 DEF Hears
    <3> QED BY <3>1, <3>2, <3>3, <3>4, ConsoleSteps DEF Proceeds
  <2> QED BY <2>1, <2>2, <2>3, <2>4, <2>5, <2>6
<1>5. \A q \in Pages : pages'[q]["submit"] = pages'[q].submit
                         /\ pages'[q]["action"] = pages'[q].action
  OBVIOUS
<1> QED BY <1>1, <1>4, <1>5 DEF PagesTyped, ChainTyped, Chain

(* A chain that waits after a step waited before it, for a handler that    *)
(* works on, or has just called one.                                       *)
AsksFor(q, d, t) ==
  \/ d = "submit" /\ (AsksCreate(q, t) \/ AsksPlan(q, t))
  \/ d = "action" /\ (AsksDecide(q, t) \/ AsksProcess(q, t))

LEMMA AsksOne ==
  ASSUME NEW q, NEW t, Asks(q, t), NEW d \in Chain
  PROVE  AsksFor(q, d, t) \/ pages'[q][d] = pages[q][d]
BY DEF Asks, AsksFor, AsksCreate, AsksPlan, AsksProcess, AsksDecide, Waiting, OtherChains,
       Chain

LEMMA AsksOn ==
  ASSUME PagesTyped, NEW q \in Pages, NEW t \in Threads, NEW d \in Chain, AsksFor(q, d, t)
  PROVE  pages'[q][d].on = t /\ pages'[q][d].step \in OnTheWay /\ Asks(q, t)
<1>1. \A chain \in ChainState : \A step, b :
        /\ [chain EXCEPT !.step = step, !.on = t].on = t
        /\ [chain EXCEPT !.step = step, !.on = t].step = step
        /\ [chain EXCEPT !.step = step, !.on = t, !.again = b].on = t
        /\ [chain EXCEPT !.step = step, !.on = t, !.again = b].step = step
  BY DEF ChainState
<1>2. pages[q][d] \in ChainState
  BY Fields DEF PagesTyped
<1>3. {"creating", "planning", "deciding", "processing"} \subseteq OnTheWay
  BY DEF OnTheWay
<1>4. CASE AsksDecide(q, t) /\ d = "action"
  <2> DEFINE chain == pages[q]["action"]
             made  == workflows[chain.id].approval
             again == made # None /\ made.decision = chain.decision
  <2>1. pages'[q]["action"] =
          [chain EXCEPT !.step = "deciding", !.on = t, !.again = again]
    BY <1>4 DEF AsksDecide
  <2> HIDE DEF again
  <2> QED BY <1>1, <1>2, <1>3, <1>4, <2>1 DEF Asks
<1>5. ASSUME AsksFor(q, d, t), ~(AsksDecide(q, t) /\ d = "action")
      PROVE  \E from : \E step \in OnTheWay : Waiting(q, d, t, from, step)
  BY <1>3, <1>5 DEF AsksFor, AsksCreate, AsksPlan, AsksProcess
<1>6. ASSUME NEW from, NEW step \in OnTheWay, Waiting(q, d, t, from, step)
      PROVE  pages'[q][d].on = t /\ pages'[q][d].step \in OnTheWay
  BY <1>1, <1>2, <1>6 DEF Waiting
<1>7. Asks(q, t)
  BY DEF AsksFor, Asks
<1> QED BY <1>4, <1>5, <1>6, <1>7

(* How the pages of a step look, page by page.                             *)
LEMMA OnePage ==
  ASSUME ServiceInv, ServiceInv', PagesTyped, [ConsoleNext]_consoleVars, NEW q \in Pages
  PROVE  \/ /\ pages'[q] = pages[q]
            /\ \/ Quiet
               \/ \E t \in Threads : Proceeds(t)
               \/ \E t \in Threads :
                    Falls(t) /\ Stops(t) /\ \A c \in Chain : pages[q][c].on # t
               \/ \E p \in Pages, t \in Threads : p # q /\ Asks(p, t)
               \/ \E p \in Pages, c \in Chain, t \in Threads :
                    p # q /\ Hears(p, c, t) /\ Works(t) /\ Stops(t)
         \/ Quiet /\ Presses(q)
         \/ \E c \in Chain, t \in Threads :
              Falls(t) /\ Stops(t) /\ pages[q][c].on = t /\ Drops(q, c)
         \/ \E t \in Threads : Asks(q, t)
         \/ \E c \in Chain, t \in Threads : Hears(q, c, t) /\ Works(t) /\ Stops(t)
<1>1. ASSUME NEW p \in Pages, p # q, OtherPages(p) PROVE pages'[q] = pages[q]
  BY <1>1 DEF OtherPages
<1>2. ASSUME NEW p \in Pages, Presses(p) PROVE OtherPages(p)
  BY <1>2 DEF Presses, BeginsSubmit, BeginsDecide, BeginsProcess, Gives
<1>3. ASSUME NEW p \in Pages, NEW t \in Threads, Asks(p, t) PROVE OtherPages(p)
  BY <1>3 DEF Asks, AsksCreate, AsksPlan, AsksProcess, AsksDecide, Waiting
<1>4. ASSUME NEW p \in Pages, NEW t \in Threads, NEW c \in Chain, Hears(p, c, t)
      PROVE  OtherPages(p)
  BY <1>4 DEF Hears
<1>5. ASSUME NEW t \in Threads, Proceeds(t) PROVE pages'[q] = pages[q]
  BY <1>5 DEF Proceeds
<1>6. ASSUME NEW t \in Threads, Falls(t)
      PROVE  \/ pages'[q] = pages[q] /\ \A c \in Chain : pages[q][c].on # t
             \/ \E c \in Chain : pages[q][c].on = t /\ Drops(q, c)
  BY <1>6 DEF Falls
<1> QED BY <1>1, <1>2, <1>3, <1>4, <1>5, <1>6, ConsoleSteps

(* The chain a press changes waits for nobody, and starts anew.            *)
LEMMA PressedChain ==
  ASSUME NEW q, Presses(q), NEW d \in Chain
  PROVE  \/ pages'[q][d] = pages[q][d]
         \/ /\ pages'[q][d].on = None /\ pages'[q][d].again = FALSE
            /\ pages[q][d].step = "idle" \/ pages'[q][d] = Rests
            /\ \/ pages'[q][d].step \in {"idle", "create", "process"}
               \/ /\ BeginsDecide(q) /\ d = "action" /\ pages'[q][d].step = "decide"
                  /\ pages'[q][d].id = pages[q].shown.id
<1>1. CASE BeginsSubmit(q)
  <2>1. PICK persona \in Personas :
          pages'[q]["submit"] = [Rests EXCEPT !.step = "create", !.by = persona]
    BY <1>1 DEF BeginsSubmit
  <2>2. LET chain == pages'[q]["submit"]
        IN chain.on = None /\ chain.again = FALSE /\ chain.step = "create"
    BY <2>1 DEF Rests
  <2> QED BY <1>1, <2>2 DEF BeginsSubmit, OtherChains
<1>2. CASE BeginsDecide(q)
  <2>1. PICK reviewer \in Deciders, v \in Decision :
          pages'[q]["action"] = [Rests EXCEPT !.step = "decide", !.by = reviewer,
                                   !.decision = v, !.id = pages[q].shown.id]
    BY <1>2 DEF BeginsDecide
  <2>2. LET chain == pages'[q]["action"]
        IN /\ chain.on = None /\ chain.again = FALSE /\ chain.step = "decide"
           /\ chain.id = pages[q].shown.id
    BY <2>1 DEF Rests
  <2>3. pages[q]["action"].step = "idle" /\ OtherChains(q, "action")
    BY <1>2 DEF BeginsDecide
  <2> QED BY <1>2, <2>2, <2>3 DEF OtherChains
<1>3. CASE BeginsProcess(q)
  <2>1. LET chain == pages'[q]["action"]
        IN chain.on = None /\ chain.again = FALSE /\ chain.step = "process"
    BY <1>3 DEF BeginsProcess, Rests
  <2> QED BY <1>3, <2>1 DEF BeginsProcess, OtherChains
<1>4. CASE \E c \in Chain : Gives(q, c)
  BY <1>4, RestsTyped DEF Gives, Drops, OtherChains
<1> QED BY <1>1, <1>2, <1>3, <1>4 DEF Presses

(* A chain that hears from its handler waits for none afterwards.          *)
LEMMA HeardFrees ==
  ASSUME PagesTyped, NEW q \in Pages, NEW c \in Chain, NEW t \in Threads, Hears(q, c, t)
  PROVE  pages'[q][c].on = None
<1>1. pages[q][c] \in ChainState
  BY Fields DEF PagesTyped
<1>2. \A chain \in ChainState : \A id :
        [chain EXCEPT !.step = "plan", !.on = None, !.id = id].on = None
  BY DEF ChainState
<1>3. \/ pages'[q][c] = Rests
      \/ pages'[q][c] = [pages[q][c] EXCEPT !.step = "plan", !.on = None,
                                            !.id = thread[t].snap.id]
  BY DEF Hears, Drops
<1>4. CASE pages'[q][c] = Rests
  BY <1>4, RestsTyped
<1>5. CASE pages'[q][c] = [pages[q][c] EXCEPT !.step = "plan", !.on = None,
                                              !.id = thread[t].snap.id]
  BY <1>1, <1>2, <1>5
<1> QED BY <1>3, <1>4, <1>5

LEMMA AwaitedSteps ==
  ASSUME ServiceInv, ServiceInv', PagesTyped, Alone, WaitsAreServed,
         [ConsoleNext]_consoleVars,
         NEW q \in Pages, NEW d \in Chain, NEW u \in Threads, pages'[q][d].on = u
  PROVE  \/ /\ pages'[q][d] = pages[q][d]
            /\ \/ thread'[u] = thread[u]
               \/ Works(u) /\ thread[u].pc # "reply"
         \/ AsksFor(q, d, u)
<1>1. u # None
  BY ConsoleAssumption
<1>2. ASSUME pages'[q][d] = pages[q][d]
      PROVE  thread[u].pc # "idle"
  BY <1>2 DEF WaitsAreServed, Awaits, WorksFor
<1>3. ASSUME NEW p \in Pages, NEW t \in Threads, Asks(p, t)
      PROVE  /\ thread[t].pc = "idle" /\ \A v \in Threads : v # t => thread'[v] = thread[v]
  BY <1>3, CreateCalls, PlanCalls, DecideCalls, ProcessCalls DEF Asks, Calls
<1>4. CASE pages'[q] = pages[q]
  <2>1. thread[u].pc # "idle" /\ pages[q][d].on = u
    BY <1>2, <1>4
  <2>2. ASSUME NEW p \in Pages, NEW c \in Chain, NEW t \in Threads,
               p # q, Hears(p, c, t) /\ Stops(t)
        PROVE  thread'[u] = thread[u]
    BY <2>1, <2>2 DEF Hears, Stops, Alone, Awaits
  <2>3. ASSUME NEW t \in Threads, Proceeds(t)
        PROVE  thread'[u] = thread[u] \/ (Works(u) /\ thread[u].pc # "reply")
    BY <2>1, <2>3 DEF Proceeds, Works
  <2>4. ASSUME NEW t \in Threads, Stops(t), pages[q][d].on # t PROVE thread'[u] = thread[u]
    BY <2>1, <2>4 DEF Stops
  <2>5. Quiet => thread'[u] = thread[u]
    BY DEF Quiet
  <2>6. ASSUME NEW p \in Pages, NEW t \in Threads, Asks(p, t)
        PROVE  thread'[u] = thread[u]
    BY <1>3, <2>1, <2>6
  <2>7. \/ Quiet
        \/ \E t \in Threads : Proceeds(t)
        \/ \E t \in Threads : Stops(t) /\ pages[q][d].on # t
        \/ \E p \in Pages, t \in Threads : Asks(p, t)
        \/ \E p \in Pages, c \in Chain, t \in Threads : p # q /\ Hears(p, c, t) /\ Stops(t)
    <3>1. ASSUME ~Quiet, ~\E p \in Pages, t \in Threads : Asks(p, t),
                 ~\E t \in Threads : Proceeds(t)
          PROVE  \/ \E t \in Threads : Stops(t) /\ pages[q][d].on # t
                 \/ \E p \in Pages, c \in Chain, t \in Threads :
                      p # q /\ Hears(p, c, t) /\ Stops(t)
      <4>1. \A c \in Chain : Drops(q, c) => pages[q][c] = Rests
        BY <1>4 DEF Drops
      <4>2. ASSUME NEW c \in Chain, NEW t \in Threads, pages[q][c].on = t
            PROVE  ~Drops(q, c)
        BY <4>1, <4>2, ConsoleAssumption, RestsTyped
      <4>3. ASSUME NEW c \in Chain, NEW t \in Threads, Hears(q, c, t) PROVE FALSE
        <5>1. pages[q][c].on = t /\ t # None
          BY <4>3, ConsoleAssumption DEF Hears
        <5>2. pages'[q][c].on = None
          BY <4>3, HeardFrees
        <5> QED BY <1>4, <5>1, <5>2
      <4> QED BY <3>1, <4>2, <4>3, OnePage
    <3> QED BY <3>1
  <2> QED BY <1>4, <2>2, <2>3, <2>4, <2>5, <2>6, <2>7
<1>5. CASE Quiet /\ Presses(q)
  <2>1. pages'[q][d].on = None \/ pages'[q][d] = pages[q][d]
    BY <1>5, PressedChain
  <2> QED BY <1>1, <1>5, <2>1 DEF Quiet
<1>6. ASSUME NEW c \in Chain, NEW t \in Threads,
             Stops(t), pages[q][c].on = t, Drops(q, c)
      PROVE  pages'[q][d] = pages[q][d] /\ thread'[u] = thread[u]
  <2>1. d # c /\ pages'[q][d] = pages[q][d]
    BY <1>1, <1>6, RestsTyped DEF Drops, OtherChains
  <2>2. u # t
    BY <1>6, <2>1 DEF Alone, Awaits
  <2> QED BY <1>6, <2>1, <2>2 DEF Stops
<1>7. ASSUME NEW t \in Threads, Asks(q, t)
      PROVE  AsksFor(q, d, u) \/ (pages'[q][d] = pages[q][d] /\ thread'[u] = thread[u])
  <2>1. CASE AsksFor(q, d, t)
    BY <2>1, AsksOn
  <2>2. CASE pages'[q][d] = pages[q][d]
    BY <1>2, <1>3, <1>7, <2>2
  <2> QED BY <1>7, <2>1, <2>2, AsksOne
<1>8. ASSUME NEW c \in Chain, NEW t \in Threads, Hears(q, c, t), Stops(t)
      PROVE  pages'[q][d] = pages[q][d] /\ thread'[u] = thread[u]
  <2>1. pages'[q][c].on = None
    BY <1>8, HeardFrees
  <2>2. d # c /\ pages'[q][d] = pages[q][d] /\ pages[q][c].on = t
    BY <1>1, <1>8, <2>1 DEF Hears, Drops, OtherChains
  <2>3. u # t
    BY <2>2 DEF Alone, Awaits
  <2> QED BY <1>8, <2>2, <2>3 DEF Stops
<1> QED BY <1>4, <1>5, <1>6, <1>7, <1>8, OnePage

LEMMA AskedIdle ==
  ASSUME ServiceInv, PagesTyped, WaitsAreServed, NEW p \in Pages, NEW t \in Threads, Asks(p, t)
  PROVE  /\ thread[t].pc = "idle" /\ OtherPages(p) /\ Calls(t)
         /\ \A q \in Pages, d \in Chain : pages[q][d].on # t
         /\ \A c \in Chain : AsksFor(p, c, t) => OtherChains(p, c)
<1>1. Calls(t)
  BY CreateCalls, PlanCalls, DecideCalls, ProcessCalls DEF Asks
<1>2. OtherPages(p)
  BY DEF Asks, AsksCreate, AsksPlan, AsksProcess, AsksDecide, Waiting
<1>3. \A c \in Chain : AsksFor(p, c, t) => OtherChains(p, c)
  BY DEF AsksFor, AsksCreate, AsksPlan, AsksProcess, AsksDecide, Waiting
<1>4. thread[t].pc = "idle"
  BY <1>1 DEF Calls
<1>5. \A q \in Pages, d \in Chain : pages[q][d].on # t
  BY <1>4 DEF WaitsAreServed, Awaits, WorksFor
<1> QED BY <1>1, <1>2, <1>3, <1>4, <1>5

LEMMA AloneStep ==
  ASSUME ServiceInv, ServiceInv', PagesTyped, Alone, WaitsAreServed,
         [ConsoleNext]_consoleVars
  PROVE  Alone'
<1>1. ASSUME NEW p \in Pages, NEW q \in Pages, NEW c \in Chain, NEW d \in Chain,
             NEW t \in Threads, pages'[p][c].on = t, pages'[q][d].on = t
      PROVE  p = q /\ c = d
  <2>1. pages[p][c].on = t \/ AsksFor(p, c, t)
    BY <1>1, AwaitedSteps
  <2>2. pages[q][d].on = t \/ AsksFor(q, d, t)
    BY <1>1, AwaitedSteps
  <2>3. CASE pages[p][c].on = t /\ pages[q][d].on = t
    BY <2>3 DEF Alone, Awaits
  <2>4. CASE AsksFor(p, c, t)
    <3>1. Asks(p, t)
      BY <2>4, AsksOn
    <3> QED BY <1>1, <2>4, <3>1, AskedIdle DEF OtherPages, OtherChains
  <2>5. CASE AsksFor(q, d, t)
    <3>1. Asks(q, t)
      BY <2>5, AsksOn
    <3> QED BY <1>1, <2>5, <3>1, AskedIdle DEF OtherPages, OtherChains
  <2> QED BY <2>1, <2>2, <2>3, <2>4, <2>5
<1> QED BY <1>1 DEF Alone, Awaits

(* What a handler was asked stays the same while it works.                 *)
LEMMA WorksOn ==
  ASSUME NEW chain, NEW r, NEW s, Named(r), Turns(r, s), r.pc # "reply", WorksFor(chain, r)
  PROVE  WorksFor(chain, s)
<1>1. CASE GoesOn(r, s)
  BY <1>1 DEF GoesOn, WorksFor, Resting
<1>2. CASE GivesUp(r, s)
  BY <1>2 DEF GivesUp, WorksFor, Ending
<1>3. CASE Succeeds(r, s)
  <2>1. /\ s.pc # "idle" /\ s.call.op = r.call.op /\ s.call.decision = r.call.decision
    BY <1>3 DEF Succeeds, Ending
  <2>2. s.call.id = r.call.id \/ r.call.op = "create"
    BY <1>3 DEF Succeeds, IsCreated, IsPlanned, IsQueued, IsRejected, IsExecuted, Named
  <2> QED BY <2>1, <2>2 DEF WorksFor
<1>4. CASE IsAudited(r, s)
  BY <1>4 DEF IsAudited, WorksFor
<1> QED BY <1>1, <1>2, <1>3, <1>4 DEF Turns, IsAnswered

LEMMA WaitingFields ==
  ASSUME PagesTyped, NEW q \in Pages, NEW d \in Chain, NEW t, NEW from, NEW step,
         Waiting(q, d, t, from, step)
  PROVE  LET old == pages[q][d]
             new == pages'[q][d]
         IN /\ old.step = from /\ new.step = step /\ new.on = t
            /\ new.id = old.id /\ new.decision = old.decision /\ new.again = old.again
<1>1. pages[q][d] \in ChainState
  BY Fields DEF PagesTyped
<1>2. \A chain \in ChainState :
        LET new == [chain EXCEPT !.step = step, !.on = t]
        IN /\ new.step = step /\ new.on = t /\ new.id = chain.id
           /\ new.decision = chain.decision /\ new.again = chain.again
  BY DEF ChainState
<1> QED BY <1>1, <1>2 DEF Waiting

LEMMA AskedServed ==
  ASSUME ServiceInv, PagesTyped, NEW q \in Pages, NEW d \in Chain, NEW t \in Threads,
         AsksFor(q, d, t)
  PROVE  WorksFor(pages'[q][d], thread'[t])
<1> DEFINE s == thread'[t]
<1>1. pages[q][d] \in ChainState
  BY Fields DEF PagesTyped
<1>3. CASE AsksCreate(q, t) /\ d = "submit"
  <2>1. s.call.op = "create" /\ s.pc # "idle"
    BY <1>3, CreateCalls DEF Failed, Ending
  <2>2. pages'[q][d].step = "creating"
    BY <1>3, WaitingFields DEF AsksCreate
  <2> QED BY <2>1, <2>2 DEF WorksFor
<1>4. CASE AsksPlan(q, t) /\ d = "submit"
  <2>1. s.call.op = "plan" /\ s.pc # "idle" /\ s.call.id = pages[q][d].id
    BY <1>4, PlanCalls DEF Failed, Succeeded, Ending
  <2>2. pages'[q][d].step = "planning" /\ pages'[q][d].id = pages[q][d].id
    BY <1>4, WaitingFields DEF AsksPlan
  <2> QED BY <2>1, <2>2 DEF WorksFor
<1>5. CASE AsksProcess(q, t) /\ d = "action"
  <2>1. s.call.op = "process" /\ s.pc # "idle"
    BY <1>5, ProcessCalls DEF Failed, Ending
  <2>2. pages'[q][d].step = "processing"
    BY <1>5, WaitingFields DEF AsksProcess
  <2> QED BY <2>1, <2>2 DEF WorksFor
<1>6. CASE AsksDecide(q, t) /\ d = "action"
  <2> DEFINE chain == pages[q]["action"]
             made  == workflows[chain.id].approval
             again == made # None /\ made.decision = chain.decision
  <2>1. /\ s.call.op = "decide" /\ s.pc # "idle" /\ s.call.id = pages[q][d].id
        /\ s.call.decision = pages[q][d].decision
    BY <1>6, DecideCalls DEF Failed, Succeeded, Ending
  <2>2. pages'[q][d] = [chain EXCEPT !.step = "deciding", !.on = t, !.again = again]
    BY <1>6 DEF AsksDecide
  <2> HIDE DEF again
  <2>3. /\ pages'[q][d].step = "deciding" /\ pages'[q][d].id = pages[q][d].id
        /\ pages'[q][d].decision = pages[q][d].decision
    BY <1>1, <1>6, <2>2 DEF ChainState
  <2> QED BY <2>1, <2>3 DEF WorksFor
<1> QED BY <1>3, <1>4, <1>5, <1>6 DEF AsksFor

LEMMA WaitsAreServedStep ==
  ASSUME ServiceInv, ServiceInv', PagesTyped, Alone, WaitsAreServed, CallsAreNamed,
         [ConsoleNext]_consoleVars
  PROVE  WaitsAreServed'
<1>1. ASSUME NEW q \in Pages, NEW d \in Chain, NEW u \in Threads, pages'[q][d].on = u
      PROVE  WorksFor(pages'[q][d], thread'[u])
  <2>1. CASE AsksFor(q, d, u)
    BY <2>1, AskedServed
  <2>2. CASE pages'[q][d] = pages[q][d]
             /\ (thread'[u] = thread[u] \/ (Works(u) /\ thread[u].pc # "reply"))
    <3>1. WorksFor(pages[q][d], thread[u]) /\ Named(thread[u])
      BY <1>1, <2>2 DEF WaitsAreServed, Awaits, CallsAreNamed
    <3> QED BY <2>2, <3>1, WorksOn DEF Works
  <2> QED BY <1>1, <2>1, <2>2, AwaitedSteps
<1> QED BY <1>1 DEF WaitsAreServed, Awaits, WorksFor

LEMMA NamesAreStoredStep ==
  ASSUME ServiceInv, ServiceInv', PagesTyped, NamesAreStored, ResultsAreStored,
         DisplaysAreStored, [ConsoleNext]_consoleVars
  PROVE  NamesAreStored'
<1>1. ASSUME NEW q \in Pages, NEW d \in Chain, pages'[q][d].step \in Names
      PROVE  /\ pages'[q][d].id \in WorkflowIds
             /\ workflows'[pages'[q][d].id] # None
  <2>1. ASSUME NEW w, SeenIn(workflows, w), pages'[q][d].id = w.id
        PROVE  /\ pages'[q][d].id \in WorkflowIds
               /\ workflows'[pages'[q][d].id] # None
    <3>1. SeenIn(workflows', w)
      BY <2>1, Lasting
    <3> QED BY <2>1, <3>1 DEF SeenIn, Workflow
  <2>2. ASSUME pages[q][d].step \in Names, pages'[q][d].id = pages[q][d].id
        PROVE  /\ pages'[q][d].id \in WorkflowIds
               /\ workflows'[pages'[q][d].id] # None
    BY <2>2, Lasting DEF NamesAreStored
  <2>3. pages[q][d] \in ChainState /\ Rests.step \notin Names
    BY Fields, RestsTyped DEF PagesTyped, Names
  <2>4. CASE pages'[q][d] = pages[q][d]
    BY <1>1, <2>2, <2>4
  <2>5. CASE Presses(q)
    <3>1. CASE BeginsDecide(q) /\ pages'[q][d].id = pages[q].shown.id
      BY <2>1, <3>1 DEF BeginsDecide, DisplaysAreStored
    <3>2. \/ pages'[q][d] = pages[q][d]
          \/ pages'[q][d].step \in {"idle", "create", "process"}
          \/ BeginsDecide(q) /\ pages'[q][d].id = pages[q].shown.id
      BY <2>5, PressedChain, ZenonT(30)
    <3>3. CASE pages'[q][d].step \in {"idle", "create", "process"}
      BY <1>1, <3>3 DEF Names
    <3> QED BY <2>4, <3>1, <3>2, <3>3
  <2>6. ASSUME NEW t \in Threads, Asks(q, t)
        PROVE  /\ pages'[q][d].id \in WorkflowIds
               /\ workflows'[pages'[q][d].id] # None
    <3>1. \A chain \in ChainState : \A step, b :
            [chain EXCEPT !.step = step, !.on = t, !.again = b].id = chain.id
      BY DEF ChainState
    <3>2. CASE AsksDecide(q, t) /\ d = "action"
      <4> DEFINE chain == pages[q]["action"]
                 made  == workflows[chain.id].approval
                 again == made # None /\ made.decision = chain.decision
      <4>1. chain.step = "decide" /\
            pages'[q]["action"] = [chain EXCEPT !.step = "deciding", !.on = t, !.again = again]
        BY <3>2 DEF AsksDecide
      <4> HIDE DEF again
      <4> QED BY <2>2, <2>3, <3>1, <3>2, <4>1 DEF Names
    <3>3. CASE d = "submit" /\ (AsksCreate(q, t) \/ AsksPlan(q, t))
      BY <1>1, <2>2, <3>3, WaitingFields DEF AsksCreate, AsksPlan, Names
    <3>4. CASE d = "action" /\ AsksProcess(q, t)
      BY <1>1, <3>4, WaitingFields DEF AsksProcess, Names
    <3> QED BY <2>4, <2>6, <3>2, <3>3, <3>4, AsksOne DEF AsksFor
  <2>7. ASSUME NEW c \in Chain, NEW t \in Threads, Hears(q, c, t)
        PROVE  /\ pages'[q][d].id \in WorkflowIds
               /\ workflows'[pages'[q][d].id] # None
    <3>1. CASE pages'[q][d] = pages[q][d] \/ pages'[q][d] = Rests
      BY <1>1, <2>3, <2>4, <3>1
    <3>2. CASE c = d /\ thread[t].reply = "ok" /\
               pages'[q][c] = [pages[q][c] EXCEPT !.step = "plan", !.on = None,
                                                  !.id = thread[t].snap.id]
      <4>1. Succeeded(thread[t])
        BY <2>7, <3>2 DEF Hears, Respond, Succeeded, Ending
      <4>2. pages'[q][d].id = thread[t].snap.id
        BY <2>3, <3>2 DEF ChainState
      <4> QED BY <2>1, <4>1, <4>2 DEF ResultsAreStored
    <3> QED BY <2>7, <3>1, <3>2 DEF Hears, Drops, OtherChains
  <2>8. ASSUME NEW c \in Chain, Drops(q, c)
        PROVE  /\ pages'[q][d].id \in WorkflowIds
               /\ workflows'[pages'[q][d].id] # None
    BY <1>1, <2>3, <2>4, <2>8 DEF Drops, OtherChains
  <2> QED BY <2>4, <2>5, <2>6, <2>7, <2>8, OnePage
<1> QED BY <1>1 DEF NamesAreStored

LEMMA DisplaysAreStoredStep ==
  ASSUME ServiceInv, ServiceInv', PagesTyped, ResultsAreStored,
         DisplaysAreStored, [ConsoleNext]_consoleVars
  PROVE  DisplaysAreStored'
<1>1. ASSUME NEW q \in Pages, pages'[q].shown # None
      PROVE  SeenIn(workflows', pages'[q].shown)
  <2>1. CASE pages'[q].shown = pages[q].shown
    BY <1>1, <2>1, Lasting DEF DisplaysAreStored
  <2>2. CASE Presses(q)
    BY <1>1, <2>1, <2>2
       DEF Presses, BeginsSubmit, BeginsDecide, BeginsProcess, Gives, Drops
  <2>3. ASSUME NEW t \in Threads, Asks(q, t) PROVE pages'[q].shown = pages[q].shown
    BY <2>3 DEF Asks, AsksCreate, AsksPlan, AsksProcess, AsksDecide, Waiting
  <2>4. ASSUME NEW c \in Chain, NEW t \in Threads, Hears(q, c, t)
        PROVE  SeenIn(workflows', pages'[q].shown)
    <3>1. \/ pages'[q].shown = pages[q].shown
          \/ thread[t].pc = "reply" /\ thread[t].reply = "ok"
             /\ pages'[q].shown = thread[t].snap
      BY <2>4 DEF Hears, Drops, Respond
    <3>2. CASE Succeeded(thread[t]) /\ pages'[q].shown = thread[t].snap
      BY <3>2, Lasting DEF ResultsAreStored
    <3> QED BY <2>1, <3>1, <3>2 DEF Succeeded, Ending
  <2>5. \A c \in Chain : Drops(q, c) => pages'[q].shown = pages[q].shown
    BY DEF Drops
  <2> QED BY <2>1, <2>2, <2>3, <2>4, <2>5, OnePage
<1> QED BY <1>1 DEF DisplaysAreStored, SeenIn

-----------------------------------------------------------------------------
(* Theorems about what a page displays.                                    *)

LEMMA DisplayStep ==
  ASSUME ServiceInv, ServiceInv', DisplayInv, [ConsoleNext]_consoleVars
  PROVE  DisplayInv'
BY PagesTypedStep, AloneStep, WaitsAreServedStep, NamesAreStoredStep, CallsAreNamedStep,
   ResultsAreStoredStep, DisplaysAreStoredStep DEF DisplayInv

LEMMA DisplayInit == ConsoleInit => DisplayInv
<1> SUFFICES ASSUME ConsoleInit PROVE DisplayInv
  OBVIOUS
<1>1. \A t \in Threads : thread[t].pc = "idle"
  BY DEF ConsoleInit, Init, IdleThread
<1>2. \A p \in Pages :
        /\ pages[p] = Page /\ pages[p].submit = Rests /\ pages[p].action = Rests
        /\ pages[p].shown = None /\ \A c \in Chain : pages[p][c] = Rests
  BY DEF ConsoleInit, Page, Chain
<1>3. PagesTyped
  <2>1. Page \in PageState
    BY RestsTyped DEF Page, PageState
  <2>2. pages \in [Pages -> PageState]
    BY <2>1 DEF ConsoleInit
  <2> QED BY <1>2, <2>2, RestsTyped DEF PagesTyped, SubmitSteps, ActionSteps, OnTheWay
<1>4. Alone /\ WaitsAreServed
  BY <1>2, RestsTyped, ConsoleAssumption DEF Alone, WaitsAreServed, Awaits
<1>5. NamesAreStored
  BY <1>2, RestsTyped DEF NamesAreStored, Names
<1>6. CallsAreNamed /\ ResultsAreStored
  BY <1>1 DEF CallsAreNamed, ResultsAreStored, Named, Succeeded, PlanPoints, Ending
<1>7. DisplaysAreStored
  BY <1>2 DEF DisplaysAreStored
<1> QED BY <1>3, <1>4, <1>5, <1>6, <1>7 DEF DisplayInv

LEMMA DisplayAlways == ConsoleSpec => [](ServiceInv /\ DisplayInv)
<1>1. ConsoleSpec => []ServiceInv
  BY ServiceHolds
<1>2. ConsoleInit => DisplayInv
  BY DisplayInit
<1>3. ServiceInv /\ ServiceInv' /\ DisplayInv /\ [ConsoleNext]_consoleVars => DisplayInv'
  BY DisplayStep
<1> QED BY <1>1, <1>2, <1>3, PTL DEF ConsoleSpec

(* Every page holds a workflow of the repository's type or none, and no    *)
(* two chains of requests ever wait for one handler.                       *)
THEOREM PagesAreTyped == ConsoleSpec => []PageTypeOK
<1>1. DisplayInv => PageTypeOK
  BY DEF DisplayInv, PagesTyped, PageState, Alone, PageTypeOK, SubmitSteps, ActionSteps
<1> QED BY <1>1, DisplayAlways, PTL

(* However many pages there are and whatever answers are lost or late, a   *)
(* page shows a beginning of the stored history, and at the stored version *)
(* the stored workflow itself.                                             *)
THEOREM ShownStaysStored == ConsoleSpec => []ShownIsStored
<1>1. ASSUME ServiceInv, DisplayInv, NEW p \in Pages, pages[p].shown # None
      PROVE  LET shown == pages[p].shown
                 stored == workflows[shown.id]
             IN /\ IsPrefix(shown.history, stored.history)
                /\ shown.version = stored.version => shown = stored
  <2> DEFINE shown == pages[p].shown
             stored == workflows[shown.id]
  <2>1. shown \in Workflow /\ stored # None /\ Follows(stored, shown)
    BY <1>1 DEF DisplayInv, DisplaysAreStored, SeenIn
  <2>2. stored \in Workflow
    BY <1>1, <2>1 DEF ServiceInv, TypeInv, TypeOK, Workflow
  <2> HIDE DEF shown, stored
  <2>3. shown.version = stored.version => shown = stored
    BY <2>1 DEF Follows
  <2> DEFINE old == shown.history
             new == stored.history
  <2>4. /\ old \in Seq(Transition) /\ new \in Seq(Transition)
        /\ Len(old) <= Len(new) /\ \A i \in 1..Len(old) : new[i] = old[i]
    BY <2>1, <2>2 DEF Follows, Workflow
  <2> HIDE DEF old, new
  <2>5. SubSeq(old, 1, Len(old)) = SubSeq(new, 1, Len(old))
    BY <2>4
  <2>6. IsPrefix(old, new)
    BY <2>4, <2>5 DEF IsPrefix
  <2> QED BY <2>3, <2>6 DEF old, new, shown, stored
<1>2. ServiceInv /\ DisplayInv => ShownIsStored
  BY <1>1 DEF ShownIsStored
<1> QED BY <1>2, DisplayAlways, PTL

LEMMA OutcomeStep ==
  ASSUME ServiceInv, ServiceInv', DisplayInv, [ConsoleNext]_consoleVars,
         NEW q \in Pages, NEW d \in Chain,
         pages[q][d].step # "idle", pages'[q][d].step = "idle"
  PROVE  \/ pages'[q].error
         \/ /\ pages'[q].shown # None
            /\ pages[q][d].step # "processing" => pages'[q].shown.id = pages[q][d].id
<1> USE DEF DisplayInv
<1>1. pages'[q][d] # pages[q][d]
  OBVIOUS
<1>2. ASSUME NEW c \in Chain, Drops(q, c) PROVE pages'[q].error
  BY <1>2 DEF Drops
<1>3. ASSUME Presses(q) PROVE pages'[q].error
  <2>1. CASE BeginsSubmit(q)
    BY <1>1, <2>1 DEF BeginsSubmit, OtherChains
  <2>2. CASE BeginsDecide(q) \/ BeginsProcess(q)
    BY <1>1, <2>2 DEF BeginsDecide, BeginsProcess, OtherChains
  <2> QED BY <1>2, <1>3, <2>1, <2>2 DEF Presses, Gives
<1>4. ASSUME NEW t \in Threads, Asks(q, t) PROVE FALSE
  <2>1. AsksFor(q, d, t)
    BY <1>1, <1>4, AsksOne
  <2> QED BY <2>1, AsksOn DEF OnTheWay
<1>5. ASSUME NEW c \in Chain, NEW t \in Threads, Hears(q, c, t)
      PROVE  \/ pages'[q].error
             \/ /\ pages'[q].shown # None
                /\ pages[q][d].step # "processing" => pages'[q].shown.id = pages[q][d].id
  <2>1. CASE Drops(q, c)
    BY <1>2, <2>1
  <2>2. CASE pages'[q][c] = [pages[q][c] EXCEPT !.step = "plan", !.on = None,
                                                !.id = thread[t].snap.id]
             /\ OtherChains(q, c)
    <3>1. pages[q][c] \in ChainState
      BY Fields DEF PagesTyped
    <3>2. pages'[q][c].step = "plan"
      BY <2>2, <3>1 DEF ChainState
    <3> QED BY <1>1, <2>2, <3>2 DEF OtherChains
  <2>3. CASE /\ thread[t].reply = "ok" /\ pages[q][c].step # "creating"
             /\ OtherChains(q, c) /\ pages'[q].shown = thread[t].snap
    <3>1. c = d /\ pages[q][d].on = t /\ Succeeded(thread[t])
      BY <1>1, <1>5, <2>3 DEF OtherChains, Hears, Respond, Succeeded, Ending
    <3>2. thread[t].snap \in Workflow /\ thread[t].call.id = thread[t].snap.id
      BY <3>1 DEF ResultsAreStored, SeenIn, CallsAreNamed, Named
    <3>3. pages[q][d].step \in OnTheWay \ {"creating"}
      BY <2>3, <3>1, ConsoleAssumption DEF PagesTyped
    <3>4. WorksFor(pages[q][d], thread[t])
      BY <3>1 DEF WaitsAreServed, Awaits
    <3> QED BY <2>3, <3>2, <3>3, <3>4, NoneAssumption DEF WorksFor, OnTheWay
  <2> QED BY <1>5, <2>1, <2>2, <2>3 DEF Hears
<1> QED BY <1>1, <1>2, <1>3, <1>4, <1>5, OnePage

(* AC2-008 for any number of pages and handlers: a chain of requests ends  *)
(* in an error on the page or in the workflow it was about.                *)
THEOREM EveryChainEndsVisibly == ConsoleSpec => OutcomeIsShown
<1> DEFINE shows == \A p \in Pages, c \in Chain :
                      LET chain == pages[p][c]
                          after == pages'[p]
                      IN chain.step # "idle" /\ after[c].step = "idle" =>
                           \/ after.error
                           \/ /\ after.shown # None
                              /\ chain.step # "processing" => after.shown.id = chain.id
<1>1. ServiceInv /\ ServiceInv' /\ DisplayInv /\ [ConsoleNext]_consoleVars => shows
  BY OutcomeStep
<1>2. ServiceInv /\ ServiceInv' /\ DisplayInv /\ [ConsoleNext]_consoleVars
        => [shows]_consoleVars
  BY <1>1
<1> HIDE DEF shows
<1>3. ConsoleSpec => [][shows]_consoleVars
  BY <1>2, DisplayAlways, PTL DEF ConsoleSpec
<1> QED BY <1>3 DEF OutcomeIsShown, shows

-----------------------------------------------------------------------------
(* Planning: who may be the first to plan a workflow.                      *)

(* A handler on its way to store was just sent there, or stands there.     *)
LEMMA AtStore ==
  ASSUME ServiceInv, ServiceInv', PagesTyped, [ConsoleNext]_consoleVars,
         NEW u \in Threads, thread'[u].pc = "create_store"
  PROVE  \/ thread'[u] = thread[u]
         \/ \E p \in Pages : AsksCreate(p, u) /\ FreshKey(thread'[u].call.key)
<1>1. CASE Works(u)
  <2>1. thread'[u].pc \notin Ending /\ thread'[u].pc # "idle"
    BY DEF Ending
  <2> QED BY <1>1, <2>1
          DEF Works, Turns, GoesOn, GivesUp, Succeeds, IsAudited, IsAnswered, Ending, IdleThread
<1>2. ASSUME NEW p \in Pages, Asks(p, u)
      PROVE  AsksCreate(p, u) /\ FreshKey(thread'[u].call.key)
  BY <1>2, CreateCalls, PlanCalls, DecideCalls, ProcessCalls
     DEF Asks, Failed, Succeeded, Ending
<1>3. thread'[u] # IdleThread
  BY DEF IdleThread
<1>4. \/ thread'[u] = thread[u] \/ Works(u) \/ \E p \in Pages : Asks(p, u)
  BY <1>3, HandlerMoves DEF Quiet, Works, Stops, Calls
<1> QED BY <1>1, <1>2, <1>4

LEMMA KeysAreNewStep ==
  ASSUME ServiceInv, ServiceInv', PagesTyped, KeysAreNew, [ConsoleNext]_consoleVars
  PROVE  KeysAreNew'
<1>1. ASSUME NEW u \in Threads, thread'[u].pc = "create_store"
      PROVE  idempotency'[<<thread'[u].call.by, thread'[u].call.key>>] = None
  <2> DEFINE call == thread'[u].call
  <2>1. call.id \in WorkflowIds /\ call.by \in Principals /\ call.key \in Keys
    BY <1>1 DEF ServiceInv, TypeInv, Shape
  <2>2. workflows'[call.id] = None
    BY <1>1 DEF ServiceInv, AuthorisationInv, IdIsFresh
  <2>3. CASE thread'[u] = thread[u]
    <3>1. idempotency[<<call.by, call.key>>] = None
      BY <1>1, <2>3 DEF KeysAreNew, Known
    <3>2. CASE UNCHANGED idempotency
      BY <3>1, <3>2
    <3>3. ASSUME NEW v \in Threads, Submits(v)
          PROVE  idempotency'[<<call.by, call.key>>] = None
      <4>1. v # u
        <5>1. workflows'[thread[v].call.id] # None
          BY <3>3, SubmitterKnows, NoneAssumption DEF ServiceInv
        <5> QED BY <2>2, <2>3, <5>1
      <4>2. thread[v].call.key # call.key
        BY <1>1, <2>3, <3>3, <4>1 DEF KeysAreNew, Submits
      <4> QED BY <2>1, <3>1, <3>3, <4>2 DEF Submits, ServiceInv, TypeInv, TypeOK
    <3>4. UNCHANGED idempotency \/ \E v \in Threads : Submits(v)
      BY ClientStep, RepositoryStep
         DEF ServiceInv, Proposes, Decides, Lapses, Starts, Finishes, Writes
    <3> QED BY <3>2, <3>3, <3>4
  <2>4. ASSUME NEW p \in Pages, AsksCreate(p, u), FreshKey(call.key)
        PROVE  idempotency'[<<call.by, call.key>>] = None
    BY <2>1, <2>4, CreateCalls DEF FreshKey, Calls
  <2> QED BY <1>1, <2>3, <2>4, AtStore
<1>2. ASSUME NEW u \in Threads, NEW v \in Threads, u # v,
             thread'[u].pc = "create_store", thread'[v].pc = "create_store"
      PROVE  thread'[u].call.key # thread'[v].call.key
  <2>1. ASSUME NEW x \in Threads, NEW y \in Threads, x # y, thread'[y] = thread[y],
               NEW p \in Pages, AsksCreate(p, x), FreshKey(thread'[x].call.key)
        PROVE  thread'[x].call.key # thread'[y].call.key
    BY <2>1 DEF FreshKey
  <2>2. ASSUME NEW x \in Threads, NEW y \in Threads, x # y,
               NEW p \in Pages, AsksCreate(p, x)
        PROVE  thread'[y] = thread[y]
    BY <2>2, CreateCalls DEF Calls
  <2>3. CASE thread'[u] = thread[u] /\ thread'[v] = thread[v]
    BY <1>2, <2>3 DEF KeysAreNew
  <2> QED BY <1>2, <2>1, <2>2, <2>3, AtStore
<1> QED BY <1>1, <1>2 DEF KeysAreNew, Known

(* A handler keeps what it has, or is just given it.                       *)
LEMMA HasSteps ==
  ASSUME ServiceInv, ServiceInv', DisplayInv, KeysAreNew, [ConsoleNext]_consoleVars,
         NEW u \in Threads, NEW w \in WorkflowIds, Has(thread'[u], w)
  PROVE  \/ Has(thread[u], w) /\ thread'[u].call.op = thread[u].call.op
         \/ \E p \in Pages : AsksCreate(p, u) /\ FreshId(w)
         \/ \E p \in Pages : AsksPlan(p, u) /\ Keeps(pages[p], w)
<1>1. CASE Works(u)
  <2> DEFINE r == thread[u]
             s == thread'[u]
  <2>1. s.pc # "idle" /\ Turns(r, s)
    BY <1>1 DEF Has, Works
  <2>2. CASE GoesOn(r, s) \/ GivesUp(r, s) \/ IsAudited(r, s)
    BY <2>2 DEF GoesOn, GivesUp, IsAudited, Resting, Has
  <2>3. CASE Succeeds(r, s)
    <3>1. r.pc # "idle" /\ s.call.op = r.call.op
      BY <2>3 DEF Succeeds, Resting
    <3>2. r.pc = "create_store" => Known(r.call) = None
      BY DEF KeysAreNew
    <3>3. s.call.id = r.call.id
      BY <2>3, <3>2
         DEF Succeeds, IsCreated, IsPlanned, IsQueued, IsRejected, IsExecuted
    <3> QED BY <3>1, <3>3 DEF Has
  <2> QED BY <2>1, <2>2, <2>3 DEF Turns, IsAnswered, IdleThread
<1>2. CASE thread'[u] = thread[u]
  BY <1>2
<1>3. ASSUME NEW p \in Pages, Asks(p, u)
      PROVE  \/ AsksCreate(p, u) /\ FreshId(w)
             \/ AsksPlan(p, u) /\ Keeps(pages[p], w)
  <2>1. AsksCreate(p, u) => FreshId(w)
    BY CreateCalls DEF Has
  <2>2. AsksPlan(p, u) => Keeps(pages[p], w)
    <3>1. pages[p]["submit"] = pages[p].submit
      OBVIOUS
    <3> QED BY <3>1, PlanCalls, Zenon DEF Has, AsksPlan, Waiting, Keeps
  <2>3. ~AsksDecide(p, u) /\ ~AsksProcess(p, u)
    BY DecideCalls, ProcessCalls DEF Has
  <2> QED BY <1>3, <2>1, <2>2, <2>3 DEF Asks
<1>4. thread'[u] # IdleThread
  BY DEF Has, IdleThread
<1>5. \/ thread'[u] = thread[u] \/ Works(u) \/ \E p \in Pages : Asks(p, u)
  BY <1>4, HandlerMoves DEF DisplayInv, Quiet, Works, Stops, Calls
<1> QED BY <1>1, <1>2, <1>3, <1>5

(* A page keeps what it is about to plan, or just heard of it.             *)
LEMMA KeepsSteps ==
  ASSUME ServiceInv, ServiceInv', DisplayInv, [ConsoleNext]_consoleVars,
         NEW q \in Pages, NEW w \in WorkflowIds, Keeps(pages'[q], w)
  PROVE  \/ Keeps(pages[q], w)
         \/ \E t \in Threads :
              /\ Hears(q, "submit", t) /\ Stops(t) /\ Succeeded(thread[t])
              /\ Has(thread[t], w) /\ thread[t].call.op = "create"
<1> USE DEF DisplayInv
<1>1. /\ pages'[q].submit = pages'[q]["submit"] /\ pages[q].submit = pages[q]["submit"]
      /\ "submit" \in Chain
  BY DEF Chain
<1>2. CASE pages'[q]["submit"] = pages[q]["submit"]
  BY <1>1, <1>2 DEF Keeps
<1>3. pages'[q]["submit"].step = "plan"
  BY <1>1 DEF Keeps
<1>4. pages'[q]["submit"] # Rests
  BY <1>3, RestsTyped
<1>5. ASSUME Presses(q) PROVE pages'[q]["submit"] = pages[q]["submit"]
  BY <1>1, <1>3, <1>5, PressedChain
<1>6. ASSUME NEW t \in Threads, Asks(q, t) PROVE pages'[q]["submit"] = pages[q]["submit"]
  <2>1. ~AsksFor(q, "submit", t)
    BY <1>1, <1>3, AsksOn DEF OnTheWay
  <2> QED BY <1>1, <1>6, <2>1, AsksOne
<1>7. ASSUME NEW c \in Chain, Drops(q, c) PROVE pages'[q]["submit"] = pages[q]["submit"]
  BY <1>1, <1>4, <1>7 DEF Drops, OtherChains
<1>8. ASSUME NEW c \in Chain, NEW t \in Threads, Hears(q, c, t), Stops(t),
             pages'[q]["submit"] # pages[q]["submit"]
      PROVE  /\ Hears(q, "submit", t) /\ Stops(t) /\ Succeeded(thread[t])
             /\ Has(thread[t], w) /\ thread[t].call.op = "create"
  <2>1. c = "submit"
    BY <1>1, <1>8 DEF Hears, Drops, OtherChains
  <2>2. /\ thread[t].reply = "ok" /\ pages[q][c].step = "creating" /\ pages[q][c].on = t
        /\ pages'[q][c] = [pages[q][c] EXCEPT !.step = "plan", !.on = None,
                                              !.id = thread[t].snap.id]
    BY <1>4, <1>8, <2>1 DEF Hears, Drops
  <2>3. thread[t].pc = "reply" /\ Succeeded(thread[t])
    BY <1>8, <2>2 DEF Hears, Respond, Succeeded, Ending
  <2>4. pages'[q][c].id = thread[t].snap.id
    <3>1. pages[q][c] \in ChainState
      BY Fields DEF PagesTyped
    <3> QED BY <2>2, <3>1 DEF ChainState
  <2>5. thread[t].call.op = "create" /\ thread[t].call.id = thread[t].snap.id
    BY <2>2, <2>3 DEF WaitsAreServed, Awaits, WorksFor, CallsAreNamed, Named
  <2> QED BY <1>1, <1>8, <2>1, <2>3, <2>4, <2>5 DEF Has, Keeps
<1> QED BY <1>2, <1>5, <1>6, <1>7, <1>8, OnePage

(* At any time one handler or one page has the planning of a workflow.     *)
LEMMA OneClaimStep ==
  ASSUME ServiceInv, ServiceInv', DisplayInv, KeysAreNew, OneClaim,
         [ConsoleNext]_consoleVars
  PROVE  OneClaim'
<1>1. \A w \in WorkflowIds : FreshId(w) =>
        /\ \A u \in Threads : ~Has(thread[u], w)
        /\ \A q \in Pages : ~Keeps(pages[q], w)
  <2>1. \A w : FreshId(w) => \A u \in Threads : ~Has(thread[u], w)
    BY DEF FreshId, Has
  <2>2. \A q \in Pages, w \in WorkflowIds : Keeps(pages[q], w) => workflows[w] # None
    <3>1. ASSUME NEW q \in Pages, NEW w \in WorkflowIds, Keeps(pages[q], w)
          PROVE  workflows[w] # None
      <4>1. pages[q]["submit"] = pages[q].submit /\ "submit" \in Chain
        BY DEF Chain
      <4> QED BY <3>1, <4>1 DEF Keeps, DisplayInv, NamesAreStored, Names
    <3> QED BY <3>1
  <2> QED BY <2>1, <2>2 DEF FreshId
<1>2. ASSUME NEW t \in Threads, NEW p \in Pages, AsksCreate(p, t) \/ AsksPlan(p, t)
      PROVE  \A u \in Threads : u # t => thread'[u] = thread[u]
  BY <1>2, AskedIdle DEF DisplayInv, Asks, Calls
<1>3. ASSUME NEW w \in WorkflowIds, NEW t \in Threads, NEW u \in Threads, t # u,
             Has(thread'[t], w), Has(thread'[u], w)
      PROVE  FALSE
  <2>1. ASSUME NEW x \in Threads, NEW y \in Threads, x # y, Has(thread'[y], w),
               NEW p \in Pages, \/ AsksCreate(p, x) /\ FreshId(w)
                                \/ AsksPlan(p, x) /\ Keeps(pages[p], w)
        PROVE  FALSE
    BY <1>1, <1>2, <2>1 DEF OneClaim
  <2>2. ~(Has(thread[t], w) /\ Has(thread[u], w))
    BY <1>3 DEF OneClaim
  <2> QED BY <1>3, <2>1, <2>2, HasSteps
<1>4. ASSUME NEW w \in WorkflowIds, NEW p \in Pages, NEW q \in Pages, p # q,
             Keeps(pages'[p], w), Keeps(pages'[q], w)
      PROVE  FALSE
  <2>1. ASSUME NEW x \in Pages, NEW y \in Pages, x # y, Keeps(pages'[y], w),
               NEW t \in Threads, Hears(x, "submit", t), Has(thread[t], w)
        PROVE  FALSE
    BY <2>1 DEF OneClaim, Hears, OtherPages
  <2>2. ~(Keeps(pages[p], w) /\ Keeps(pages[q], w))
    BY <1>4 DEF OneClaim
  <2> QED BY <1>4, <2>1, <2>2, KeepsSteps
<1>5. ASSUME NEW w \in WorkflowIds, NEW t \in Threads, NEW p \in Pages,
             Has(thread'[t], w), Keeps(pages'[p], w)
      PROVE  FALSE
  <2>1. ASSUME NEW u \in Threads, Has(thread[u], w), Stops(u) PROVE ~Has(thread[t], w)
    <3>1. t # u
      BY <1>5, <2>1 DEF Stops, Has, IdleThread
    <3> QED BY <2>1, <3>1 DEF OneClaim
  <2>2. CASE Has(thread[t], w)
    <3>1. ~Keeps(pages[p], w)
      BY <2>2 DEF OneClaim
    <3> QED BY <1>5, <2>1, <2>2, <3>1, KeepsSteps
  <2>3. ASSUME NEW q \in Pages, AsksCreate(q, t), FreshId(w) PROVE FALSE
    BY <1>1, <1>5, <2>3, KeepsSteps
  <2>4. ASSUME NEW q \in Pages, AsksPlan(q, t), Keeps(pages[q], w) PROVE FALSE
    <3>1. \A u \in Threads : ~Has(thread[u], w)
      BY <2>4 DEF OneClaim
    <3>2. Keeps(pages[p], w) /\ p = q
      BY <1>5, <2>4, <3>1, KeepsSteps DEF OneClaim
    <3>3. pages'[q]["submit"].step = "planning"
      BY <2>4, WaitingFields DEF DisplayInv, AsksPlan, Chain
    <3>4. pages'[q]["submit"] = pages'[q].submit
      OBVIOUS
    <3> QED BY <1>5, <3>2, <3>3, <3>4 DEF Keeps
  <2> QED BY <1>5, <2>2, <2>3, <2>4, HasSteps
<1> QED BY <1>3, <1>4, <1>5 DEF OneClaim

(* A stored proposal changes only where a plan is stored.                  *)
LEMMA ProposalSteps ==
  ASSUME TypeInv, AuthorisationInv, [Next]_vars, NEW w \in WorkflowIds,
         workflows[w] # None
  PROVE  \/ workflows'[w].proposal = workflows[w].proposal
         \/ /\ workflows'[w].proposal # None
            /\ \E t \in Threads : thread[t].pc = "plan_store" /\ thread[t].snap.id = w
<1>1. ASSUME NEW t \in Threads, Submits(t)
      PROVE  workflows'[w].proposal = workflows[w].proposal
  BY <1>1, SubmitterKnows DEF Submits
<1>2. ASSUME NEW t \in Threads, Proposes(t),
             workflows'[w].proposal # workflows[w].proposal
      PROVE  /\ workflows'[w].proposal # None
             /\ thread[t].pc = "plan_store" /\ thread[t].snap.id = w
  <2> DEFINE self == thread[t]
             proposal == CreateToolProposal(self.snap, self.at)
             new == ApplyPlanningResult(self.snap, proposal)
  <2>1. /\ self.pc \in HoldsSnap /\ self.snap \in Workflow /\ proposal \in Proposal
        /\ self.pc = "plan_store" /\ Writes(t, new)
    BY <1>2, ProposerKnows DEF Proposes
  <2> HIDE DEF proposal
  <2>2. new.proposal = proposal
    BY <2>1, PlannedFields
  <2> HIDE DEF new
  <2>3. workflows'[w] = IF w = self.snap.id THEN new ELSE workflows[w]
    BY <2>1, WriterKnows
  <2> QED BY <1>2, <2>1, <2>2, <2>3, NoneAssumption
<1>3. ASSUME NEW t \in Threads, thread[t].pc \in HoldsSnap, NEW new, Writes(t, new),
             new.proposal = thread[t].snap.proposal
      PROVE  workflows'[w].proposal = workflows[w].proposal
  BY <1>3, WriterKnows
<1>4. ASSUME NEW t \in Threads, Decides(t)
      PROVE  workflows'[w].proposal = workflows[w].proposal
  <2> DEFINE self == thread[t]
             made == CreateApprovalDecision(self.snap.proposal, self.call.by,
                       self.call.decision, self.call.key, self.at)
             new == RecordApproval(self.snap, made)
  <2>1. /\ self.pc \in HoldsSnap /\ self.snap \in Workflow /\ made \in Approval
        /\ Writes(t, new)
    BY <1>4, DeciderKnows
  <2> HIDE DEF made
  <2>2. new.proposal = self.snap.proposal
    BY <2>1, DecidedFields
  <2> HIDE DEF new
  <2> QED BY <1>3, <2>1, <2>2
<1>5. ASSUME NEW t \in Threads, Lapses(t)
      PROVE  workflows'[w].proposal = workflows[w].proposal
  BY <1>3, <1>5, LapserKnows, ExpiredFields
<1>6. ASSUME NEW t \in Threads, Starts(t)
      PROVE  workflows'[w].proposal = workflows[w].proposal
  BY <1>3, <1>6, StarterKnows, BegunFields
<1>7. ASSUME NEW t \in Threads, Finishes(t)
      PROVE  workflows'[w].proposal = workflows[w].proposal
  <2> DEFINE self == thread[t]
             new == CompleteExecution(self.snap, self.result)
  <2>1. /\ self.pc \in HoldsSnap /\ self.snap \in Workflow /\ self.snap.approval \in Approval
        /\ self.result \in Ticket /\ Writes(t, new)
    BY <1>7, FinisherKnows
  <2>2. new.proposal = self.snap.proposal
    BY <2>1, CompletedFields
  <2> HIDE DEF new
  <2> QED BY <1>3, <2>1, <2>2
<1> QED BY <1>1, <1>2, <1>4, <1>5, <1>6, <1>7, RepositoryStep

LEMMA ClaimsAreUnplannedStep ==
  ASSUME ServiceInv, ServiceInv', DisplayInv, KeysAreNew, OneClaim, ClaimsAreUnplanned,
         [ConsoleNext]_consoleVars
  PROVE  ClaimsAreUnplanned'
<1>1. ASSUME NEW t \in Threads, thread[t].pc = "plan_store"
      PROVE  Has(thread[t], thread[t].snap.id)
  BY <1>1 DEF DisplayInv, CallsAreNamed, Named, PlanPoints, Has
<1>2. ASSUME NEW w \in WorkflowIds, workflows[w] # None, workflows[w].proposal = None,
             workflows'[w].proposal # None
      PROVE  \E t \in Threads : thread[t].pc = "plan_store" /\ Has(thread[t], w)
  BY <1>1, <1>2, ProposalSteps, ClientStep DEF ServiceInv
<1>3. ASSUME NEW w \in WorkflowIds, NEW p \in Pages, Keeps(pages'[p], w)
      PROVE  workflows'[w].proposal = None
  <2>1. CASE Keeps(pages[p], w)
    <3>1. pages[p]["submit"] = pages[p].submit /\ "submit" \in Chain
      BY DEF Chain
    <3>2. workflows[w] # None
      BY <2>1, <3>1 DEF Keeps, DisplayInv, NamesAreStored, Names
    <3>3. workflows[w].proposal = None /\ \A t \in Threads : ~Has(thread[t], w)
      BY <2>1 DEF ClaimsAreUnplanned, OneClaim
    <3> QED BY <1>2, <3>2, <3>3
  <2>2. ASSUME NEW t \in Threads, Stops(t), Succeeded(thread[t]), Has(thread[t], w),
               thread[t].call.op = "create"
        PROVE  workflows'[w].proposal = None
    BY <2>2 DEF ClaimsAreUnplanned, Stops
  <2> QED BY <1>3, <2>1, <2>2, KeepsSteps
<1>4. ASSUME NEW w \in WorkflowIds, NEW t \in Threads, Has(thread'[t], w),
             thread'[t].call.op = "create", Succeeded(thread'[t])
      PROVE  workflows'[w].proposal = None
  <2>1. \A p \in Pages : ~AsksCreate(p, t) /\ ~AsksPlan(p, t)
    BY <1>4, CreateCalls, PlanCalls DEF Succeeded, Failed, Ending
  <2>2. Has(thread[t], w) /\ thread[t].call.op = "create"
    BY <1>4, <2>1, HasSteps
  <2>3. CASE Succeeded(thread[t])
    <3>1. workflows[w] # None
      BY <2>2, <2>3
         DEF Has, DisplayInv, ResultsAreStored, SeenIn, CallsAreNamed, Named
    <3>2. workflows[w].proposal = None
      BY <2>2, <2>3 DEF ClaimsAreUnplanned
    <3>3. \A u \in Threads : Has(thread[u], w) => u = t
      BY <2>2 DEF OneClaim
    <3>4. thread[t].pc # "plan_store"
      BY <2>3 DEF Succeeded, Ending
    <3> QED BY <1>2, <3>1, <3>2, <3>3, <3>4
  <2>4. CASE ~Succeeded(thread[t])
    <3>1. thread'[t] # thread[t] /\ thread'[t].pc # "idle" /\ thread[t].pc # "idle"
      BY <1>4, <2>2, <2>4 DEF Has
    <3>2. Works(t)
      BY <3>1, HandlerMoves DEF DisplayInv, Quiet, Works, Stops, Calls, IdleThread
    <3>3. Turns(thread[t], thread'[t]) /\ Frame(thread[t]) /\ Named(thread[t])
      BY <3>2 DEF Works, ServiceInv, QueueInv, DisplayInv, CallsAreNamed
    <3>4. Succeeds(thread[t], thread'[t])
      BY <1>4, <2>4, <3>1, <3>3
         DEF Turns, GoesOn, GivesUp, IsAudited, IsAnswered, IdleThread, Succeeded,
             Ending, Resting
    <3>5. IsCreated(thread[t], thread'[t])
      BY <2>2, <3>3, <3>4
         DEF Succeeds, IsPlanned, IsQueued, IsRejected, IsExecuted, Named, PlanPoints,
             Frame, Deciding, HoldsTask
    <3>6. Known(thread[t].call) = None
      BY <3>5 DEF IsCreated, KeysAreNew
    <3> QED BY <1>4, <3>5, <3>6 DEF IsCreated, Has
  <2> QED BY <2>3, <2>4
<1> QED BY <1>3, <1>4 DEF ClaimsAreUnplanned

LEMMA ClaimStep ==
  ASSUME ServiceInv, ServiceInv', DisplayInv, ClaimInv, [ConsoleNext]_consoleVars
  PROVE  ClaimInv'
<1>1. PagesTyped /\ KeysAreNew /\ OneClaim /\ ClaimsAreUnplanned
  BY DEF DisplayInv, ClaimInv
<1> QED BY <1>1, KeysAreNewStep, OneClaimStep, ClaimsAreUnplannedStep DEF ClaimInv

-----------------------------------------------------------------------------
(* What reads approved has been queued.                                    *)

LEMMA DecidedIsPlannedStep ==
  ASSUME ServiceInv, ServiceInv', DecidedIsPlanned, [ConsoleNext]_consoleVars
  PROVE  DecidedIsPlanned'
<1>1. ASSUME NEW w \in WorkflowIds, IsDecided(w)' PROVE workflows'[w].proposal # None
  <2>1. CASE IsDecided(w)
    BY <2>1, ProposalSteps, ClientStep
       DEF ServiceInv, DecidedIsPlanned, IsDecided, Exists
  <2>2. CASE ~IsDecided(w)
    <3>1. PICK t \in Threads : Decides(t) /\ thread[t].snap.id = w
      BY <1>1, <2>2, DecisionIsWritten, ClientStep DEF ServiceInv
    <3> DEFINE self == thread[t]
               made == CreateApprovalDecision(self.snap.proposal, self.call.by,
                         self.call.decision, self.call.key, self.at)
               new == RecordApproval(self.snap, made)
    <3>2. /\ self.pc \in HoldsSnap /\ self.snap \in Workflow /\ made \in Approval
          /\ Writes(t, new)
      BY <3>1, DeciderKnows DEF ServiceInv
    <3>3. self.snap.proposal \in Proposal
      BY <3>1 DEF Decides, Deciding, ServiceInv, TypeInv, Shape
    <3> HIDE DEF made
    <3>4. new.proposal = self.snap.proposal
      BY <3>2, DecidedFields
    <3> HIDE DEF new
    <3>5. workflows'[w] = new
      BY <3>1, <3>2, WriterKnows DEF ServiceInv
    <3> QED BY <3>3, <3>4, <3>5, NoneAssumption
  <2> QED BY <2>1, <2>2
<1> QED BY <1>1 DEF DecidedIsPlanned, IsDecided

LEMMA TurnsSettle ==
  ASSUME ServiceInv, ServiceInv', CallsAreNamed, ResultsAreQueued,
         [ConsoleNext]_consoleVars, NEW t \in Threads, Works(t)
  PROVE  Settles(thread'[t], ListedIn(order'))
<1> DEFINE r == thread[t]
           s == thread'[t]
<1>1. Turns(r, s) /\ Frame(r) /\ Shape(r) /\ Named(r) /\ Settles(r, ListedIn(order))
  BY DEF Works, ServiceInv, QueueInv, TypeInv, CallsAreNamed, ResultsAreQueued
<1>2. ListedIn(order) \subseteq ListedIn(order')
  BY Lasting
<1>3. CASE GoesOn(r, s) \/ GivesUp(r, s) \/ IsAnswered(r, s)
  BY <1>3 DEF GoesOn, GivesUp, IsAnswered, IdleThread, Settles, Succeeded, Ending, Resting
<1>4. CASE IsAudited(r, s)
  BY <1>1, <1>2, <1>4 DEF IsAudited, Settles, Succeeded, Ending
<1>5. CASE Succeeds(r, s)
  <2>1. s.call.op = r.call.op /\ s.snap \in Workflow /\ s.snap.id \in WorkflowIds
    BY <1>5 DEF Succeeds, Workflow
  <2>2. CASE IsCreated(r, s)
    BY <1>1, <2>1, <2>2 DEF IsCreated, Named, Settles
  <2>3. CASE IsPlanned(r, s)
    BY <1>1, <2>1, <2>3 DEF IsPlanned, Named, PlanPoints, Settles
  <2>4. CASE IsQueued(r, s)
    <3>1. s.call.op = "decide"
      BY <1>1, <2>1, <2>4 DEF IsQueued, Frame, Deciding
    <3>2. s.snap.id \in ListedIn(order')
      BY <2>1, <2>4 DEF IsQueued, IsListed, ListedIn
    <3> QED BY <3>1, <3>2 DEF Settles
  <2>5. CASE IsRejected(r, s)
    <3>1. s.call.op = "decide"
      BY <1>1, <2>1, <2>5 DEF IsRejected, Frame, Deciding
    <3> QED BY <2>5, <3>1 DEF IsRejected, Settles
  <2>6. CASE IsExecuted(r, s)
    <3>1. /\ s.call.op = "process" /\ s.snap.id = r.task.workflow
          /\ r.task \in Task /\ tasks[r.task.workflow] # None
      BY <1>1, <2>1, <2>6 DEF IsExecuted, Frame, HoldsTask, Named, Shape
    <3>2. Queued(s.snap.id)
      BY <2>1, <3>1 DEF ServiceInv, QueueInv, TasksAreQueued
    <3>3. s.snap.id \in ListedIn(order')
      BY <1>2, <2>1, <3>2 DEF ListedIn, Queued
    <3> QED BY <3>1, <3>3 DEF Settles
  <2> QED BY <1>5, <2>2, <2>3, <2>4, <2>5, <2>6 DEF Succeeds
<1> QED BY <1>1, <1>3, <1>4, <1>5 DEF Turns

(* A call that is answered at once: a plan is never found already made, a  *)
(* decision found already made was not an approval.                        *)
LEMMA CalledSettles ==
  ASSUME ServiceInv, DisplayInv, ClaimInv, DecidedIsPlanned,
         NEW p \in Pages, NEW t \in Threads, Asks(p, t), NEW queued
  PROVE  Settles(thread'[t], queued)
<1> DEFINE s == thread'[t]
           found == workflows[s.call.id]
<1>1. CASE AsksCreate(p, t)
  BY <1>1, CreateCalls DEF Settles
<1>2. CASE AsksProcess(p, t)
  BY <1>2, ProcessCalls DEF Settles, Succeeded, Failed, Ending
<1>3. CASE AsksPlan(p, t)
  <2>1. Keeps(pages[p], s.call.id) /\ s.call.id \in WorkflowIds
    <3>1. pages[p]["submit"] = pages[p].submit
      OBVIOUS
    <3> QED BY <1>3, <3>1, PlanCalls, Zenon DEF AsksPlan, Waiting, Keeps
  <2>2. found.proposal = None
    BY <2>1 DEF ClaimInv, ClaimsAreUnplanned
  <2>3. ~Succeeded(s)
    BY <1>3, <2>2, PlanCalls DEF Succeeded, Failed, Ending
  <2> QED BY <2>3 DEF Settles
<1>4. CASE AsksDecide(p, t)
  <2>1. s.call.op = "decide" /\ s.call.id \in WorkflowIds
    BY <1>4, DecideCalls
  <2>2. ASSUME Succeeded(s) PROVE s.snap.status # "approved"
    <3>1. /\ s.snap = found /\ found # None /\ found.approval # None
          /\ found.approval.decision = s.call.decision
          /\ ~(s.call.decision = "approved" /\ found.proposal # None)
      BY <1>4, <2>2, DecideCalls DEF Succeeded, Failed, Ending
    <3>2. found.proposal # None
      BY <2>1, <3>1 DEF DecidedIsPlanned, Exists
    <3>3. Legal(found)
      BY <2>1, <3>1 DEF ServiceInv, AuthorisationInv, StoredIsLegal, Exists
    <3> QED BY <3>1, <3>2, <3>3, Zenon DEF Legal
  <2> QED BY <2>1, <2>2 DEF Settles
<1> QED BY <1>1, <1>2, <1>3, <1>4 DEF Asks

LEMMA ResultsAreQueuedStep ==
  ASSUME ServiceInv, ServiceInv', DisplayInv, ClaimInv, DecidedIsPlanned,
         ResultsAreQueued, [ConsoleNext]_consoleVars
  PROVE  ResultsAreQueued'
<1>1. ASSUME NEW u \in Threads PROVE Settles(thread'[u], ListedIn(order'))
  <2>1. CASE thread'[u] = thread[u]
    BY <2>1, Lasting DEF ResultsAreQueued, Settles
  <2>2. CASE Works(u)
    BY <2>2, TurnsSettle DEF DisplayInv
  <2>3. CASE Stops(u)
    BY <2>3 DEF Stops, IdleThread, Settles, Succeeded, Ending
  <2>4. ASSUME NEW p \in Pages, Asks(p, u) PROVE Settles(thread'[u], ListedIn(order'))
    BY <2>4, CalledSettles
  <2> QED BY <2>1, <2>2, <2>3, <2>4, HandlerMoves DEF DisplayInv, Quiet, Works, Stops, Calls
<1> QED BY <1>1 DEF ResultsAreQueued

LEMMA DisplaysAreQueuedStep ==
  ASSUME ServiceInv, ServiceInv', DisplayInv, ResultsAreQueued, DisplaysAreQueued,
         [ConsoleNext]_consoleVars
  PROVE  DisplaysAreQueued'
<1> USE DEF DisplayInv
<1>1. ASSUME NEW q \in Pages, pages'[q].shown # None, pages'[q].shown.status = "approved"
      PROVE  pages'[q].shown.id \in ListedIn(order')
  <2>1. CASE pages'[q].shown = pages[q].shown
    BY <1>1, <2>1, Lasting DEF DisplaysAreQueued, Shows
  <2>2. CASE Presses(q)
    BY <1>1, <2>1, <2>2
       DEF Presses, BeginsSubmit, BeginsDecide, BeginsProcess, Gives, Drops
  <2>3. ASSUME NEW t \in Threads, Asks(q, t) PROVE pages'[q].shown = pages[q].shown
    BY <2>3 DEF Asks, AsksCreate, AsksPlan, AsksProcess, AsksDecide, Waiting
  <2>4. ASSUME NEW c \in Chain, NEW t \in Threads, Hears(q, c, t),
               thread[t].reply = "ok", pages[q][c].step # "creating",
               pages'[q].shown = thread[t].snap
        PROVE  pages'[q].shown.id \in ListedIn(order')
    <3>1. Succeeded(thread[t]) /\ pages[q][c].on = t
      BY <2>4 DEF Hears, Respond, Succeeded, Ending
    <3>2. pages[q][c].step \in OnTheWay \ {"creating"}
      BY <2>4, <3>1, ConsoleAssumption DEF PagesTyped
    <3>3. WorksFor(pages[q][c], thread[t])
      BY <3>1 DEF WaitsAreServed, Awaits
    <3>4. thread[t].call.op \in {"plan", "decide", "process"}
      BY <3>2, <3>3 DEF WorksFor, OnTheWay
    <3>5. thread[t].snap.id \in ListedIn(order)
      BY <1>1, <2>4, <3>1, <3>4 DEF ResultsAreQueued, Settles
    <3> QED BY <2>4, <3>5, Lasting
  <2>5. \A c \in Chain : Drops(q, c) => pages'[q].shown = pages[q].shown
    BY DEF Drops
  <2> QED BY <2>1, <2>2, <2>3, <2>4, <2>5, OnePage DEF Hears
<1> QED BY <1>1 DEF DisplaysAreQueued, Shows

LEMMA ShownStep ==
  ASSUME ServiceInv, ServiceInv', DisplayInv, ClaimInv, ShownInv,
         [ConsoleNext]_consoleVars
  PROVE  ShownInv'
BY DecidedIsPlannedStep, ResultsAreQueuedStep, DisplaysAreQueuedStep DEF ShownInv

-----------------------------------------------------------------------------
(* Repeated decisions.                                                     *)

LEMMA DecisionsAreKeysStep ==
  ASSUME ServiceInv, ServiceInv', PagesTyped, DecisionsAreKeys, [ConsoleNext]_consoleVars
  PROVE  DecisionsAreKeys'
<1>1. ASSUME NEW w \in WorkflowIds, IsDecided(w)'
      PROVE  workflows'[w].approval.key = workflows'[w].approval.decision
  <2>1. CASE IsDecided(w)
    <3> DEFINE made == workflows[w].approval
               new  == workflows'[w].approval
    <3>1. made \in Approval /\ made.key = made.decision
      BY <2>1 DEF DecisionsAreKeys, IsDecided, Exists, ServiceInv, TypeInv, TypeOK, Workflow
    <3>2. new \in {made, [made EXCEPT !.consumed = TRUE]}
      BY <2>1, Lasting DEF IsDecided, Exists, Follows
    <3> HIDE DEF made, new
    <3>3. \A a \in Approval : LET b == [a EXCEPT !.consumed = TRUE]
                              IN b.key = a.key /\ b.decision = a.decision
      BY DEF Approval
    <3>4. new.key = new.decision
      BY <3>1, <3>2, <3>3
    <3> QED BY <3>4 DEF new
  <2>2. CASE ~IsDecided(w)
    <3>1. PICK t \in Threads : Decides(t) /\ thread[t].snap.id = w
      BY <1>1, <2>2, DecisionIsWritten, ClientStep DEF ServiceInv
    <3> DEFINE self == thread[t]
               made == CreateApprovalDecision(self.snap.proposal, self.call.by,
                         self.call.decision, self.call.key, self.at)
               new == RecordApproval(self.snap, made)
    <3>2. /\ self.pc \in HoldsSnap /\ self.snap \in Workflow /\ made \in Approval
          /\ Writes(t, new)
      BY <3>1, DeciderKnows DEF ServiceInv
    <3>3. self.call.key = self.call.decision
      BY <3>1 DEF Decides, Deciding, ServiceInv, QueueInv, Frame, DecisionsAreKeys
    <3>4. made.key = self.call.key /\ made.decision = self.call.decision
      BY DEF CreateApprovalDecision
    <3> HIDE DEF made
    <3>5. new.approval = made
      BY <3>2, DecidedFields
    <3> HIDE DEF new
    <3>6. workflows'[w] = new
      BY <3>1, <3>2, WriterKnows DEF ServiceInv
    <3> QED BY <3>3, <3>4, <3>5, <3>6
  <2> QED BY <2>1, <2>2
<1>2. ASSUME NEW u \in Threads, thread'[u].pc # "idle", thread'[u].call.op = "decide"
      PROVE  thread'[u].call.key = thread'[u].call.decision
  <2>1. CASE thread'[u] = thread[u]
    BY <1>2, <2>1 DEF DecisionsAreKeys
  <2>2. CASE Works(u)
    <3>1. /\ thread[u].pc # "idle" /\ thread'[u].call.op = thread[u].call.op
          /\ thread'[u].call.key = thread[u].call.key
          /\ thread'[u].call.decision = thread[u].call.decision
      BY <1>2, <2>2
         DEF Works, Turns, GoesOn, GivesUp, Succeeds, IsAudited, IsAnswered, Resting,
             IdleThread
    <3> QED BY <1>2, <3>1 DEF DecisionsAreKeys
  <2>3. ~Stops(u)
    BY <1>2 DEF Stops, IdleThread
  <2>4. ASSUME NEW p \in Pages, Asks(p, u)
        PROVE  thread'[u].call.key = thread'[u].call.decision
    BY <1>2, <2>4, CreateCalls, PlanCalls, DecideCalls, ProcessCalls DEF Asks
  <2> QED BY <2>1, <2>2, <2>3, <2>4, HandlerMoves DEF Quiet, Works, Stops, Calls
<1> QED BY <1>1, <1>2 DEF DecisionsAreKeys, IsDecided

(* Only a decision that was sent again is marked so, while it is awaited.  *)
LEMMA AgainSteps ==
  ASSUME ServiceInv, ServiceInv', DisplayInv, RepeatsAreServed, [ConsoleNext]_consoleVars,
         NEW q \in Pages, pages'[q]["action"].again
  PROVE  pages'[q]["action"] = pages[q]["action"] \/ \E t \in Threads : AsksDecide(q, t)
<1> USE DEF DisplayInv
<1>1. "action" \in Chain /\ pages'[q]["action"] # Rests
  BY RestsTyped DEF Chain
<1>2. ASSUME Presses(q) PROVE pages'[q]["action"] = pages[q]["action"]
  BY <1>1, <1>2, PressedChain
<1>3. ASSUME NEW c \in Chain, Drops(q, c) PROVE pages'[q]["action"] = pages[q]["action"]
  BY <1>1, <1>3 DEF Drops, OtherChains
<1>4. ASSUME NEW t \in Threads, Asks(q, t)
      PROVE  pages'[q]["action"] = pages[q]["action"] \/ AsksDecide(q, t)
  <2>1. ~AsksProcess(q, t)
    <3>1. ASSUME AsksProcess(q, t)
          PROVE  pages[q]["action"].step = "process" /\ pages[q]["action"].again
      BY <1>1, <3>1, WaitingFields DEF AsksProcess
    <3> QED BY <3>1 DEF RepeatsAreServed
  <2> QED BY <1>1, <1>4, <2>1, AsksOne DEF AsksFor
<1>5. ASSUME NEW c \in Chain, NEW t \in Threads, Hears(q, c, t)
      PROVE  pages'[q]["action"] = pages[q]["action"]
  <2>1. pages[q]["action"].step # "creating"
    <3>1. pages[q]["action"] = pages[q].action
      OBVIOUS
    <3> QED BY <3>1 DEF PagesTyped, ActionSteps
  <2> QED BY <1>1, <1>5, <2>1 DEF Hears, Drops, OtherChains
<1> QED BY <1>2, <1>3, <1>4, <1>5, OnePage

LEMMA RepeatsAreServedStep ==
  ASSUME ServiceInv, ServiceInv', DisplayInv, RepeatInv, [ConsoleNext]_consoleVars
  PROVE  RepeatsAreServed'
<1> USE DEF DisplayInv
<1>1. RepeatsAreServed /\ DecisionsAreKeys /\ "action" \in Chain
  BY DEF RepeatInv, Chain
<1>2. ASSUME NEW q \in Pages, pages'[q]["action"].again,
             pages'[q]["action"] = pages[q]["action"]
      PROVE  /\ pages'[q]["action"].step = "deciding"
             /\ \A t \in Threads : pages'[q]["action"].on = t =>
                  Repeats(pages'[q]["action"], thread'[t], workflows')
  <2> DEFINE chain == pages[q]["action"]
  <2>1. chain.step = "deciding" /\ chain.id \in WorkflowIds /\ workflows[chain.id] # None
    BY <1>1, <1>2 DEF RepeatsAreServed, NamesAreStored, Names
  <2>2. workflows'[chain.id] # None /\ workflows'[chain.id].owner = workflows[chain.id].owner
    BY <2>1, Lasting DEF Follows
  <2>3. ASSUME NEW t \in Threads, chain.on = t
        PROVE  Repeats(chain, thread'[t], workflows')
    <3>1. Repeats(chain, thread[t], workflows)
      BY <1>1, <1>2, <2>3 DEF RepeatsAreServed
    <3>2. CASE thread'[t] = thread[t]
      BY <2>2, <3>1, <3>2 DEF Repeats
    <3>3. CASE Works(t) /\ thread[t].pc # "reply"
      <4>1. CASE thread[t].pc = "decide_requeue"
        BY <3>1, <3>3, <4>1 DEF Works, Repeats, Succeeded, Ending
      <4>2. CASE thread[t].pc = "audit"
        <5>1. IsAudited(thread[t], thread'[t])
          BY <3>3, <4>2
             DEF Works, Turns, GoesOn, GivesUp, Succeeds, IsAnswered, Resting, Ending
        <5> QED BY <2>2, <3>1, <4>2, <5>1 DEF IsAudited, Repeats, Succeeded, Ending
      <4> QED BY <3>1, <3>3, <4>1, <4>2 DEF Repeats, Succeeded, Ending
    <3>4. ~AsksFor(q, "action", t)
      <4>1. AsksFor(q, "action", t) => Asks(q, t)
        BY DEF AsksFor, Asks
      <4> QED BY <1>1, <2>3, <4>1, AskedIdle
    <3>5. pages'[q]["action"].on = t
      BY <1>2, <2>3
    <3> QED BY <1>1, <2>3, <3>2, <3>3, <3>4, <3>5, AwaitedSteps
  <2> QED BY <1>2, <2>1, <2>3
<1>3. ASSUME NEW q \in Pages, pages'[q]["action"].again, NEW t \in Threads, AsksDecide(q, t)
      PROVE  /\ pages'[q]["action"].step = "deciding"
             /\ \A u \in Threads : pages'[q]["action"].on = u =>
                  Repeats(pages'[q]["action"], thread'[u], workflows')
  <2> DEFINE chain == pages[q]["action"]
             found == workflows[chain.id]
             made  == found.approval
             again == made # None /\ made.decision = chain.decision
             sent  == pages'[q]["action"]
             s     == thread'[t]
  <2>1. /\ chain.step = "decide" /\ workflows' = workflows
        /\ sent = [chain EXCEPT !.step = "deciding", !.on = t, !.again = again]
    BY <1>3, DecideCalls, Zenon DEF AsksDecide, Calls
  <2>2. chain \in ChainState
    BY Fields DEF PagesTyped, Chain
  <2>3. chain.id \in WorkflowIds /\ found # None
    BY <1>1, <2>1 DEF NamesAreStored, Names
  <2>4. \A c \in ChainState : \A b :
          LET n == [c EXCEPT !.step = "deciding", !.on = t, !.again = b]
          IN /\ n.step = "deciding" /\ n.on = t /\ n.again = b
             /\ n.id = c.id /\ n.by = c.by /\ n.decision = c.decision
    BY DEF ChainState
  <2> HIDE DEF again
  <2>5. /\ sent.step = "deciding" /\ sent.on = t /\ sent.again = again
        /\ sent.id = chain.id /\ sent.by = chain.by /\ sent.decision = chain.decision
    BY <2>1, <2>2, <2>4
  <2>6. made # None /\ made.decision = chain.decision
    BY <1>3, <2>5 DEF again
  <2>7. made.key = made.decision
    BY <1>1, <2>3, <2>6 DEF DecisionsAreKeys, IsDecided, Exists
  <2>8. \/ s.pc \in Ending /\ s.reply = "PermissionDenied" /\ found.owner = chain.by
        \/ s.pc = "decide_requeue" /\ s.snap = found
        \/ Succeeded(s) /\ s.snap = found
    <3>1. /\ s.call.id = chain.id /\ s.call.by = chain.by
          /\ s.call.decision = chain.decision /\ s.call.key = s.call.decision
      BY <1>3, DecideCalls
    <3>2. made.key = s.call.key /\ made.decision = s.call.decision
      BY <2>6, <2>7, <3>1
    <3>3. LET stored == workflows[s.call.id]
          IN /\ stored # None /\ stored.approval # None
             /\ stored.approval.key = s.call.key
             /\ stored.approval.decision = s.call.decision
      BY <2>3, <2>6, <3>1, <3>2, SMTT(20)
    <3>4. LET stored == workflows[s.call.id]
          IN \/ s.pc \in Ending /\ s.reply = "PermissionDenied" /\ stored.owner = s.call.by
             \/ s.pc = "decide_requeue" /\ s.snap = stored
             \/ Succeeded(s) /\ s.snap = stored
      BY <1>3, <3>3, DecideCalls
    <3> QED BY <3>1, <3>4
  <2>9. Repeats(sent, s, workflows')
    BY <2>1, <2>3, <2>5, <2>6, <2>8 DEF Repeats
  <2> QED BY <2>5, <2>9
<1> QED BY <1>1, <1>2, <1>3, AgainSteps DEF RepeatsAreServed

LEMMA RepeatStep ==
  ASSUME ServiceInv, ServiceInv', DisplayInv, RepeatInv, [ConsoleNext]_consoleVars
  PROVE  RepeatInv'
<1>1. PagesTyped /\ DecisionsAreKeys
  BY DEF DisplayInv, RepeatInv
<1> QED BY <1>1, DecisionsAreKeysStep, RepeatsAreServedStep DEF RepeatInv

-----------------------------------------------------------------------------
(* Theorems about what a page relies on.                                   *)

LEMMA ClaimsInit == ConsoleInit => ClaimInv /\ ShownInv /\ RepeatInv
<1> SUFFICES ASSUME ConsoleInit PROVE ClaimInv /\ ShownInv /\ RepeatInv
  OBVIOUS
<1>1. \A t \in Threads : thread[t].pc = "idle"
  BY DEF ConsoleInit, Init, IdleThread
<1>2. \A p \in Pages :
        /\ pages[p].submit = Rests /\ pages[p].shown = None
        /\ pages[p]["action"] = Rests
  BY DEF ConsoleInit, Page
<1>3. \A w \in WorkflowIds : workflows[w] = None
  BY DEF ConsoleInit, Init
<1>4. ClaimInv
  BY <1>1, <1>2, RestsTyped
     DEF ClaimInv, KeysAreNew, OneClaim, ClaimsAreUnplanned, Has, Keeps
<1>5. ShownInv
  BY <1>1, <1>2, <1>3
     DEF ShownInv, ResultsAreQueued, DisplaysAreQueued, DecidedIsPlanned, Settles,
         Succeeded, Ending, Shows, Exists
<1>6. RepeatInv
  BY <1>1, <1>2, <1>3, RestsTyped
     DEF RepeatInv, DecisionsAreKeys, RepeatsAreServed, IsDecided, Exists
<1> QED BY <1>4, <1>5, <1>6

LEMMA ClaimsAlways ==
  ConsoleSpec => [](ServiceInv /\ DisplayInv /\ ClaimInv /\ ShownInv /\ RepeatInv)
<1>1. ConsoleInit => ClaimInv /\ ShownInv /\ RepeatInv
  BY ClaimsInit
<1>2. /\ ServiceInv /\ ServiceInv' /\ DisplayInv /\ DisplayInv'
      /\ ClaimInv /\ ShownInv /\ RepeatInv /\ [ConsoleNext]_consoleVars
      => ClaimInv' /\ ShownInv' /\ RepeatInv'
  BY ClaimStep, ShownStep, RepeatStep
<1> QED BY <1>1, <1>2, DisplayAlways, PTL DEF ConsoleSpec

(* A page that shows an approved workflow may ask for its task: whatever   *)
(* handler died between the approval and the enqueue, the page could not   *)
(* hear of the approval before a retry had queued the task.                *)
THEOREM ShownApprovedWasQueued == ConsoleSpec => []ShownApprovedIsQueued
<1>1. DisplaysAreQueued => ShownApprovedIsQueued
  BY DEF DisplaysAreQueued, ShownApprovedIsQueued, ListedIn, Queued
<1> QED BY <1>1, ClaimsAlways, PTL DEF ShownInv

(* A decision that is sent again with its key is answered by the decision  *)
(* that stands, or refused to the owner of the workflow; it is never a     *)
(* conflict and never late.                                                *)
THEOREM RepeatedDecisionReplays == ConsoleSpec => []RepeatIsReplay
<1>1. RepeatsAreServed => RepeatIsReplay
  <2> SUFFICES ASSUME RepeatsAreServed, NEW p \in Pages, NEW t \in Threads,
                      pages[p].action.again, pages[p].action.on = t,
                      thread[t].pc = "reply"
               PROVE  \/ /\ thread[t].reply = "ok"
                         /\ thread[t].snap.approval.decision = pages[p].action.decision
                      \/ /\ thread[t].reply = "PermissionDenied"
                         /\ workflows[pages[p].action.id].owner = pages[p].action.by
    BY DEF RepeatIsReplay
  <2>1. pages[p]["action"] = pages[p].action
    OBVIOUS
  <2>2. Repeats(pages[p].action, thread[t], workflows)
    BY <2>1 DEF RepeatsAreServed
  <2> QED BY <2>2 DEF Repeats, Succeeded
<1> QED BY <1>1, ClaimsAlways, PTL DEF RepeatInv

=============================================================================
