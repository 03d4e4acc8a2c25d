------------------------ MODULE AuthorisationProofs ------------------------
(***************************************************************************)
(* Theorems on what the service guarantees to the people who submit,       *)
(* review and execute: authorised tickets, one per workflow, decisions     *)
(* that stand and histories that only grow, for every set of threads,      *)
(* workflows, principals, requests, contexts and keys, every role          *)
(* assignment, every policy and every interruption.                        *)
(***************************************************************************)
EXTENDS WorkflowProofs, SequenceTheorems

-----------------------------------------------------------------------------
(* Follows is a preorder on snapshots.                                     *)

LEMMA FollowsItself == ASSUME NEW w \in Workflow PROVE Follows(w, w)
BY DEF Follows, Workflow

LEMMA FollowsTransitive ==
  ASSUME NEW a \in Workflow, NEW b \in Workflow, NEW c \in Workflow,
         Follows(b, a), Follows(c, b)
  PROVE  Follows(c, a)
<1>1. /\ a.version \in Nat /\ b.version \in Nat /\ c.version \in Nat
      /\ a.history \in Seq(Transition) /\ b.history \in Seq(Transition)
      /\ c.history \in Seq(Transition)
      /\ a.approval \in Approval \cup {None} /\ b.approval \in Approval \cup {None}
  BY DEF Workflow
<1>2. /\ c.id = a.id /\ c.owner = a.owner
      /\ c.request = a.request /\ c.context = a.context
      /\ a.status \in Started => c.status \in Started
  BY DEF Follows
<1>3. a.version <= c.version /\ (a.version = c.version => c = a)
  BY <1>1 DEF Follows
<1>4. /\ Len(a.history) <= Len(c.history)
      /\ \A i \in 1..Len(a.history) : c.history[i] = a.history[i]
  <2>1. Len(a.history) \in Nat /\ Len(b.history) \in Nat /\ Len(c.history) \in Nat
    BY <1>1
  <2> QED BY <2>1 DEF Follows
<1>5. a.approval # None =>
        c.approval \in {a.approval, [a.approval EXCEPT !.consumed = TRUE]}
  <2> SUFFICES ASSUME a.approval # None
      PROVE c.approval \in {a.approval, [a.approval EXCEPT !.consumed = TRUE]}
    OBVIOUS
  <2>1. a.approval \in Approval
    BY <1>1
  <2>2. b.approval \in {a.approval, [a.approval EXCEPT !.consumed = TRUE]}
    BY DEF Follows
  <2>3. b.approval # None
    BY <2>1, <2>2, NoneAssumption DEF Approval
  <2>4. c.approval \in {b.approval, [b.approval EXCEPT !.consumed = TRUE]}
    BY <2>3 DEF Follows
  <2>5. [[a.approval EXCEPT !.consumed = TRUE] EXCEPT !.consumed = TRUE]
          = [a.approval EXCEPT !.consumed = TRUE]
    BY <2>1 DEF Approval
  <2> QED BY <2>2, <2>4, <2>5
<1> QED BY <1>2, <1>3, <1>4, <1>5 DEF Follows

(* Appending transitions and raising the version makes a later snapshot.   *)
LEMMA ExtensionFollows ==
  ASSUME NEW w \in Workflow, NEW new \in Workflow, NEW p \in Seq(Transition),
         new.id = w.id, new.owner = w.owner,
         new.request = w.request, new.context = w.context,
         w.version < new.version, new.history = w.history \o p,
         w.approval # None =>
           new.approval \in {w.approval, [w.approval EXCEPT !.consumed = TRUE]},
         w.status \in Started => new.status \in Started
  PROVE  Follows(new, w)
<1>1. w.history \in Seq(Transition) /\ w.version \in Nat /\ new.version \in Nat
  BY DEF Workflow
<1>2. /\ Len(w.history) <= Len(w.history \o p)
      /\ \A i \in 1..Len(w.history) : (w.history \o p)[i] = w.history[i]
  BY <1>1
<1> QED BY <1>1, <1>2 DEF Follows

-----------------------------------------------------------------------------
(* Each pure function turns a legal snapshot into a legal, later one.      *)

LEMMA StepPath ==
  ASSUME NEW w \in Workflow, NEW status \in Status
  PROVE  Path(w.status, <<status>>) \in Seq(Transition)
<1>1. <<status>> \in Seq(State) /\ w.status \in State
  BY StatusIsState DEF Workflow
<1> QED BY <1>1, PathType

(* The governance evidence that planning and execution append.             *)
LEMMA AppendGoverned ==
  /\ Append(<<"workflow_intake">>, "agent_planning")
       = <<"workflow_intake", "agent_planning">>
  /\ Append(<<"workflow_intake", "agent_planning">>, "tool_execution")
       = <<"workflow_intake", "agent_planning", "tool_execution">>
<1> DEFINE s == Append(<<"workflow_intake">>, "agent_planning")
           t == <<"workflow_intake", "agent_planning">>
           u == Append(t, "tool_execution")
           v == <<"workflow_intake", "agent_planning", "tool_execution">>
<1>1. /\ s \in Seq(Operation) /\ Len(s) = 2
      /\ s[1] = "workflow_intake" /\ s[2] = "agent_planning"
  BY DEF Operation
<1>2. /\ t \in Seq(Operation) /\ Len(t) = 2
      /\ t[1] = "workflow_intake" /\ t[2] = "agent_planning"
  BY DEF Operation
<1>3. /\ v \in Seq(Operation) /\ Len(v) = 3 /\ v[1] = "workflow_intake"
      /\ v[2] = "agent_planning" /\ v[3] = "tool_execution"
  BY DEF Operation
<1>4. s = t
  <2> HIDE DEF s, t
  <2>1. \A i \in 1..Len(s) : s[i] = t[i]
    BY <1>1, <1>2
  <2> QED BY <1>1, <1>2, <2>1, SeqEqual
<1>5. /\ u \in Seq(Operation) /\ Len(u) = 3 /\ u[1] = "workflow_intake"
      /\ u[2] = "agent_planning" /\ u[3] = "tool_execution"
  BY DEF Operation
<1>6. u = v
  <2> HIDE DEF u, v
  <2>1. \A i \in 1..Len(u) : u[i] = v[i]
    BY <1>3, <1>5
  <2> QED BY <1>3, <1>5, <2>1, SeqEqual
<1> QED BY <1>4, <1>6

LEMMA ReceivedIsLegal ==
  ASSUME NEW id, NEW p, NEW r, NEW c,
         <<"workflow_intake", r, c>> \notin PolicyDenies
  PROVE  Legal(Receive(id, p, r, c)) /\ Receive(id, p, r, c).status = "received"
BY DEF Legal, Receive, Allows, Planned, Started

LEMMA PlannedIsLegal ==
  ASSUME NEW w \in Workflow, Legal(w), w.status = "received",
         Allows("agent_planning", w), w.request \notin Injected \cup Ungrounded,
         NEW now \in Nat
  PROVE  LET planned == ApplyPlanningResult(w, CreateToolProposal(w, now))
         IN /\ Legal(planned) /\ Follows(planned, w)
            /\ planned.status = "awaiting_approval"
<1> DEFINE a == Advance(w, PlanningPath)
           proposal == CreateToolProposal(w, now)
           planned == ApplyPlanningResult(w, proposal)
<1>1. proposal \in Proposal /\ proposal.digest = <<w.id, w.request>>
  BY ProposalType DEF CreateToolProposal
<1> HIDE DEF proposal
<1>2. planned \in Workflow
  BY <1>1, PlannedType
<1>3. PlanningPath[Len(PlanningPath)] \in Status /\ Len(PlanningPath) > 0
  BY PlanningPathType DEF Status
<1>4. /\ a \in Workflow
      /\ a = [w EXCEPT !.status  = a.status,
                       !.version = a.version,
                       !.history = a.history]
      /\ a.status = "awaiting_approval"
      /\ a.version = w.version + 8
      /\ a.history = w.history \o Path(w.status, PlanningPath)
  BY <1>3, PlanningPathType, AdvanceType
<1>5. Path(w.status, PlanningPath) \in Seq(Transition)
  BY PathType, PlanningPathType, StatusIsState DEF Workflow
<1>6. /\ planned.id = w.id /\ planned.owner = w.owner
      /\ planned.request = w.request /\ planned.context = w.context
      /\ planned.status = "awaiting_approval" /\ planned.version = w.version + 8
      /\ planned.history = w.history \o Path(w.status, PlanningPath)
      /\ planned.governed = Append(w.governed, "agent_planning")
      /\ planned.proposal = proposal /\ planned.approval = w.approval
  BY <1>4 DEF ApplyPlanningResult, Workflow
<1> HIDE DEF a, planned
<1>7. w.approval = None /\ planned.governed = <<"workflow_intake", "agent_planning">>
  BY <1>6, AppendGoverned DEF Legal
<1>8. Legal(planned)
  BY <1>1, <1>6, <1>7 DEF Legal, Allows, Planned, Started
<1>9. Follows(planned, w)
  <2>1. w.version < planned.version
    BY <1>6 DEF Workflow
  <2> QED BY <1>2, <1>5, <1>6, <1>7, <2>1, ExtensionFollows DEF Started
<1> QED BY <1>6, <1>8, <1>9 DEF planned, proposal

LEMMA DecidedIsLegal ==
  ASSUME NEW w \in Workflow, Legal(w), w.status = "awaiting_approval",
         w.proposal \in Proposal,
         NEW p \in Principals, p # w.owner,
         HasRole(p, {"reviewer", "administrator"}),
         NEW d \in Decision, NEW k \in Keys, NEW now \in Nat
  PROVE  LET decided == RecordApproval(w,
                          CreateApprovalDecision(w.proposal, p, d, k, now))
         IN /\ Legal(decided) /\ Follows(decided, w)
            /\ decided.status = d
            /\ decided.approval # None /\ decided.approval.decision = d
<1> DEFINE approval == CreateApprovalDecision(w.proposal, p, d, k, now)
           decided == RecordApproval(w, approval)
           a == Advance(w, <<d>>)
<1>1. approval \in Approval
  BY ApprovalType
<1>2. /\ approval.digest = <<w.id, w.request>> /\ approval.reviewer = p
      /\ approval.decision = d
  BY NoneAssumption DEF CreateApprovalDecision, Legal
<1> HIDE DEF approval
<1>3. decided \in Workflow
  BY <1>1, DecidedType
<1>4. d \in Status
  BY DEF Decision, Status
<1>5. /\ a \in Workflow
      /\ a = [w EXCEPT !.status  = d,
                       !.version = w.version + 1,
                       !.history = a.history]
      /\ a.history = w.history \o Path(w.status, <<d>>)
  BY <1>4, AdvanceOnce
<1>6. Path(w.status, <<d>>) \in Seq(Transition)
  BY <1>4, StepPath
<1>7. /\ decided.id = w.id /\ decided.owner = w.owner
      /\ decided.request = w.request /\ decided.context = w.context
      /\ decided.status = d /\ decided.version = w.version + 1
      /\ decided.history = w.history \o Path(w.status, <<d>>)
      /\ decided.governed = w.governed
      /\ decided.proposal = w.proposal /\ decided.approval = approval
  BY <1>2, <1>5 DEF RecordApproval, Workflow
<1> HIDE DEF a, decided
<1>8. w.approval = None /\ approval # None
  BY <1>1, NoneAssumption DEF Legal
<1>9. Legal(decided)
  BY <1>2, <1>7, <1>8 DEF Legal, Allows, Planned, Started, Decision
<1>10. Follows(decided, w)
  <2>1. w.version < decided.version
    BY <1>7 DEF Workflow
  <2> QED BY <1>3, <1>6, <1>7, <1>8, <2>1, ExtensionFollows DEF Started
<1> QED BY <1>2, <1>7, <1>8, <1>9, <1>10 DEF decided, approval

LEMMA ExpiredIsLegal ==
  ASSUME NEW w \in Workflow, Legal(w),
         w.status \in {"awaiting_approval", "approved"}
  PROVE  /\ Legal(Expire(w)) /\ Follows(Expire(w), w)
         /\ Expire(w).status = "expired"
<1> DEFINE expired == Expire(w)
<1>1. expired \in Workflow
  BY ExpiredType
<1>2. "expired" \in Status
  BY DEF Status
<1>3. /\ expired = [w EXCEPT !.status  = "expired",
                             !.version = w.version + 1,
                             !.history = expired.history]
      /\ expired.history = w.history \o Path(w.status, <<"expired">>)
  BY <1>2, AdvanceOnce DEF Expire
<1>4. Path(w.status, <<"expired">>) \in Seq(Transition)
  BY <1>2, StepPath
<1> HIDE DEF expired
<1>5. /\ expired.id = w.id /\ expired.owner = w.owner
      /\ expired.request = w.request /\ expired.context = w.context
      /\ expired.status = "expired" /\ expired.version = w.version + 1
      /\ expired.governed = w.governed
      /\ expired.proposal = w.proposal /\ expired.approval = w.approval
  BY <1>3 DEF Workflow
<1>6. Legal(expired)
  BY <1>5 DEF Legal, Allows, Planned, Started
<1>7. Follows(expired, w)
  <2>1. w.version < expired.version
    BY <1>5 DEF Workflow
  <2> QED BY <1>1, <1>3, <1>4, <1>5, <2>1, ExtensionFollows DEF Started
<1> QED BY <1>5, <1>6, <1>7 DEF expired

LEMMA BegunIsLegal ==
  ASSUME NEW w \in Workflow, Legal(w), w.status = "approved",
         Allows("tool_execution", w)
  PROVE  /\ Legal(BeginExecution(w)) /\ Follows(BeginExecution(w), w)
         /\ BeginExecution(w).status = "executing"
<1> DEFINE begun == BeginExecution(w)
           a == Advance(w, <<"executing">>)
<1>1. begun \in Workflow
  BY BegunType
<1>2. "executing" \in Status
  BY DEF Status
<1>3. /\ a \in Workflow
      /\ a = [w EXCEPT !.status  = "executing",
                       !.version = w.version + 1,
                       !.history = a.history]
      /\ a.history = w.history \o Path(w.status, <<"executing">>)
  BY <1>2, AdvanceOnce
<1>4. Path(w.status, <<"executing">>) \in Seq(Transition)
  BY <1>2, StepPath
<1>5. /\ begun.id = w.id /\ begun.owner = w.owner
      /\ begun.request = w.request /\ begun.context = w.context
      /\ begun.status = "executing" /\ begun.version = w.version + 1
      /\ begun.history = w.history \o Path(w.status, <<"executing">>)
      /\ begun.governed = Append(w.governed, "tool_execution")
      /\ begun.proposal = w.proposal /\ begun.approval = w.approval
  BY <1>3 DEF BeginExecution, Workflow
<1> HIDE DEF a, begun
<1>6. begun.governed = <<"workflow_intake", "agent_planning", "tool_execution">>
  BY <1>5, AppendGoverned DEF Legal
<1>7. Legal(begun)
  BY <1>5, <1>6 DEF Legal, Allows, Planned, Started
<1>8. Follows(begun, w)
  <2>1. w.version < begun.version
    BY <1>5 DEF Workflow
  <2> QED BY <1>1, <1>4, <1>5, <2>1, ExtensionFollows DEF Started
<1> QED BY <1>5, <1>7, <1>8 DEF begun

LEMMA CompletedIsLegal ==
  ASSUME NEW w \in Workflow, Legal(w), w.status = "executing",
         w.approval \in Approval, NEW ticket \in Ticket
  PROVE  LET done == CompleteExecution(w, ticket)
         IN /\ Legal(done) /\ Follows(done, w)
            /\ done.status = "completed" /\ done.ticket = ticket
            /\ done.approval.consumed
<1> DEFINE done == CompleteExecution(w, ticket)
           p == <<"evaluating", "completed">>
           a == Advance(w, p)
           consumed == [w.approval EXCEPT !.consumed = TRUE]
<1>1. done \in Workflow
  BY CompletedType
<1>2. p \in Seq(State)
  BY StatusIsState DEF Status
<1>3. /\ a \in Workflow
      /\ a = [w EXCEPT !.status  = "completed",
                       !.version = w.version + 2,
                       !.history = a.history]
      /\ a.history = w.history \o Path(w.status, p)
  BY AdvanceToCompletion
<1>4. Path(w.status, p) \in Seq(Transition)
  BY <1>2, PathType, StatusIsState DEF Workflow
<1> HIDE DEF p
<1>5. /\ done.id = w.id /\ done.owner = w.owner
      /\ done.request = w.request /\ done.context = w.context
      /\ done.status = "completed" /\ done.version = w.version + 2
      /\ done.history = w.history \o Path(w.status, p)
      /\ done.governed = w.governed /\ done.ticket = ticket
      /\ done.proposal = w.proposal /\ done.approval = consumed
  BY <1>3 DEF CompleteExecution, Workflow, p
<1> HIDE DEF a, done
<1>6. /\ consumed \in Approval /\ consumed # None /\ consumed.consumed
      /\ consumed.reviewer = w.approval.reviewer
      /\ consumed.decision = w.approval.decision
      /\ consumed.digest = w.approval.digest
  BY NoneAssumption DEF Approval
<1> HIDE DEF consumed
<1>7. Legal(done)
  BY <1>5, <1>6, NoneAssumption DEF Legal, Allows, Planned, Started
<1>8. Follows(done, w)
  <2>1. w.version < done.version
    BY <1>5 DEF Workflow
  <2> QED BY <1>1, <1>4, <1>5, <2>1, ExtensionFollows DEF Started, consumed
<1> QED BY <1>5, <1>6, <1>7, <1>8 DEF done

-----------------------------------------------------------------------------
(* What handlers know survives the steps of the others.                    *)

LEMMA KnowsGrows ==
  ASSUME NEW s \in ThreadState, Shape(s),
         NEW old \in [WorkflowIds -> Workflow \cup {None}],
         NEW new \in [WorkflowIds -> Workflow \cup {None}],
         NEW issued, NEW issued2, issued \subseteq issued2,
         Extends(new, old), Knows(s, old, issued)
  PROVE  Knows(s, new, issued2)
<1>1. s.pc \in HoldsSnap =>
        /\ Legal(s.snap)
        /\ new[s.snap.id] # None /\ Follows(new[s.snap.id], s.snap)
  <2> SUFFICES ASSUME s.pc \in HoldsSnap
      PROVE  /\ Legal(s.snap)
             /\ new[s.snap.id] # None /\ Follows(new[s.snap.id], s.snap)
    OBVIOUS
  <2>1. /\ Legal(s.snap) /\ old[s.snap.id] # None
        /\ Follows(old[s.snap.id], s.snap)
    BY DEF Knows
  <2>2. s.snap \in Workflow /\ s.snap.id \in WorkflowIds
    BY DEF Shape, Workflow
  <2>3. new[s.snap.id] # None /\ Follows(new[s.snap.id], old[s.snap.id])
    BY <2>1, <2>2 DEF Extends
  <2>4. old[s.snap.id] \in Workflow /\ new[s.snap.id] \in Workflow
    BY <2>1, <2>2, <2>3
  <2> QED BY <2>1, <2>2, <2>3, <2>4, FollowsTransitive
<1> QED BY <1>1 DEF Knows

(* What a step of handler t owes to the invariant.                         *)
LEMMA HandlerStep ==
  ASSUME TypeInv, TypeInv', AuthorisationInv, Grows,
         executions \subseteq executions',
         NEW t \in Threads, NEW s, Becomes(t, s),
         Knows(s, workflows', executions'),
         StoredIsLegal', TicketIsBacked', TicketsAreUnique', QueuedIsApproved',
         \A u \in Threads : IdIsFresh(u)'
  PROVE  AuthorisationInv'
<1>1. ASSUME NEW u \in Threads PROVE Knows(thread'[u], workflows', executions')
  <2>1. CASE u = t
    BY <2>1 DEF Becomes, TypeInv, TypeOK
  <2>2. CASE u # t
    <3>1. thread'[u] = thread[u]
      BY <2>2 DEF Becomes, TypeInv, TypeOK
    <3>2. /\ thread[u] \in ThreadState /\ Shape(thread[u])
          /\ workflows \in [WorkflowIds -> Workflow \cup {None}]
          /\ workflows' \in [WorkflowIds -> Workflow \cup {None}]
      BY DEF TypeInv, TypeOK
    <3>3. Knows(thread[u], workflows, executions)
      BY DEF AuthorisationInv
    <3> QED BY <3>1, <3>2, <3>3, KnowsGrows DEF Grows
  <2> QED BY <2>1, <2>2
<1>2. (\A u \in Threads : Knows(thread[u], workflows, executions) /\ IdIsFresh(u))'
  BY <1>1
<1> QED BY <1>2 DEF AuthorisationInv

(* Only the handler's own point in the code decides its freshness duty.    *)
LEMMA StaysFresh ==
  ASSUME TypeInv, AuthorisationInv, NEW t \in Threads, NEW s, Becomes(t, s),
         s.pc # "create_store",
         \A w \in WorkflowIds : workflows[w] = None => workflows'[w] = None
  PROVE  \A u \in Threads : IdIsFresh(u)'
<1> TAKE u \in Threads
<1>1. \A v \in Threads : thread'[v] = IF v = t THEN s ELSE thread[v]
  BY DEF Becomes, TypeInv, TypeOK
<1>2. CASE u = t
  BY <1>1, <1>2 DEF IdIsFresh
<1>3. CASE u # t
  <2>1. thread[u].pc = "create_store" => thread[u].call.id \in WorkflowIds
    BY DEF TypeInv, Shape
  <2>2. IdIsFresh(u)
    BY DEF AuthorisationInv
  <2> QED BY <1>1, <1>3, <2>1, <2>2 DEF IdIsFresh
<1> QED BY <1>2, <1>3

(* A step that leaves workflows, tickets and the queue's order alone.      *)
LEMMA QuietStep ==
  ASSUME TypeInv, TypeInv', AuthorisationInv,
         NEW t \in Threads, NEW s, Becomes(t, s), s.pc # "create_store",
         Knows(s, workflows, executions),
         UNCHANGED <<workflows, order, executions>>
  PROVE  AuthorisationInv' /\ Grows
<1>1. Grows
  BY FollowsItself DEF Grows, Extends, TypeInv, TypeOK
<1>2. /\ StoredIsLegal' /\ TicketIsBacked' /\ TicketsAreUnique'
      /\ QueuedIsApproved'
  BY DEF AuthorisationInv, StoredIsLegal, Exists, TicketIsBacked,
         TicketsAreUnique, QueuedIsApproved, Queued, IsApproved, IsDecided
<1>3. \A u \in Threads : IdIsFresh(u)'
  BY StaysFresh
<1>4. Knows(s, workflows', executions') /\ executions \subseteq executions'
  OBVIOUS
<1> QED BY <1>1, <1>2, <1>3, <1>4, HandlerStep

(* What was approved and what is started stays so while workflows grow.    *)
LEMMA ApprovalsGrow ==
  ASSUME TypeInv, AuthorisationInv, Grows, UNCHANGED order
  PROVE  QueuedIsApproved'
<1> SUFFICES ASSUME NEW w \in WorkflowIds, Queued(w) PROVE IsApproved(w)'
  BY DEF QueuedIsApproved, Queued
<1>1. workflows[w] # None /\ workflows[w] \in Workflow
  BY DEF AuthorisationInv, QueuedIsApproved, IsApproved, IsDecided, Exists,
         TypeInv, TypeOK
<1>2. /\ workflows[w].approval # None /\ workflows[w].approval \in Approval
      /\ workflows[w].approval.decision = "approved"
  BY <1>1 DEF AuthorisationInv, QueuedIsApproved, IsApproved, IsDecided, Workflow
<1>3. workflows'[w] # None /\ Follows(workflows'[w], workflows[w])
  BY <1>1 DEF Grows, Extends
<1>4. workflows'[w].approval \in
        {workflows[w].approval, [workflows[w].approval EXCEPT !.consumed = TRUE]}
  BY <1>2, <1>3 DEF Follows
<1>5. workflows'[w].approval # None /\ workflows'[w].approval.decision = "approved"
  <2> DEFINE made == workflows[w].approval
             consumed == [made EXCEPT !.consumed = TRUE]
  <2>1. /\ made \in Approval /\ made.decision = "approved"
        /\ consumed \in Approval /\ consumed.decision = "approved"
    BY <1>2 DEF Approval
  <2>2. made # None /\ consumed # None
    BY <2>1, NoneAssumption
  <2>3. workflows'[w].approval = made \/ workflows'[w].approval = consumed
    BY <1>4
  <2> HIDE DEF made, consumed
  <2> QED BY <2>1, <2>2, <2>3
<1> QED BY <1>3, <1>5 DEF IsApproved, IsDecided, Exists

LEMMA BackingGrows ==
  ASSUME TypeInv, AuthorisationInv, Grows, UNCHANGED executions
  PROVE  TicketIsBacked' /\ TicketsAreUnique'
<1>1. TicketsAreUnique'
  BY DEF AuthorisationInv, TicketsAreUnique
<1>2. ASSUME NEW e \in executions
      PROVE  LET w == workflows'[e.key[1]]
             IN /\ w # None /\ w.status \in Started
                /\ e.digest = <<w.id, w.request>> /\ e.key = <<w.id, e.digest>>
  <2> DEFINE w == workflows[e.key[1]]
  <2>1. /\ w # None /\ w.status \in Started
        /\ e.digest = <<w.id, w.request>> /\ e.key = <<w.id, e.digest>>
    BY DEF AuthorisationInv, TicketIsBacked
  <2>2. e.key[1] \in WorkflowIds
    BY DEF TypeInv, TypeOK, Ticket
  <2>3. workflows'[e.key[1]] # None /\ Follows(workflows'[e.key[1]], w)
    BY <2>1, <2>2 DEF Grows, Extends
  <2> QED BY <2>1, <2>3 DEF Follows
<1>3. TicketIsBacked'
  BY <1>2 DEF TicketIsBacked
<1> QED BY <1>1, <1>3

(* A write to the repository of a legal later snapshot.                    *)
LEMMA WriteStep ==
  ASSUME TypeInv, TypeInv', AuthorisationInv,
         NEW t \in Threads, NEW new \in Workflow, NEW next,
         Update(t, new, next), next.pc # "create_store",
         UNCHANGED <<order, executions>>,
         thread[t].pc \in HoldsSnap,
         Legal(new), Follows(new, thread[t].snap),
         new.status = "completed" =>
           /\ new.ticket \in executions /\ new.ticket.key[1] = new.id
           /\ new.approval.consumed,
         Knows(next, [workflows EXCEPT ![new.id] = new], executions)
  PROVE  AuthorisationInv' /\ Grows
<1> DEFINE snap == thread[t].snap
           failed == Raise(thread[t], "InvalidWorkflowState")
<1>1. CASE ~IsCurrent(snap)
  <2>1. Becomes(t, failed) /\ UNCHANGED workflows
    BY <1>1 DEF Update
  <2>2. failed.pc # "create_store" /\ Knows(failed, workflows, executions)
    BY DEF Raise, IdleThread, Knows, HoldsSnap, Deciding, Executing
  <2> HIDE DEF failed
  <2> QED BY <2>1, <2>2, QuietStep
<1>2. CASE IsCurrent(snap)
  <2>1. workflows' = [workflows EXCEPT ![new.id] = new] /\ Becomes(t, next)
    BY <1>2 DEF Update
  <2>2. snap \in Workflow /\ new.id = snap.id /\ snap.id \in WorkflowIds
    BY DEF TypeInv, Shape, Follows, Workflow
  <2>3. /\ workflows[snap.id] # None /\ Follows(workflows[snap.id], snap)
        /\ workflows[snap.id].version = snap.version
    BY <1>2 DEF AuthorisationInv, Knows, IsCurrent
  <2>4. workflows[snap.id] = snap
    BY <2>3 DEF Follows
  <2>5. \A w \in WorkflowIds :
          workflows'[w] = IF w = snap.id THEN new ELSE workflows[w]
    BY <2>1, <2>2 DEF TypeInv, TypeOK
  <2>6. Grows
    <3> SUFFICES ASSUME NEW w \in WorkflowIds, workflows[w] # None
                 PROVE  workflows'[w] # None /\ Follows(workflows'[w], workflows[w])
      BY DEF Grows, Extends
    <3>1. workflows[w] \in Workflow
      BY DEF TypeInv, TypeOK
    <3> QED BY <2>4, <2>5, <3>1, FollowsItself, NoneAssumption
  <2>7. StoredIsLegal'
    <3> SUFFICES ASSUME NEW w \in WorkflowIds, workflows'[w] # None
                 PROVE  /\ Legal(workflows'[w])
                        /\ workflows'[w].status = "completed" =>
                             /\ workflows'[w].ticket \in executions'
                             /\ workflows'[w].ticket.key[1] = w
                             /\ workflows'[w].approval.consumed
      BY DEF StoredIsLegal, Exists
    <3>1. CASE w = snap.id
      BY <2>2, <2>5, <3>1
    <3>2. CASE w # snap.id
      BY <2>5, <3>2 DEF AuthorisationInv, StoredIsLegal, Exists
    <3> QED BY <3>1, <3>2
  <2>8. TicketIsBacked' /\ TicketsAreUnique' /\ QueuedIsApproved'
    BY <2>6, ApprovalsGrow, BackingGrows
  <2>9. \A u \in Threads : IdIsFresh(u)'
    <3>1. \A w \in WorkflowIds : workflows[w] = None => workflows'[w] = None
      BY <2>3, <2>5
    <3> QED BY <2>1, <3>1, StaysFresh
  <2>10. Knows(next, workflows', executions') /\ executions \subseteq executions'
    BY <2>1
  <2> QED BY <2>1, <2>6, <2>7, <2>8, <2>9, <2>10, HandlerStep
<1> QED BY <1>1, <1>2

-----------------------------------------------------------------------------
(* Each action preserves AuthorisationInv and lets workflows only grow.    *)

LEMMA AuthInit == Init => AuthorisationInv
BY DEF Init, IdleThread, AuthorisationInv, StoredIsLegal, Exists,
       TicketIsBacked, TicketsAreUnique, QueuedIsApproved, Queued, Knows,
       IdIsFresh, HoldsSnap, Deciding, Executing

(* A handler that is about to answer or to audit knows nothing it needs.   *)
LEMMA EndingKnows ==
  ASSUME NEW s, s.pc \in {"idle", "reply", "audit"}
  PROVE  Knows(s, workflows, executions) /\ s.pc # "create_store"
BY DEF Knows, HoldsSnap, Deciding, Executing

LEMMA EndingPoints ==
  /\ IdleThread.pc = "idle"
  /\ \A self, w : Answer(self, w).pc = "reply"
  /\ \A self, error : Raise(self, error).pc = "reply"
BY DEF IdleThread, Answer, Raise

LEMMA AuditThenPoint ==
  ASSUME NEW ending \in ThreadState, NEW action, NEW outcome
  PROVE  AuditThen(ending, action, outcome).pc = "audit"
BY DEF AuditThen, ThreadState

(* Steps that end a handler or only answer.                                *)
LEMMA AuthEndings ==
  ASSUME TypeInv, TypeInv', AuthorisationInv, NEW t \in Threads,
         NEW s, s.pc \in {"idle", "reply", "audit"}, Becomes(t, s),
         UNCHANGED <<workflows, order, executions>>
  PROVE  AuthorisationInv' /\ Grows
BY EndingKnows, QuietStep

LEMMA AuthRefused ==
  ASSUME TypeInv, TypeInv', AuthorisationInv, NEW t \in Threads,
         CreateRefused(t) \/ DecideRefused(t) \/ ProcessRefused(t)
           \/ ProcessNothing(t)
  PROVE  AuthorisationInv' /\ Grows
<1>1. PICK s : s.pc = "reply" /\ Becomes(t, s)
  <2>1. CASE ProcessNothing(t)
    BY <2>1, EndingPoints DEF ProcessNothing
  <2>2. CASE CreateRefused(t)
    BY <2>2, EndingPoints DEF CreateRefused, Refuse
  <2>3. CASE DecideRefused(t)
    BY <2>3, EndingPoints DEF DecideRefused, Refuse
  <2>4. CASE ProcessRefused(t)
    BY <2>4, EndingPoints DEF ProcessRefused, Refuse
  <2> QED BY <2>1, <2>2, <2>3, <2>4
<1>2. UNCHANGED <<workflows, order, executions>>
  BY DEF CreateRefused, DecideRefused, ProcessRefused, ProcessNothing, queue
<1> QED BY <1>1, <1>2, AuthEndings

LEMMA AuthCreateIntake ==
  ASSUME TypeInv, TypeInv', AuthorisationInv, NEW t \in Threads, CreateIntake(t)
  PROVE  AuthorisationInv' /\ Grows
<1>1. PICK p \in Principals, w \in WorkflowIds, r \in Requests,
           c \in Contexts, k \in Keys :
        LET call == CreateCall(p, w, r, c, k)
            self == [IdleThread EXCEPT !.call = call]
        IN /\ HasRole(p, {"requester", "administrator"})
           /\ FreshId(w)
           /\ IF c \in UnreviewedOverlay
                THEN /\ Becomes(t, Raise(self, "ComplianceOverlayUnavailable"))
                     /\ UNCHANGED events
                ELSE /\ Record(Event(self, "data_processing.workflow_intake",
                                     Outcome("workflow_intake", call), None))
                     /\ Becomes(t, IF Allows("workflow_intake", call)
                                     THEN [self EXCEPT !.pc = "create_store"]
                                     ELSE Raise(self, "DataProcessingDenied"))
  BY DEF CreateIntake
<1> DEFINE call == CreateCall(p, w, r, c, k)
           self == [IdleThread EXCEPT !.call = call]
           next == [self EXCEPT !.pc = "create_store"]
<1>2. UNCHANGED <<workflows, order, executions>>
  BY DEF CreateIntake, queue
<1>3. CASE Becomes(t, next) /\ Allows("workflow_intake", call)
  <2>1. /\ next.pc = "create_store" /\ next.call.id = w
        /\ Knows(next, workflows, executions)
    BY <1>3 DEF IdleThread, CreateCall, NoCall, Knows, HoldsSnap, Deciding,
               Executing
  <2> HIDE DEF next
  <2>2. Grows
    BY <1>2, FollowsItself DEF Grows, Extends, TypeInv, TypeOK
  <2>3. /\ StoredIsLegal' /\ TicketIsBacked' /\ TicketsAreUnique'
        /\ QueuedIsApproved'
    BY <1>2 DEF AuthorisationInv, StoredIsLegal, Exists, TicketIsBacked,
         TicketsAreUnique, QueuedIsApproved, Queued, IsApproved, IsDecided
  <2>4. ASSUME NEW u \in Threads PROVE IdIsFresh(u)'
    <3>1. \A v \in Threads : thread'[v] = IF v = t THEN next ELSE thread[v]
      BY <1>3 DEF Becomes, TypeInv, TypeOK
    <3>2. workflows[w] = None /\ \A v \in Threads : thread[v].call.id # w
      BY <1>1 DEF FreshId
    <3>3. CASE u = t
      BY <1>2, <2>1, <3>1, <3>2, <3>3 DEF IdIsFresh
    <3>4. CASE u # t
      <4>1. IdIsFresh(u)
        BY DEF AuthorisationInv
      <4> QED BY <1>2, <2>1, <3>1, <3>2, <3>4, <4>1 DEF IdIsFresh
    <3> QED BY <3>3, <3>4
  <2>5. Knows(next, workflows', executions') /\ executions \subseteq executions'
    BY <1>2, <2>1
  <2> QED BY <1>3, <2>2, <2>3, <2>4, <2>5, HandlerStep
<1>4. CASE \/ Becomes(t, Raise(self, "ComplianceOverlayUnavailable"))
           \/ Becomes(t, Raise(self, "DataProcessingDenied"))
  <2> HIDE DEF self
  <2> QED BY <1>2, <1>4, EndingPoints, AuthEndings
<1> QED BY <1>1, <1>3, <1>4

LEMMA AuthCreateStore ==
  ASSUME TypeInv, TypeInv', AuthorisationInv, NEW t \in Threads, CreateStore(t)
  PROVE  AuthorisationInv' /\ Grows
<1> DEFINE self == thread[t]
           call == self.call
           w    == Receive(call.id, call.by, call.request, call.context)
           seen == Known(call)
           Ended(x) == [Answer(self, x) EXCEPT !.call.id = x.id]
           Stored(x) == AuditThen(Ended(x), "workflow.create", "accepted")
<1>1. /\ self.pc = "create_store" /\ call.id \in WorkflowIds
      /\ call.by \in Principals /\ call.request \in Requests
      /\ call.context \in Contexts /\ call.key \in Keys
  BY DEF CreateStore, TypeInv, Shape
<1>2. UNCHANGED <<order, executions>>
  BY DEF CreateStore, queue
<1>3. \A x : Stored(x).pc = "audit"
  BY DEF AuditThen, Answer, IdleThread
<1> HIDE DEF Stored
<1>4. CASE UNCHANGED workflows
  <2>1. PICK s : s.pc \in {"reply", "audit"} /\ Becomes(t, s)
    <3>1. \/ \E x : Becomes(t, Stored(x))
          \/ Becomes(t, Raise(self, "IdempotencyConflict"))
      BY DEF CreateStore, Stored
    <3> QED BY <1>3, <3>1, EndingPoints
  <2> QED BY <1>2, <1>4, <2>1, AuthEndings
<1>5. CASE workflows' = [workflows EXCEPT ![call.id] = w] /\ Becomes(t, Stored(w))
  <2>1. /\ w \in Workflow /\ w.id = call.id /\ Legal(w) /\ w.status = "received"
    <3>1. Allows("workflow_intake", call)
      BY <1>1 DEF AuthorisationInv, Knows
    <3> QED BY <1>1, <3>1, ReceiveType, ReceivedIsLegal DEF Allows
  <2>2. /\ workflows[call.id] = None
        /\ \A u \in Threads : /\ u # t /\ thread[u].pc = "create_store"
                               => thread[u].call.id # call.id
    BY <1>1 DEF AuthorisationInv, IdIsFresh
  <2> HIDE DEF w
  <2>3. \A x \in WorkflowIds :
          workflows'[x] = IF x = call.id THEN w ELSE workflows[x]
    BY <1>1, <1>5 DEF TypeInv, TypeOK
  <2>4. Grows
    BY <2>2, <2>3, FollowsItself DEF Grows, Extends, TypeInv, TypeOK
  <2>5. StoredIsLegal'
    BY <1>2, <2>1, <2>3 DEF AuthorisationInv, StoredIsLegal, Exists
  <2>6. TicketIsBacked' /\ TicketsAreUnique' /\ QueuedIsApproved'
    BY <1>2, <2>4, ApprovalsGrow, BackingGrows
  <2>7. ASSUME NEW u \in Threads PROVE IdIsFresh(u)'
    <3>1. \A v \in Threads : thread'[v] = IF v = t THEN Stored(w) ELSE thread[v]
      BY <1>5 DEF Becomes, TypeInv, TypeOK
    <3>2. CASE u = t
      BY <1>3, <3>1, <3>2 DEF IdIsFresh
    <3>3. CASE u # t
      <4>1. thread[u].pc = "create_store" =>
              /\ thread[u].call.id \in WorkflowIds
              /\ thread[u].call.id # call.id
        BY <2>2, <3>3 DEF TypeInv, Shape
      <4>2. IdIsFresh(u)
        BY DEF AuthorisationInv
      <4> QED BY <1>3, <2>3, <3>1, <3>3, <4>1, <4>2 DEF IdIsFresh
    <3> QED BY <3>2, <3>3
  <2>8. Knows(Stored(w), workflows', executions') /\ executions \subseteq executions'
    BY <1>2, <1>3 DEF Knows, HoldsSnap, Deciding, Executing
  <2> QED BY <1>5, <2>4, <2>5, <2>6, <2>7, <2>8, HandlerStep
<1> QED BY <1>4, <1>5 DEF CreateStore, Stored

(* A stored workflow, read into a handler's snapshot.                      *)
LEMMA LoadedSnapshot ==
  ASSUME TypeInv, AuthorisationInv, NEW w \in WorkflowIds, workflows[w] # None
  PROVE  /\ workflows[w] \in Workflow /\ workflows[w].id = w
         /\ Legal(workflows[w]) /\ Follows(workflows[w], workflows[w])
BY FollowsItself DEF TypeInv, TypeOK, AuthorisationInv, StoredIsLegal, Exists

LEMMA AuthReadLoad ==
  ASSUME TypeInv, TypeInv', AuthorisationInv, NEW t \in Threads, ReadLoad(t)
  PROVE  AuthorisationInv' /\ Grows
<1>1. PICK s : s.pc = "audit" /\ Becomes(t, s)
  BY ZenonT(40) DEF ReadLoad, AuditThen, Answer, Raise, IdleThread
<1>2. UNCHANGED <<workflows, order, executions>>
  BY DEF ReadLoad, queue
<1> QED BY <1>1, <1>2, AuthEndings

LEMMA AuthPlanLoad ==
  ASSUME TypeInv, TypeInv', AuthorisationInv, NEW t \in Threads, PlanLoad(t)
  PROVE  AuthorisationInv' /\ Grows
<1>1. PICK p \in Principals, w \in WorkflowIds :
        LET found == workflows[w]
            self  == [IdleThread EXCEPT
                        !.call = [NoCall EXCEPT !.op = "plan", !.by = p, !.id = w]]
            mayPlan == /\ found # None
                       /\ found.owner = p \/ HasRole(p, {"administrator"})
        IN \/ /\ ~mayPlan
              /\ Becomes(t, AuditThen(Raise(self, "WorkflowNotFound"),
                                      "workflow.plan", "not_found"))
           \/ /\ mayPlan /\ found.proposal # None
              /\ Becomes(t, Answer(self, found))
           \/ /\ mayPlan /\ found.proposal = None
              /\ Becomes(t, IF found.status = "received"
                              THEN [self EXCEPT !.pc = "plan_policy", !.snap = found]
                              ELSE Raise(self, "InvalidWorkflowState"))
  BY DEF PlanLoad
<1> DEFINE found == workflows[w]
           call == [NoCall EXCEPT !.op = "plan", !.by = p, !.id = w]
           self == [IdleThread EXCEPT !.call = call]
           next == [self EXCEPT !.pc = "plan_policy", !.snap = found]
<1>2. UNCHANGED <<workflows, order, executions>>
  BY DEF PlanLoad, queue
<1>3. CASE found # None /\ found.status = "received" /\ Becomes(t, next)
  <2>1. next.pc = "plan_policy" /\ next.snap = found
    BY DEF IdleThread
  <2>2. Knows(next, workflows, executions)
    BY <1>3, <2>1, LoadedSnapshot DEF Knows, HoldsSnap, Deciding, Executing
  <2> HIDE DEF next
  <2> QED BY <1>2, <1>3, <2>1, <2>2, QuietStep
<1>4. CASE \E s : s.pc \in {"reply", "audit"} /\ Becomes(t, s)
  BY <1>2, <1>4, AuthEndings
<1>5. AuditThen(Raise(self, "WorkflowNotFound"), "workflow.plan", "not_found").pc
        = "audit"
  BY DEF AuditThen, Raise, IdleThread
<1> QED BY <1>1, <1>3, <1>4, <1>5, EndingPoints

LEMMA AuthPlanPolicy ==
  ASSUME TypeInv, TypeInv', AuthorisationInv, NEW t \in Threads, PlanPolicy(t)
  PROVE  AuthorisationInv' /\ Grows
<1> DEFINE self == thread[t]
           next == [self EXCEPT !.pc = "plan_clock"]
           blocked == AuditThen(Raise(self, "PromptInjectionRejected"),
                                "guardrail.input", "blocked")
           failed  == AuditThen(Raise(self, "EvaluationGateRejected"),
                                "evaluation.planning_gate", "failed")
<1>1. /\ self \in ThreadState /\ self.pc = "plan_policy"
      /\ Knows(self, workflows, executions)
  BY DEF PlanPolicy, TypeInv, TypeOK, AuthorisationInv
<1>2. UNCHANGED <<workflows, order, executions>>
  BY DEF PlanPolicy, queue
<1>3. CASE /\ Allows("agent_planning", self.snap)
           /\ self.snap.request \notin Injected \cup Ungrounded
           /\ Becomes(t, next)
  <2>1. next.pc = "plan_clock" /\ next.snap = self.snap
    BY <1>1 DEF ThreadState
  <2>2. Knows(next, workflows, executions)
    BY <1>1, <1>3, <2>1 DEF Knows, HoldsSnap, Deciding, Executing
  <2> HIDE DEF next
  <2> QED BY <1>2, <1>3, <2>1, <2>2, QuietStep
<1>4. CASE \E s : s.pc \in {"reply", "audit"} /\ Becomes(t, s)
  BY <1>2, <1>4, AuthEndings
<1>5. blocked.pc = "audit" /\ failed.pc = "audit"
  BY DEF AuditThen, Raise, IdleThread
<1> HIDE DEF blocked, failed, next
<1>6. \/ Becomes(t, Raise(self, "DataProcessingDenied"))
      \/ Becomes(t, blocked) \/ Becomes(t, failed)
      \/ /\ Allows("agent_planning", self.snap)
         /\ self.snap.request \notin Injected \cup Ungrounded
         /\ Becomes(t, next)
  BY DEF PlanPolicy, blocked, failed, next
<1> QED BY <1>3, <1>4, <1>5, <1>6, EndingPoints

LEMMA AuthReadClock ==
  ASSUME TypeInv, TypeInv', AuthorisationInv, NEW t \in Threads,
         PlanClock(t) \/ DecideClock(t)
  PROVE  AuthorisationInv' /\ Grows
<1> DEFINE self == thread[t]
           next(pc) == [self EXCEPT !.at = clock, !.pc = pc]
<1>1. self \in ThreadState /\ Knows(self, workflows, executions)
  BY DEF TypeInv, TypeOK, AuthorisationInv
<1>2. UNCHANGED <<workflows, order, executions>>
  BY DEF PlanClock, DecideClock, ReadClock, queue
<1>3. CASE PlanClock(t)
  <2>1. self.pc = "plan_clock" /\ Becomes(t, next("plan_store"))
    BY <1>3 DEF PlanClock, ReadClock
  <2>2. next("plan_store").pc = "plan_store" /\ next("plan_store").snap = self.snap
    BY <1>1 DEF ThreadState
  <2> HIDE DEF next
  <2>3. Knows(next("plan_store"), workflows, executions)
    BY <1>1, <2>1, <2>2 DEF Knows, HoldsSnap, Deciding, Executing
  <2> QED BY <1>2, <2>1, <2>2, <2>3, QuietStep
<1>4. CASE DecideClock(t)
  <2>1. self.pc = "decide_clock" /\ Becomes(t, next("decide_store"))
    BY <1>4 DEF DecideClock, ReadClock
  <2>2. /\ next("decide_store").pc = "decide_store"
        /\ next("decide_store").snap = self.snap
        /\ next("decide_store").call = self.call
    BY <1>1 DEF ThreadState
  <2> HIDE DEF next
  <2>3. Knows(next("decide_store"), workflows, executions)
    BY <1>1, <2>1, <2>2 DEF Knows, HoldsSnap, Deciding, Executing
  <2> QED BY <1>2, <2>1, <2>2, <2>3, QuietStep
<1> QED BY <1>3, <1>4

LEMMA AuthPlanStore ==
  ASSUME TypeInv, TypeInv', AuthorisationInv, NEW t \in Threads, PlanStore(t)
  PROVE  AuthorisationInv' /\ Grows
<1> DEFINE self == thread[t]
           planned == ApplyPlanningResult(self.snap,
                                          CreateToolProposal(self.snap, self.at))
           next == AuditThen(Answer(self, planned), "workflow.plan", "evaluated")
<1>1. /\ self.pc = "plan_store" /\ self.at \in Nat /\ self.snap \in Workflow
      /\ self.pc \in HoldsSnap
  BY DEF PlanStore, TypeInv, TypeOK, Shape, ThreadState, HoldsSnap
<1>2. /\ Legal(self.snap) /\ self.snap.status = "received"
      /\ Allows("agent_planning", self.snap)
      /\ self.snap.request \notin Injected \cup Ungrounded
  BY <1>1 DEF AuthorisationInv, Knows
<1>3. /\ Legal(planned) /\ Follows(planned, self.snap)
      /\ planned.status = "awaiting_approval"
  BY <1>1, <1>2, PlannedIsLegal
<1>4. planned \in Workflow
  BY <1>1, ProposalType, PlannedType
<1>5. next.pc = "audit"
  BY DEF AuditThen, Answer, IdleThread
<1>6. Update(t, planned, next) /\ UNCHANGED <<order, executions>>
  BY DEF PlanStore, queue
<1> HIDE DEF planned, next
<1>7. /\ Knows(next, [workflows EXCEPT ![planned.id] = planned], executions)
      /\ next.pc # "create_store"
  BY <1>5 DEF Knows, HoldsSnap, Deciding, Executing
<1> QED BY <1>1, <1>3, <1>4, <1>6, <1>7, WriteStep

LEMMA AuthDecideLoad ==
  ASSUME TypeInv, TypeInv', AuthorisationInv, NEW t \in Threads, DecideLoad(t)
  PROVE  AuthorisationInv' /\ Grows
<1>1. PICK p \in Principals, w \in WorkflowIds, k \in Keys, d \in Decision :
        LET found == workflows[w]
            self  == [IdleThread EXCEPT !.call = DecideCall(p, w, k, d)]
        IN /\ HasRole(p, {"reviewer", "administrator"})
           /\ \/ /\ found = None
                 /\ Becomes(t, Raise(self, "WorkflowNotFound"))
              \/ /\ found # None /\ IsOwner(p, found)
                 /\ Becomes(t, AuditThen(Raise(self, "PermissionDenied"),
                                         "workflow.approval", "self_approval_denied"))
              \/ /\ found # None /\ ~IsOwner(p, found) /\ found.approval # None
                 /\ Becomes(t, Replay(self, found))
              \/ /\ found # None /\ ~IsOwner(p, found) /\ found.approval = None
                 /\ Becomes(t, IF found.status = "awaiting_approval"
                                    /\ found.proposal # None
                                 THEN [self EXCEPT !.pc = "decide_clock",
                                                   !.snap = found]
                                 ELSE Raise(self, "InvalidWorkflowState"))
  BY DEF DecideLoad
<1> DEFINE found == workflows[w]
           call == DecideCall(p, w, k, d)
           self == [IdleThread EXCEPT !.call = call]
           fresh == [self EXCEPT !.pc = "decide_clock", !.snap = found]
           again == [self EXCEPT !.pc = "decide_requeue", !.snap = found]
           own == AuditThen(Raise(self, "PermissionDenied"),
                            "workflow.approval", "self_approval_denied")
<1>2. UNCHANGED <<workflows, order, executions>>
  BY DEF DecideLoad, queue
<1>3. CASE /\ found # None /\ p # found.owner
           /\ found.status = "awaiting_approval" /\ Becomes(t, fresh)
  <2>1. fresh.pc = "decide_clock" /\ fresh.snap = found /\ fresh.call.by = p
    BY DEF IdleThread, DecideCall, NoCall
  <2>2. Knows(fresh, workflows, executions)
    BY <1>1, <1>3, <2>1, LoadedSnapshot DEF Knows, HoldsSnap, Deciding, Executing
  <2> HIDE DEF fresh
  <2> QED BY <1>2, <1>3, <2>1, <2>2, QuietStep
<1>4. CASE /\ found # None /\ found.approval # None
           /\ found.approval.decision = "approved" /\ Becomes(t, again)
  <2>1. again.pc = "decide_requeue" /\ again.snap = found
    BY DEF IdleThread
  <2>2. Knows(again, workflows, executions)
    BY <1>4, <2>1, LoadedSnapshot DEF Knows, HoldsSnap, Deciding, Executing
  <2> HIDE DEF again
  <2> QED BY <1>2, <1>4, <2>1, <2>2, QuietStep
<1>5. CASE \E s : s.pc \in {"reply", "audit"} /\ Becomes(t, s)
  BY <1>2, <1>5, AuthEndings
<1>6. own.pc = "audit"
  BY DEF AuditThen, Raise, IdleThread
<1>7. \/ Replay(self, found) = Raise(self, "InvalidWorkflowState")
      \/ Replay(self, found) = Raise(self, "IdempotencyConflict")
      \/ Replay(self, found) = Answer(self, found)
      \/ Replay(self, found) = again /\ found.approval.decision = "approved"
  BY DEF Replay
<1> HIDE DEF own, fresh, again
<1>8. \/ Becomes(t, Raise(self, "WorkflowNotFound")) \/ Becomes(t, own)
      \/ /\ found # None /\ found.approval # None
         /\ Becomes(t, Replay(self, found))
      \/ /\ found # None /\ p # found.owner
         /\ found.status = "awaiting_approval" /\ Becomes(t, fresh)
      \/ Becomes(t, Raise(self, "InvalidWorkflowState"))
  BY <1>1 DEF own, fresh, IsOwner
<1> HIDE DEF self, found
<1> QED BY <1>3, <1>4, <1>5, <1>6, <1>7, <1>8, EndingPoints

LEMMA AuthDecideExpire ==
  ASSUME TypeInv, TypeInv', AuthorisationInv, NEW t \in Threads, DecideExpire(t)
  PROVE  AuthorisationInv' /\ Grows
<1> DEFINE self == thread[t]
           expired == Expire(self.snap)
           next == AuditThen(Raise(self, "ApprovalExpired"),
                             "workflow.approval", "expired")
<1>1. /\ self.pc = "decide_store" /\ self.snap \in Workflow
      /\ self.pc \in HoldsSnap
  BY DEF DecideExpire, TypeInv, TypeOK, Shape, HoldsSnap, Deciding
<1>2. Legal(self.snap) /\ self.snap.status = "awaiting_approval"
  BY <1>1 DEF AuthorisationInv, Knows
<1>3. /\ expired \in Workflow /\ Legal(expired) /\ Follows(expired, self.snap)
      /\ expired.status = "expired"
  BY <1>1, <1>2, ExpiredType, ExpiredIsLegal
<1>4. next.pc = "audit"
  BY DEF AuditThen, Raise, IdleThread
<1>5. Update(t, expired, next) /\ UNCHANGED <<order, executions>>
  BY DEF DecideExpire, queue
<1> HIDE DEF expired, next
<1>6. /\ Knows(next, [workflows EXCEPT ![expired.id] = expired], executions)
      /\ next.pc # "create_store"
  BY <1>4 DEF Knows, HoldsSnap, Deciding, Executing
<1> QED BY <1>1, <1>3, <1>5, <1>6, WriteStep

LEMMA AuthDecideStore ==
  ASSUME TypeInv, TypeInv', AuthorisationInv, NEW t \in Threads, DecideStore(t)
  PROVE  AuthorisationInv' /\ Grows
<1> DEFINE self == thread[t]
           call == self.call
           approval == CreateApprovalDecision(self.snap.proposal, call.by,
                                              call.decision, call.key, self.at)
           decided == RecordApproval(self.snap, approval)
           queued == [self EXCEPT !.pc = "decide_enqueue", !.snap = decided]
           closed == AuditThen(Answer(self, decided),
                               "workflow.approval", call.decision)
           next == IF NeedsTask(call.decision) THEN queued ELSE closed
           stored == [workflows EXCEPT ![decided.id] = decided]
<1>1. /\ self \in ThreadState /\ self.pc = "decide_store" /\ self.at \in Nat
      /\ self.snap \in Workflow /\ self.snap.proposal \in Proposal
      /\ call.by \in Principals /\ call.key \in Keys /\ call.decision \in Decision
      /\ self.pc \in HoldsSnap
  BY DEF DecideStore, TypeInv, TypeOK, Shape, ThreadState, HoldsSnap, Deciding
<1>2. /\ Legal(self.snap) /\ self.snap.status = "awaiting_approval"
      /\ call.by # self.snap.owner
      /\ HasRole(call.by, {"reviewer", "administrator"})
  BY <1>1 DEF AuthorisationInv, Knows
<1>3. /\ Legal(decided) /\ Follows(decided, self.snap)
      /\ decided.status = call.decision
      /\ decided.approval # None /\ decided.approval.decision = call.decision
  BY <1>1, <1>2, DecidedIsLegal
<1>4. decided \in Workflow
  BY <1>1, ApprovalType, DecidedType
<1>5. Update(t, decided, next) /\ UNCHANGED <<order, executions>>
  BY DEF DecideStore, queue
<1>6. closed.pc = "audit"
  BY DEF AuditThen, Answer, IdleThread
<1> HIDE DEF decided, closed
<1>7. queued.pc = "decide_enqueue" /\ queued.snap = decided
  BY <1>1 DEF ThreadState
<1> HIDE DEF queued
<1>8. call.decision = "approved" => Knows(queued, stored, executions)
  <2>1. decided.id \in WorkflowIds /\ decided # None
    BY <1>4, NoneAssumption DEF Workflow
  <2>2. stored[decided.id] = decided
    BY <2>1 DEF TypeInv, TypeOK
  <2>3. Follows(decided, decided)
    BY <1>4, FollowsItself
  <2> HIDE DEF stored
  <2> QED BY <1>3, <1>7, <2>1, <2>2, <2>3 DEF Knows, HoldsSnap, Deciding, Executing
<1>9. Knows(closed, stored, executions)
  BY <1>6 DEF Knows, HoldsSnap, Deciding, Executing
<1>10. Knows(next, stored, executions) /\ next.pc # "create_store"
  BY <1>6, <1>7, <1>8, <1>9 DEF NeedsTask
<1>11. decided.status # "completed"
  BY <1>1, <1>3 DEF Decision
<1> HIDE DEF next
<1> QED BY <1>1, <1>3, <1>4, <1>5, <1>10, <1>11, WriteStep

(* A handler that enqueues holds an approved snapshot.                     *)
LEMMA AuthEnqueue ==
  ASSUME TypeInv, TypeInv', AuthorisationInv, NEW t \in Threads,
         DecideRequeue(t) \/ DecideEnqueue(t)
  PROVE  AuthorisationInv' /\ Grows
<1> DEFINE self == thread[t]
           snap == self.snap
           task == CreateExecutionTask(snap)
           audited == AuditThen(Answer(self, snap), "workflow.approval", "approved")
<1>1. /\ self.pc \in {"decide_requeue", "decide_enqueue"} /\ snap \in Workflow
      /\ UNCHANGED <<workflows, executions>>
      /\ Enqueue(t, task, Answer(self, snap)) \/ Enqueue(t, task, audited)
  BY DEF DecideRequeue, DecideEnqueue, TypeInv, Shape, HoldsSnap, Deciding
<1>2. /\ snap.approval # None /\ snap.approval.decision = "approved"
      /\ workflows[snap.id] # None /\ Follows(workflows[snap.id], snap)
  BY <1>1 DEF AuthorisationInv, Knows, HoldsSnap, Deciding
<1>3. IsApproved(snap.id) /\ snap.id \in WorkflowIds
  <2> DEFINE made == snap.approval
             consumed == [made EXCEPT !.consumed = TRUE]
  <2>1. made \in Approval /\ made.decision = "approved" /\ snap.id \in WorkflowIds
    BY <1>1, <1>2 DEF Workflow
  <2>2. /\ made # None /\ consumed # None /\ consumed.decision = "approved"
    BY <2>1, NoneAssumption DEF Approval
  <2>3. \/ workflows[snap.id].approval = made
        \/ workflows[snap.id].approval = consumed
    BY <1>2 DEF Follows
  <2> HIDE DEF made, consumed
  <2> QED BY <1>2, <2>1, <2>2, <2>3 DEF IsApproved, IsDecided, Exists
<1>4. PICK s : s.pc \in {"reply", "audit"} /\ Becomes(t, s)
  <2>1. audited.pc = "audit"
    BY DEF AuditThen, Answer, IdleThread
  <2> HIDE DEF audited
  <2>2. \/ Becomes(t, Answer(self, snap)) \/ Becomes(t, audited)
        \/ Becomes(t, Raise(self, "IdempotencyConflict"))
    BY <1>1 DEF Enqueue
  <2> QED BY <2>1, <2>2, EndingPoints
<1>5. Knows(s, workflows', executions') /\ s.pc # "create_store"
  BY <1>4 DEF Knows, HoldsSnap, Deciding, Executing
<1>6. Grows /\ executions \subseteq executions'
  BY <1>1, FollowsItself DEF Grows, Extends, TypeInv, TypeOK
<1>7. StoredIsLegal' /\ TicketIsBacked' /\ TicketsAreUnique'
  BY <1>1 DEF AuthorisationInv, StoredIsLegal, Exists, TicketIsBacked,
              TicketsAreUnique
<1>8. QueuedIsApproved'
  <2>1. UNCHANGED order \/ order' = Append(order, snap.id)
    BY <1>1 DEF Enqueue, CreateExecutionTask
  <2>2. order \in Seq(WorkflowIds) /\ order' \in Seq(WorkflowIds)
    BY DEF TypeInv, TypeOK
  <2> SUFFICES ASSUME NEW w \in WorkflowIds, Queued(w)' PROVE IsApproved(w)'
    BY DEF QueuedIsApproved
  <2>3. Queued(w) \/ w = snap.id
    BY <1>3, <2>1, <2>2 DEF Queued
  <2>4. IsApproved(w)
    BY <1>3, <2>3 DEF AuthorisationInv, QueuedIsApproved
  <2> QED BY <1>1, <2>4 DEF IsApproved, IsDecided, Exists
<1>9. \A u \in Threads : IdIsFresh(u)'
  BY <1>1, <1>4, <1>5, StaysFresh
<1> QED BY <1>4, <1>5, <1>6, <1>7, <1>8, <1>9, HandlerStep

LEMMA AuthProcessClaim ==
  ASSUME TypeInv, TypeInv', AuthorisationInv, NEW t \in Threads, ProcessClaim(t)
  PROVE  AuthorisationInv' /\ Grows
<1>1. PICK s : s.pc = "task_load" /\ Becomes(t, s)
  BY DEF ProcessClaim, IdleThread
<1>2. Knows(s, workflows, executions)
  BY <1>1 DEF Knows, HoldsSnap, Deciding, Executing
<1>3. UNCHANGED <<workflows, order, executions>>
  BY DEF ProcessClaim
<1> QED BY <1>1, <1>2, <1>3, QuietStep

LEMMA AuthTaskLoad ==
  ASSUME TypeInv, TypeInv', AuthorisationInv, NEW t \in Threads, TaskLoad(t)
  PROVE  AuthorisationInv' /\ Grows
<1> DEFINE self == thread[t]
           w == self.task.workflow
           found == workflows[w]
           done == [self EXCEPT !.pc = "task_done", !.snap = found]
           next == [self EXCEPT !.pc = "task_clock", !.snap = found]
<1>1. self \in ThreadState /\ w \in WorkflowIds
  BY DEF TaskLoad, TypeInv, TypeOK, Shape, HoldsTask, Task
<1>2. UNCHANGED <<workflows, order, executions>>
  BY DEF TaskLoad, queue
<1>3. CASE found # None /\ Becomes(t, done)
  <2>1. done.pc = "task_done" /\ done.snap = found
    BY <1>1 DEF ThreadState
  <2>2. Knows(done, workflows, executions)
    BY <1>1, <1>3, <2>1, LoadedSnapshot DEF Knows, HoldsSnap, Deciding, Executing
  <2> HIDE DEF done
  <2> QED BY <1>2, <1>3, <2>1, <2>2, QuietStep
<1>4. CASE found # None /\ IsBound(self.task, found) /\ Becomes(t, next)
  <2>1. next.pc = "task_clock" /\ next.snap = found /\ next.task = self.task
    BY <1>1 DEF ThreadState
  <2>2. found.proposal.digest = self.task.digest
    BY <1>4 DEF IsBound
  <2>3. Knows(next, workflows, executions)
    BY <1>1, <1>4, <2>1, <2>2, LoadedSnapshot
       DEF Knows, HoldsSnap, Deciding, Executing
  <2> HIDE DEF next
  <2> QED BY <1>2, <1>4, <2>1, <2>3, QuietStep
<1>5. CASE \E s : s.pc \in {"reply", "audit"} /\ Becomes(t, s)
  BY <1>2, <1>5, AuthEndings
<1>6. \/ \E error \in Reply : Becomes(t, Raise(self, error))
      \/ found # None /\ Becomes(t, done)
      \/ found # None /\ IsBound(self.task, found) /\ Becomes(t, next)
  BY DEF TaskLoad, Reply
<1> HIDE DEF done, next, found, self
<1> QED BY <1>3, <1>4, <1>5, <1>6, EndingPoints

LEMMA AuthTaskClock ==
  ASSUME TypeInv, TypeInv', AuthorisationInv, NEW t \in Threads, TaskClock(t)
  PROVE  AuthorisationInv' /\ Grows
<1> DEFINE self == thread[t]
           next(pc) == [self EXCEPT !.at = clock, !.pc = pc]
<1>1. /\ self \in ThreadState /\ self.pc = "task_clock"
      /\ Knows(self, workflows, executions)
  BY DEF TaskClock, TypeInv, TypeOK, AuthorisationInv
<1>2. UNCHANGED <<workflows, order, executions>>
  BY DEF TaskClock, queue
<1>3. \A pc \in {"task_expire", "task_policy", "task_execute"} :
        /\ next(pc).pc = pc /\ next(pc).snap = self.snap
        /\ next(pc).task = self.task
  BY <1>1 DEF ThreadState
<1>4. \/ \E pc \in {"task_expire", "task_policy"} :
           Becomes(t, next(pc)) /\ self.snap.status = "approved"
      \/ Becomes(t, next("task_execute")) /\ self.snap.status = "executing"
      \/ Becomes(t, Raise(self, "InvalidWorkflowState"))
  BY DEF TaskClock, CanResume
<1> HIDE DEF next
<1>5. ASSUME NEW pc \in {"task_expire", "task_policy", "task_execute"},
             Becomes(t, next(pc)),
             self.snap.status = IF pc = "task_execute" THEN "executing"
                                                       ELSE "approved"
      PROVE  AuthorisationInv' /\ Grows
  <2>1. Knows(next(pc), workflows, executions) /\ next(pc).pc # "create_store"
    BY <1>1, <1>3, <1>5 DEF Knows, HoldsSnap, Deciding, Executing
  <2> QED BY <1>2, <1>5, <2>1, QuietStep
<1>6. CASE Becomes(t, Raise(self, "InvalidWorkflowState"))
  BY <1>2, <1>6, EndingPoints, AuthEndings
<1> QED BY <1>4, <1>5, <1>6

LEMMA AuthTaskExpire ==
  ASSUME TypeInv, TypeInv', AuthorisationInv, NEW t \in Threads, TaskExpire(t)
  PROVE  AuthorisationInv' /\ Grows
<1> DEFINE self == thread[t]
           expired == Expire(self.snap)
           next == [self EXCEPT !.pc = "task_discard"]
           stored == [workflows EXCEPT ![expired.id] = expired]
<1>1. /\ self \in ThreadState /\ self.pc = "task_expire" /\ self.snap \in Workflow
      /\ self.pc \in HoldsSnap
  BY DEF TaskExpire, TypeInv, TypeOK, Shape, HoldsSnap, Executing
<1>2. Legal(self.snap) /\ self.snap.status = "approved"
  BY <1>1 DEF AuthorisationInv, Knows
<1>3. /\ expired \in Workflow /\ Legal(expired) /\ Follows(expired, self.snap)
      /\ expired.status = "expired" /\ expired.id = self.snap.id
  BY <1>1, <1>2, ExpiredType, ExpiredIsLegal
<1>4. Update(t, expired, next) /\ UNCHANGED <<order, executions>>
  BY DEF TaskExpire, queue
<1> HIDE DEF expired
<1>5. next.pc = "task_discard" /\ next.snap = self.snap
  BY <1>1 DEF ThreadState
<1> HIDE DEF next
<1>6. Knows(next, stored, executions) /\ next.pc # "create_store"
  <2>1. self.snap.id \in WorkflowIds /\ expired # None
    BY <1>1, <1>3, NoneAssumption DEF Workflow
  <2>2. stored[self.snap.id] = expired
    BY <1>3, <2>1 DEF TypeInv, TypeOK
  <2> HIDE DEF stored
  <2> QED BY <1>2, <1>3, <1>5, <2>1, <2>2 DEF Knows, HoldsSnap, Deciding, Executing
<1> QED BY <1>1, <1>3, <1>4, <1>6, WriteStep

LEMMA AuthTaskPolicy ==
  ASSUME TypeInv, TypeInv', AuthorisationInv, NEW t \in Threads, TaskPolicy(t)
  PROVE  AuthorisationInv' /\ Grows
<1> DEFINE self == thread[t]
           next == [self EXCEPT !.pc = "task_begin"]
<1>1. /\ self \in ThreadState /\ self.pc = "task_policy"
      /\ Knows(self, workflows, executions)
  BY DEF TaskPolicy, TypeInv, TypeOK, AuthorisationInv
<1>2. UNCHANGED <<workflows, order, executions>>
  BY DEF TaskPolicy, queue
<1>3. CASE Allows("tool_execution", self.snap) /\ Becomes(t, next)
  <2>1. next.pc = "task_begin" /\ next.snap = self.snap /\ next.task = self.task
    BY <1>1 DEF ThreadState
  <2>2. Knows(next, workflows, executions)
    BY <1>1, <1>3, <2>1 DEF Knows, HoldsSnap, Deciding, Executing
  <2> HIDE DEF next
  <2> QED BY <1>2, <1>3, <2>1, <2>2, QuietStep
<1>4. CASE Becomes(t, Raise(self, "DataProcessingDenied"))
  BY <1>2, <1>4, EndingPoints, AuthEndings
<1> QED BY <1>3, <1>4 DEF TaskPolicy

LEMMA AuthTaskBegin ==
  ASSUME TypeInv, TypeInv', AuthorisationInv, NEW t \in Threads, TaskBegin(t)
  PROVE  AuthorisationInv' /\ Grows
<1> DEFINE self == thread[t]
           begun == BeginExecution(self.snap)
           next == [self EXCEPT !.pc = "task_execute", !.snap = begun]
           stored == [workflows EXCEPT ![begun.id] = begun]
<1>1. /\ self \in ThreadState /\ self.pc = "task_begin" /\ self.snap \in Workflow
      /\ self.pc \in HoldsSnap
  BY DEF TaskBegin, TypeInv, TypeOK, Shape, HoldsSnap, Executing
<1>2. /\ Legal(self.snap) /\ self.snap.status = "approved"
      /\ Allows("tool_execution", self.snap)
      /\ self.snap.id = self.task.workflow
      /\ self.snap.proposal.digest = self.task.digest
  BY <1>1 DEF AuthorisationInv, Knows, Executing
<1>3. /\ begun \in Workflow /\ Legal(begun) /\ Follows(begun, self.snap)
      /\ begun.status = "executing" /\ begun.id = self.snap.id
      /\ begun.proposal = self.snap.proposal
  BY <1>1, <1>2, BegunType, BegunIsLegal
<1>4. Update(t, begun, next) /\ UNCHANGED <<order, executions>>
  BY DEF TaskBegin, queue
<1> HIDE DEF begun
<1>5. next.pc = "task_execute" /\ next.snap = begun /\ next.task = self.task
  BY <1>1 DEF ThreadState
<1> HIDE DEF next
<1>6. Knows(next, stored, executions) /\ next.pc # "create_store"
  <2>1. begun.id \in WorkflowIds /\ begun # None
    BY <1>3, NoneAssumption DEF Workflow
  <2>2. stored[begun.id] = begun
    BY <2>1 DEF TypeInv, TypeOK
  <2>3. Follows(begun, begun)
    BY <1>3, FollowsItself
  <2> HIDE DEF stored
  <2> QED BY <1>2, <1>3, <1>5, <2>1, <2>2, <2>3
          DEF Knows, HoldsSnap, Deciding, Executing
<1> QED BY <1>1, <1>3, <1>4, <1>6, WriteStep

(* The side effect: at most one ticket per workflow, for started work.     *)
LEMMA AuthTaskExecute ==
  ASSUME TypeInv, TypeInv', AuthorisationInv, NEW t \in Threads, TaskExecute(t)
  PROVE  AuthorisationInv' /\ Grows
<1> DEFINE self == thread[t]
           snap == self.snap
           ticket == TicketFor(self.task, snap.proposal, self.at)
           next(x) == [self EXCEPT !.pc = "task_store", !.result = x]
<1>1. /\ self \in ThreadState /\ self.pc = "task_execute"
      /\ self.task \in Task /\ snap \in Workflow /\ snap.proposal \in Proposal
      /\ UNCHANGED <<workflows, order>>
  BY DEF TaskExecute, TypeInv, TypeOK, Shape, HoldsSnap, HoldsTask, Executing, queue
<1>2. Knows(self, workflows, executions)
  BY DEF AuthorisationInv
<1>3. /\ snap.id = self.task.workflow /\ snap.proposal.digest = self.task.digest
      /\ snap.status = "executing" /\ Legal(snap) /\ snap.id \in WorkflowIds
      /\ workflows[snap.id] # None /\ Follows(workflows[snap.id], snap)
  BY <1>1, <1>2 DEF Knows, HoldsSnap, Executing, Workflow
<1>4. snap.proposal.digest = <<snap.id, snap.request>>
  BY <1>1, <1>3, NoneAssumption DEF Legal
<1>5. ASSUME NEW x, x.key[1] = snap.id, NEW issued, x \in issued
      PROVE  Knows(next(x), workflows, issued) /\ next(x).pc # "create_store"
  <2>1. /\ next(x).pc = "task_store" /\ next(x).snap = snap
        /\ next(x).task = self.task /\ next(x).result = x
    BY <1>1 DEF ThreadState
  <2> HIDE DEF next
  <2> QED BY <1>1, <1>2, <1>5, <2>1 DEF Knows, HoldsSnap, Deciding, Executing
<1>6. Grows
  BY <1>1, FollowsItself DEF Grows, Extends, TypeInv, TypeOK
<1>7. CASE /\ IssuedFor(self.task) = {}
           /\ executions' = executions \cup {ticket} /\ Becomes(t, next(ticket))
  <2>1. /\ ticket.key = <<snap.id, snap.proposal.digest>> /\ ticket.key[1] = snap.id
        /\ ticket.digest = snap.proposal.digest /\ ticket.key = TicketKey(self.task)
    BY <1>3 DEF TicketFor, TicketKey
  <2> HIDE DEF ticket
  <2>2. /\ Knows(next(ticket), workflows', executions')
        /\ next(ticket).pc # "create_store"
    BY <1>1, <1>5, <1>7, <2>1
  <2>3. StoredIsLegal' /\ QueuedIsApproved'
    BY <1>1, <1>7 DEF AuthorisationInv, StoredIsLegal, Exists, QueuedIsApproved,
                      Queued, IsApproved, IsDecided
  <2>4. TicketIsBacked'
    <3>1. /\ workflows[snap.id].status \in Started
          /\ workflows[snap.id].id = snap.id
          /\ workflows[snap.id].request = snap.request
      BY <1>3 DEF Follows, Started
    <3> QED BY <1>1, <1>3, <1>4, <1>7, <2>1, <3>1
            DEF AuthorisationInv, TicketIsBacked
  <2>5. TicketsAreUnique'
    <3>1. ASSUME NEW e \in executions, e.key[1] = snap.id PROVE FALSE
      <4>1. /\ e.digest = <<workflows[snap.id].id, workflows[snap.id].request>>
            /\ e.key = <<workflows[snap.id].id, e.digest>>
        BY <3>1 DEF AuthorisationInv, TicketIsBacked
      <4>2. e.key = TicketKey(self.task)
        BY <1>3, <1>4, <4>1, ZenonT(40) DEF Follows, TicketKey
      <4> QED BY <1>7, <4>2 DEF IssuedFor
    <3> QED BY <1>7, <2>1, <3>1 DEF AuthorisationInv, TicketsAreUnique
  <2>6. \A u \in Threads : IdIsFresh(u)'
    BY <1>1, <1>7, <2>2, StaysFresh
  <2>7. executions \subseteq executions'
    BY <1>7
  <2> HIDE DEF next
  <2> QED BY <1>6, <1>7, <2>2, <2>3, <2>4, <2>5, <2>6, <2>7, HandlerStep
<1>8. CASE /\ \E x \in IssuedFor(self.task) : Becomes(t, next(x))
           /\ UNCHANGED executions
  <2>1. PICK x \in executions : x.key = TicketKey(self.task) /\ Becomes(t, next(x))
    BY <1>8 DEF IssuedFor
  <2>2. x.key[1] = snap.id
    BY <1>3, <2>1 DEF TicketKey
  <2>3. Knows(next(x), workflows, executions) /\ next(x).pc # "create_store"
    BY <1>5, <2>1, <2>2
  <2> HIDE DEF next
  <2> QED BY <1>1, <1>8, <2>1, <2>3, QuietStep
<1>9. CASE Becomes(t, Raise(self, "IdempotencyConflict")) /\ UNCHANGED executions
  BY <1>1, <1>9, EndingPoints, AuthEndings
<1> QED BY <1>7, <1>8, <1>9 DEF TaskExecute

LEMMA AuthTaskStore ==
  ASSUME TypeInv, TypeInv', AuthorisationInv, NEW t \in Threads, TaskStore(t)
  PROVE  AuthorisationInv' /\ Grows
<1> DEFINE self == thread[t]
           done == CompleteExecution(self.snap, self.result)
           next == [self EXCEPT !.pc = "task_complete", !.snap = done]
           stored == [workflows EXCEPT ![done.id] = done]
<1>1. /\ self \in ThreadState /\ self.pc = "task_store" /\ self.snap \in Workflow
      /\ self.snap.approval \in Approval /\ self.result \in Ticket
      /\ self.pc \in HoldsSnap
  BY DEF TaskStore, TypeInv, TypeOK, Shape, HoldsSnap, Executing
<1>2. /\ Legal(self.snap) /\ self.snap.status = "executing"
      /\ self.result \in executions /\ self.result.key[1] = self.snap.id
  BY <1>1 DEF AuthorisationInv, Knows
<1>3. /\ done \in Workflow /\ Legal(done) /\ Follows(done, self.snap)
      /\ done.id = self.snap.id
      /\ done.ticket = self.result /\ done.approval.consumed
  BY <1>1, <1>2, CompletedType, CompletedIsLegal
<1>4. Update(t, done, next) /\ UNCHANGED <<order, executions>>
  BY DEF TaskStore, queue
<1> HIDE DEF done
<1>5. next.pc = "task_complete" /\ next.snap = done
  BY <1>1 DEF ThreadState
<1> HIDE DEF next
<1>6. Knows(next, stored, executions) /\ next.pc # "create_store"
  <2>1. done.id \in WorkflowIds /\ done # None
    BY <1>3, NoneAssumption DEF Workflow
  <2>2. stored[done.id] = done
    BY <2>1 DEF TypeInv, TypeOK
  <2>3. Follows(done, done)
    BY <1>3, FollowsItself
  <2> HIDE DEF stored
  <2> QED BY <1>3, <1>5, <2>1, <2>2, <2>3 DEF Knows, HoldsSnap, Deciding, Executing
<1> QED BY <1>1, <1>2, <1>3, <1>4, <1>6, WriteStep

LEMMA AuthHandlerEnds ==
  ASSUME TypeInv, TypeInv', AuthorisationInv, NEW t \in Threads,
         \/ TaskDiscard(t) \/ TaskComplete(t) \/ TaskDone(t)
         \/ RecordAudit(t) \/ Respond(t) \/ Interrupt(t)
  PROVE  AuthorisationInv' /\ Grows
<1>1. PICK s : s.pc \in {"idle", "reply", "audit"} /\ Becomes(t, s)
  <2>1. CASE TaskDiscard(t)
    <3>1. AuditThen(Raise(thread[t], "ApprovalExpired"),
                    "task.process", "approval_expired").pc = "audit"
      BY DEF AuditThen, Raise, IdleThread
    <3> QED BY <2>1, <3>1 DEF TaskDiscard, Complete
  <2>2. CASE TaskComplete(t)
    <3>1. AuditThen(Answer(thread[t], thread[t].snap),
                    "task.process", "completed").pc = "audit"
      BY DEF AuditThen, Answer, IdleThread
    <3> QED BY <2>2, <3>1 DEF TaskComplete, Complete
  <2>3. CASE TaskDone(t)
    BY <2>3, EndingPoints DEF TaskDone, Complete
  <2>4. CASE RecordAudit(t)
    <3> DEFINE replied == [thread[t] EXCEPT !.pc = "reply", !.event = None]
    <3>1. replied.pc = "reply"
      BY DEF TypeInv, TypeOK, ThreadState
    <3>2. Becomes(t, replied)
      BY <2>4 DEF RecordAudit
    <3> HIDE DEF replied
    <3> QED BY <3>1, <3>2
  <2>5. CASE Respond(t) \/ Interrupt(t)
    BY <2>5, EndingPoints DEF Respond, Interrupt
  <2> QED BY <2>1, <2>2, <2>3, <2>4, <2>5
<1>2. UNCHANGED <<workflows, order, executions>>
  BY DEF TaskDiscard, TaskComplete, TaskDone, Complete, RecordAudit, Respond,
         Interrupt, queue
<1> QED BY <1>1, <1>2, AuthEndings

(* Time passes, or nothing happens.                                        *)
LEMMA AuthStill ==
  ASSUME TypeInv, AuthorisationInv,
         UNCHANGED <<workflows, order, executions, thread>>
  PROVE  AuthorisationInv' /\ Grows
<1>1. Grows
  BY FollowsItself DEF Grows, Extends, TypeInv, TypeOK
<1> QED BY <1>1 DEF AuthorisationInv, StoredIsLegal, Exists, TicketIsBacked,
                TicketsAreUnique, QueuedIsApproved, Queued, IsApproved, IsDecided,
                IdIsFresh

LEMMA AuthNext ==
  TypeInv /\ AuthorisationInv /\ [Next]_vars => AuthorisationInv' /\ Grows
<1> SUFFICES ASSUME TypeInv, AuthorisationInv, [Next]_vars
             PROVE  AuthorisationInv' /\ Grows
  OBVIOUS
<1>1. TypeInv'
  BY TypeNext
<1>2. CASE Tick \/ UNCHANGED vars
  BY <1>2, AuthStill DEF Tick, vars, queue
<1>3. ASSUME NEW t \in Threads, Call(t) PROVE AuthorisationInv' /\ Grows
  BY <1>1, <1>3, AuthRefused, AuthCreateIntake, AuthReadLoad, AuthPlanLoad,
     AuthDecideLoad, AuthProcessClaim DEF Call
<1>4. ASSUME NEW t \in Threads, Step(t) PROVE AuthorisationInv' /\ Grows
  BY <1>1, <1>4, AuthCreateStore, AuthPlanPolicy, AuthReadClock, AuthPlanStore,
     AuthEnqueue, AuthDecideExpire, AuthDecideStore, AuthTaskLoad, AuthTaskClock,
     AuthTaskExpire, AuthTaskPolicy, AuthTaskBegin, AuthTaskExecute,
     AuthTaskStore, AuthHandlerEnds DEF Step
<1>5. ASSUME NEW t \in Threads, Interrupt(t) PROVE AuthorisationInv' /\ Grows
  BY <1>1, <1>5, AuthHandlerEnds
<1> QED BY <1>2, <1>3, <1>4, <1>5 DEF Next

LEMMA AuthAlways == Spec => [](TypeInv /\ AuthorisationInv)
<1>1. Init => TypeInv /\ AuthorisationInv
  BY TypeInit, AuthInit
<1>2. (TypeInv /\ AuthorisationInv) /\ [Next]_vars
        => (TypeInv /\ AuthorisationInv)'
  BY TypeNext, AuthNext
<1> QED BY <1>1, <1>2, PTL DEF Spec

-----------------------------------------------------------------------------
(* Theorems                                                                *)

(* Every ticket the executor ever issues belongs to a workflow approved on *)
(* the ticket's digest by an authorised person other than its owner, after *)
(* all three policy checks and both planning gates.                        *)
THEOREM TicketAuthorised == Spec => []TicketIsAuthorised
<1>1. TypeInv /\ AuthorisationInv => TicketIsAuthorised
  <2> SUFFICES ASSUME TypeInv, AuthorisationInv, NEW e \in executions
               PROVE  LET w == workflows[e.key[1]]
                      IN /\ w # None
                         /\ w.approval # None
                         /\ w.approval.decision = "approved"
                         /\ w.approval.reviewer # w.owner
                         /\ HasRole(w.approval.reviewer, {"reviewer", "administrator"})
                         /\ w.approval.digest = e.digest
                         /\ w.status \in {"executing", "completed"}
                         /\ w.governed = <<"workflow_intake", "agent_planning",
                                           "tool_execution">>
                         /\ \A o \in Operation : Allows(o, w)
                         /\ w.request \notin Injected \cup Ungrounded
    BY DEF TicketIsAuthorised
  <2> DEFINE w == workflows[e.key[1]]
  <2>1. e.key[1] \in WorkflowIds
    BY DEF TypeInv, TypeOK, Ticket
  <2>2. w # None /\ w.status \in Started /\ e.digest = <<w.id, w.request>>
    BY DEF AuthorisationInv, TicketIsBacked
  <2>3. Legal(w)
    BY <2>1, <2>2 DEF AuthorisationInv, StoredIsLegal, Exists
  <2> HIDE DEF w
  <2>4. \A o \in Operation : Allows(o, w)
    BY <2>2, <2>3 DEF Legal, Operation, Planned, Started
  <2> QED BY <2>2, <2>3, <2>4 DEF Legal, Planned, Started, w
<1> QED BY <1>1, AuthAlways, PTL

(* However often a task is delivered, and however many workers race for    *)
(* it, a workflow gets one ticket, and completed work reports that ticket. *)
THEOREM OneTicket == Spec => []OneTicketPerWorkflow
<1>1. AuthorisationInv => OneTicketPerWorkflow
  BY DEF AuthorisationInv, TicketsAreUnique, StoredIsLegal, HasStatus, Exists,
         OneTicketPerWorkflow
<1> QED BY <1>1, AuthAlways, PTL

(* Rejected work never reaches the queue.                                  *)
THEOREM OnlyApprovedIsQueued == Spec => []QueuedIsApproved
<1>1. AuthorisationInv => QueuedIsApproved
  BY DEF AuthorisationInv
<1> QED BY <1>1, AuthAlways, PTL

(* The optimistic writes of the repository never lose a transition.        *)
THEOREM HistoryOnlyGrows == Spec => HistoryIsAppendOnly
<1>1. TypeInv /\ AuthorisationInv /\ [Next]_vars =>
        [\A w \in WorkflowIds : Exists(w) =>
           LET old == workflows[w].history
               new == workflows'[w].history
           IN /\ Len(old) <= Len(new)
              /\ \A i \in 1..Len(old) : new[i] = old[i]]_vars
  BY AuthNext DEF Grows, Extends, Follows, Exists
<1> QED BY <1>1, AuthAlways, PTL DEF Spec, HistoryIsAppendOnly

(* No race between reviewers, retries or expiry changes a decision once it *)
(* is stored.                                                              *)
THEOREM DecisionStands == Spec => DecisionIsFinal
<1>1. TypeInv /\ AuthorisationInv /\ [Next]_vars =>
        [\A w \in WorkflowIds : IsDecided(w) =>
           LET old == workflows[w].approval
               new == workflows'[w].approval
           IN new \in {old, [old EXCEPT !.consumed = TRUE]}]_vars
  BY AuthNext DEF Grows, Extends, Follows, IsDecided, Exists
<1> QED BY <1>1, AuthAlways, PTL DEF Spec, DecisionIsFinal

-----------------------------------------------------------------------------
(* The service with the governance core of the repository behind its port. *)
(* A context carries the categories the client declares, a request the     *)
(* ones the patterns find in it; the service names the provider of each    *)
(* operation, and the engine enforces what it decides.                     *)

Engine == INSTANCE DataPolicy

ProviderOf(operation) ==
  IF operation = "workflow_intake" THEN "local-api" ELSE "deterministic-local"

Permits(operation, declared, detected) ==
  Engine!Decide(operation, ProviderOf(operation),
                Engine!Classify(declared, detected), "enforce").executionAllowed

Governs(declared, detected) ==
  \A o \in Operation, r \in Requests, c \in Contexts :
    <<o, r, c>> \in PolicyDenies <=> ~Permits(o, declared[c], detected[r])

(* Only intake is ever refused, and exactly for what is prohibited there:  *)
(* with the providers the service names nothing leaves the host.           *)
LEMMA OnlyIntakeIsRefused ==
  ASSUME NEW o \in Operation, NEW declared, NEW detected
  PROVE  Permits(o, declared, detected) <=>
           o # "workflow_intake"
             \/ (declared \cup detected) \cap Engine!ProhibitedIntake = {}
<1> DEFINE profile == Engine!Classify(declared, detected)
           all     == Engine!Categories(declared, detected)
<1>1. profile.categories = all
  BY DEF Engine!Classify
<1>2. all \cap Engine!ProhibitedIntake =
        (declared \cup detected) \cap Engine!ProhibitedIntake
  BY DEF Engine!Categories, Engine!Found, Engine!ProhibitedIntake
<1> HIDE DEF profile, all
<1>3. Engine!IsProhibited(o, profile) <=>
        /\ o = "workflow_intake"
        /\ (declared \cup detected) \cap Engine!ProhibitedIntake # {}
  BY <1>1, <1>2 DEF Engine!IsProhibited
<1>4. ~Engine!LeavesHost(ProviderOf(o), profile)
  BY DEF Engine!LeavesHost, Engine!LocalProviders, ProviderOf
<1>5. Permits(o, declared, detected) <=> ~Engine!IsProhibited(o, profile)
  BY <1>4 DEF Permits, Engine!Decide, Engine!Executes, profile
<1> QED BY <1>3, <1>5

(* AC35-003 of the whole service, whatever its handlers race for: while    *)
(* the engine enforces, no workflow with a prohibited category, declared   *)
(* or found, is stored, worked on or executed.  And what intake accepted   *)
(* is never refused later: no planner or worker that holds a workflow is   *)
(* denied, so that no approved task is stranded by the policy.             *)
GovernedIsClean(declared, detected) ==
  LET Clean(w) == /\ (declared[w.context] \cup detected[w.request])
                       \cap Engine!ProhibitedIntake = {}
                  /\ \A o \in Operation : Allows(o, w)
  IN /\ \A id \in WorkflowIds : Exists(id) => Clean(workflows[id])
     /\ \A t \in Threads : thread[t].pc \in HoldsSnap => Clean(thread[t].snap)
     /\ \A e \in executions : Exists(e.key[1]) /\ Clean(workflows[e.key[1]])

THEOREM GovernedServiceIsClean ==
  ASSUME NEW declared, NEW detected, Governs(declared, detected)
  PROVE  Spec => []GovernedIsClean(declared, detected)
<1> DEFINE Clean(w) == /\ (declared[w.context] \cup detected[w.request])
                            \cap Engine!ProhibitedIntake = {}
                       /\ \A o \in Operation : Allows(o, w)
<1>1. ASSUME NEW w \in Workflow, Legal(w) PROVE Clean(w)
  <2>1. w.request \in Requests /\ w.context \in Contexts
    BY DEF Workflow
  <2>2. \A o \in Operation : Allows(o, w) <=>
                               Permits(o, declared[w.context], detected[w.request])
    BY <2>1 DEF Governs, Allows
  <2>3. "workflow_intake" \in Operation /\ Allows("workflow_intake", w)
    BY <1>1 DEF Legal, Operation
  <2>4. (declared[w.context] \cup detected[w.request]) \cap Engine!ProhibitedIntake = {}
    BY <2>2, <2>3, OnlyIntakeIsRefused
  <2>5. \A o \in Operation : Allows(o, w)
    BY <2>2, <2>4, OnlyIntakeIsRefused
  <2> QED BY <2>4, <2>5
<1>2. TypeInv /\ AuthorisationInv => GovernedIsClean(declared, detected)
  <2> SUFFICES ASSUME TypeInv, AuthorisationInv
               PROVE  GovernedIsClean(declared, detected)
    OBVIOUS
  <2>1. ASSUME NEW id \in WorkflowIds, Exists(id) PROVE Clean(workflows[id])
    <3>1. workflows[id] \in Workflow /\ Legal(workflows[id])
      BY <2>1 DEF TypeInv, TypeOK, AuthorisationInv, StoredIsLegal, Exists
    <3> QED BY <1>1, <3>1
  <2>2. ASSUME NEW t \in Threads, thread[t].pc \in HoldsSnap
        PROVE  Clean(thread[t].snap)
    <3>1. thread[t].snap \in Workflow /\ Legal(thread[t].snap)
      BY <2>2 DEF TypeInv, Shape, AuthorisationInv, Knows
    <3> QED BY <1>1, <3>1
  <2>3. ASSUME NEW e \in executions
        PROVE  Exists(e.key[1]) /\ Clean(workflows[e.key[1]])
    <3>1. e.key[1] \in WorkflowIds /\ Exists(e.key[1])
      BY DEF TypeInv, TypeOK, Ticket, AuthorisationInv, TicketIsBacked, Exists
    <3> QED BY <2>1, <3>1
  <2> HIDE DEF Clean
  <2>4. /\ \A id \in WorkflowIds : Exists(id) => Clean(workflows[id])
        /\ \A t \in Threads : thread[t].pc \in HoldsSnap => Clean(thread[t].snap)
        /\ \A e \in executions : Exists(e.key[1]) /\ Clean(workflows[e.key[1]])
    BY <2>1, <2>2, <2>3
  <2> QED BY <2>4 DEF GovernedIsClean, Clean
<1> QED BY <1>2, AuthAlways, PTL

=============================================================================
