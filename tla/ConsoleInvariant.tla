--------------------------- MODULE ConsoleInvariant ---------------------------
(***************************************************************************)
(* The inductive invariant behind the theorems of ConsoleProofs, kept      *)
(* apart from the proofs so that TLC can check it on small instances.      *)
(***************************************************************************)
EXTENDS Console, WorkflowInvariant

-----------------------------------------------------------------------------
(* Types of the pages.                                                     *)

SubmitSteps == {"idle", "create", "creating", "plan", "planning"}
ActionSteps == {"idle", "decide", "deciding", "process", "processing"}
OnTheWay    == {"creating", "planning", "deciding", "processing"}

ChainState ==
  [step : SubmitSteps \cup ActionSteps, on : Threads \cup {None},
   by : Principals \cup {None}, id : WorkflowIds \cup {None},
   decision : Decision \cup {None}, again : BOOLEAN]

PageState ==
  [shown : Workflow \cup {None}, error : BOOLEAN,
   submit : ChainState, action : ChainState]

(* A chain waits for a handler while a request of it is on the way.        *)
PagesTyped ==
  /\ pages \in [Pages -> PageState]
  /\ \A p \in Pages :
       /\ pages[p].submit.step \in SubmitSteps
       /\ pages[p].action.step \in ActionSteps
       /\ \A c \in Chain : pages[p][c].on # None <=> pages[p][c].step \in OnTheWay

(* No two chains wait for one handler.                                     *)
Alone ==
  \A p, q \in Pages, c, d \in Chain, t \in Threads :
    Awaits(p, c, t) /\ Awaits(q, d, t) => p = q /\ c = d

-----------------------------------------------------------------------------
(* What was asked, what a handler has in hand, and what is displayed.      *)

PlanPoints == {"plan_policy", "plan_clock", "plan_store"}
Ending     == {"audit", "reply"}

Succeeded(s) == s.pc \in Ending /\ s.reply = "ok"

(* w is, or was, what the repository stores under its id.                  *)
SeenIn(stored, w) ==
  w \in Workflow /\ stored[w.id] # None /\ Follows(stored[w.id], w)

ResultsAreStored ==
  \A t \in Threads : Succeeded(thread[t]) => SeenIn(workflows, thread[t].snap)

DisplaysAreStored ==
  \A p \in Pages : pages[p].shown # None => SeenIn(workflows, pages[p].shown)

(* The handler a chain waits for works on what the chain asked.            *)
WorksFor(chain, s) ==
  /\ s.pc # "idle"
  /\ chain.step = "creating" => s.call.op = "create"
  /\ chain.step = "planning" => s.call.op = "plan" /\ s.call.id = chain.id
  /\ chain.step = "deciding" =>
       /\ s.call.op = "decide" /\ s.call.id = chain.id
       /\ s.call.decision = chain.decision
  /\ chain.step = "processing" => s.call.op = "process"

WaitsAreServed ==
  \A p \in Pages, c \in Chain, t \in Threads :
    Awaits(p, c, t) => WorksFor(pages[p][c], thread[t])

Names == {"plan", "planning", "decide", "deciding"}

(* A chain names a workflow that is stored.                                *)
NamesAreStored ==
  \A p \in Pages, c \in Chain :
    pages[p][c].step \in Names =>
      pages[p][c].id \in WorkflowIds /\ workflows[pages[p][c].id] # None

(* The call of a handler names what it does, and to which workflow.        *)
Named(s) ==
  /\ s.pc = "create_store" => s.call.op = "create"
  /\ s.pc \in PlanPoints => s.call.op = "plan" /\ s.call.id = s.snap.id
  /\ s.pc \in {"task_complete", "task_done"} => s.snap.id = s.task.workflow
  /\ Succeeded(s) => s.call.id = s.snap.id

CallsAreNamed == \A t \in Threads : Named(thread[t])

-----------------------------------------------------------------------------
(* Planning.  A page plans the workflow it created, with a key nobody      *)
(* used, and nobody else does: the plan it hears of is the first.          *)

KeysAreNew ==
  \A t \in Threads : thread[t].pc = "create_store" =>
    /\ Known(thread[t].call) = None
    /\ \A u \in Threads : u # t /\ thread[u].pc = "create_store" =>
         thread[u].call.key # thread[t].call.key

(* The handler that creates or plans w, and the page that is about to plan *)
(* it.                                                                     *)
Has(s, w) == s.pc # "idle" /\ s.call.op \in {"create", "plan"} /\ s.call.id = w
Keeps(page, w) == page.submit.step = "plan" /\ page.submit.id = w

OneClaim ==
  \A w \in WorkflowIds :
    /\ \A t, u \in Threads : Has(thread[t], w) /\ Has(thread[u], w) => t = u
    /\ \A p, q \in Pages : Keeps(pages[p], w) /\ Keeps(pages[q], w) => p = q
    /\ \A t \in Threads, p \in Pages : ~(Has(thread[t], w) /\ Keeps(pages[p], w))

(* What was created and not sent to be planned is not planned.             *)
ClaimsAreUnplanned ==
  \A w \in WorkflowIds :
    /\ \A p \in Pages : Keeps(pages[p], w) => workflows[w].proposal = None
    /\ \A t \in Threads :
         Has(thread[t], w) /\ thread[t].call.op = "create" /\ Succeeded(thread[t]) =>
           workflows[w].proposal = None

(* A result that reads approved was queued; planning ends before.          *)
Settles(s, queued) ==
  Succeeded(s) =>
    /\ s.call.op = "plan" => s.snap.status = "awaiting_approval"
    /\ s.call.op \in {"decide", "process"} /\ s.snap.status = "approved" =>
         s.snap.id \in queued

ListedIn(o) == {w \in WorkflowIds : \E i \in DOMAIN o : o[i] = w}

ResultsAreQueued == \A t \in Threads : Settles(thread[t], ListedIn(order))

DisplaysAreQueued ==
  \A p \in Pages :
    Shows(p, "approved") => pages[p].shown.id \in ListedIn(order)

DecidedIsPlanned ==
  \A w \in WorkflowIds :
    Exists(w) /\ workflows[w].approval # None => workflows[w].proposal # None

-----------------------------------------------------------------------------
(* Repeated decisions.  The key of a decision is the decision.             *)

DecisionsAreKeys ==
  /\ \A w \in WorkflowIds :
       IsDecided(w) => workflows[w].approval.key = workflows[w].approval.decision
  /\ \A t \in Threads :
       thread[t].pc # "idle" /\ thread[t].call.op = "decide" =>
         thread[t].call.key = thread[t].call.decision

Repeats(chain, s, stored) ==
  \/ s.pc = "decide_requeue" /\ s.snap.approval.decision = chain.decision
  \/ Succeeded(s) /\ s.snap.approval.decision = chain.decision
  \/ /\ s.pc \in Ending /\ s.reply = "PermissionDenied"
     /\ stored[chain.id] # None /\ stored[chain.id].owner = chain.by

RepeatsAreServed ==
  \A p \in Pages :
    LET chain == pages[p]["action"]
    IN chain.again =>
         /\ chain.step = "deciding"
         /\ \A t \in Threads : chain.on = t => Repeats(chain, thread[t], workflows)

-----------------------------------------------------------------------------
DisplayInv ==
  /\ PagesTyped /\ Alone /\ WaitsAreServed /\ NamesAreStored /\ CallsAreNamed
  /\ ResultsAreStored /\ DisplaysAreStored

ClaimInv == KeysAreNew /\ OneClaim /\ ClaimsAreUnplanned

ShownInv == ResultsAreQueued /\ DisplaysAreQueued /\ DecidedIsPlanned

RepeatInv == DecisionsAreKeys /\ RepeatsAreServed

=============================================================================
