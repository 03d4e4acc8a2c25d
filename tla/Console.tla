------------------------------- MODULE Console -------------------------------
(***************************************************************************)
(* The web console (request-console.tsx) as a client of WorkflowService.   *)
(* A page runs two independent chains of requests: `submit' creates a      *)
(* workflow and plans it, `action' decides the workflow on display or asks *)
(* for the next task.  Each chain has a flag of its own (loading,          *)
(* actionLoading); both write what the page shows.                         *)
(*                                                                         *)
(* A request may get lost on its way there or back, and its handler may    *)
(* die: fetch then rejects, the page shows an error, and a handler that    *)
(* lives goes on without anybody waiting for it.                           *)
(***************************************************************************)
EXTENDS WorkflowProperties, SequencesExt

CONSTANTS
  Pages,       \* browser tabs
  Personas,    \* identities a page may submit as
  Deciders,    \* identities a page may decide as
  Operator     \* localOperatorToken

ASSUME ConsoleAssumption ==
  /\ Personas \cup Deciders \cup {Operator} \subseteq Principals
  /\ Decision \subseteq Keys /\ None \notin Threads

VARIABLE pages

service     == <<workflows, idempotency, queue, executions, events, clock, thread>>
consoleVars == <<vars, pages>>

(* `again' is a history field: the decision was stored before it was sent. *)
Rests == [step |-> "idle", on |-> None, by |-> None, id |-> None,
          decision |-> None, again |-> FALSE]

Page == [shown |-> None, error |-> FALSE, submit |-> Rests, action |-> Rests]

ConsoleInit == Init /\ pages = [p \in Pages |-> Page]

Sets(p, page) == pages' = [pages EXCEPT ![p] = page]

Chain == {"submit", "action"}

(* Mutant: the catch clause of a chain sets no error.                      *)
FailsSilently(page, c) == [page EXCEPT ![c] = Rests]

(* Mutant: the flag is cleared, but the chain still takes a reply.         *)
FailsStillWaiting(page, c) == [page EXCEPT ![c].step = "idle", !.error = TRUE]

(* catch and finally.                                                      *)
Fails(page, c) == [page EXCEPT ![c] = Rests, !.error = TRUE]

-----------------------------------------------------------------------------
(* submit: setWorkflow(null), then POST service-requests, then POST plan.  *)

(* Bound: no more submissions than workflow ids and keys to draw.          *)
Drawn == {w \in WorkflowIds : ~FreshId(w)}
RoomToSubmit ==
  Cardinality(Drawn) + Cardinality({p \in Pages : pages[p].submit.step = "create"})
    < Cardinality(WorkflowIds)

Submit(p) ==
  /\ pages[p].submit.step = "idle"
  /\ RoomToSubmit
  /\ \E persona \in Personas :
       Sets(p, [pages[p] EXCEPT !.shown = None, !.error = FALSE,
                                !.submit = [Rests EXCEPT !.step = "create", !.by = persona]])
  /\ UNCHANGED service

(* A random Idempotency-Key for each submission.                           *)
FreshKey(k) ==
  /\ k \notin Decision
  /\ \A by \in Principals : idempotency[<<by, k>>] = None
  /\ \A t \in Threads : thread[t].call.key # k

Waits(p, c, t, step) ==
  Sets(p, [pages[p] EXCEPT ![c].step = step, ![c].on = t])

SendCreate(p, t) ==
  LET chain == pages[p].submit
  IN /\ chain.step = "create"
     /\ CreateIntake(t) \/ CreateRefused(t)
     /\ thread'[t].call.by = chain.by
     /\ thread'[t].call.key # None => FreshKey(thread'[t].call.key)
     /\ Waits(p, "submit", t, "creating")

SendPlan(p, t) ==
  LET chain == pages[p].submit
  IN /\ chain.step = "plan"
     /\ PlanLoad(t)
     /\ thread'[t].call.by = chain.by /\ thread'[t].call.id = chain.id
     /\ Waits(p, "submit", t, "planning")

-----------------------------------------------------------------------------
(* decide and processTask: the buttons of the workflow on display.         *)

Shows(p, status) == pages[p].shown # None /\ pages[p].shown.status = status

Press(p, chain) ==
  /\ pages[p].action.step = "idle"
  /\ Sets(p, [pages[p] EXCEPT !.error = FALSE, !.action = chain])
  /\ UNCHANGED service

PressDecide(p) ==
  /\ Shows(p, "awaiting_approval")
  /\ \E reviewer \in Deciders, d \in Decision :
       Press(p, [Rests EXCEPT !.step = "decide", !.by = reviewer, !.decision = d,
                              !.id = pages[p].shown.id])

PressProcess(p) ==
  /\ Shows(p, "approved")
  /\ Press(p, [Rests EXCEPT !.step = "process", !.by = Operator])

(* Mutant: a random key for each press, as submit draws one.               *)
RandomKey(chain, k) ==
  LET made == workflows[chain.id].approval
  IN k \notin Decision /\ (made # None => k # made.key)

(* approval-<workflow>-<decision>: fixed for one decision on one workflow. *)
DecisionKey(chain, k) == k = chain.decision

SendDecide(p, t) ==
  LET chain == pages[p].action
      made  == workflows[chain.id].approval
  IN /\ chain.step = "decide"
     /\ DecideLoad(t)
     /\ thread'[t].call.by = chain.by /\ thread'[t].call.id = chain.id
     /\ thread'[t].call.decision = chain.decision
     /\ DecisionKey(chain, thread'[t].call.key)
     /\ Sets(p, [pages[p] EXCEPT !.action.step = "deciding", !.action.on = t,
                   !.action.again = made # None /\ made.decision = chain.decision])

(* The key is sent, but the service does not look at it.                   *)
SendProcess(p, t) ==
  /\ pages[p].action.step = "process"
  /\ ProcessClaim(t) \/ ProcessNothing(t)
  /\ thread'[t].call.by = pages[p].action.by
  /\ Waits(p, "action", t, "processing")

-----------------------------------------------------------------------------
(* The end of a request.                                                   *)

Awaits(p, c, t) == pages[p][c].on = t

(* Mutant: the page anticipates what follows the decision.                 *)
ShowsExpected(page, reply) ==
  [page EXCEPT !.shown = IF reply.snap.status = "approved"
                           THEN [reply.snap EXCEPT !.status = "completed"] ELSE reply.snap]

(* setWorkflow(payload)                                                    *)
ShowsReply(page, reply) == [page EXCEPT !.shown = reply.snap]

Receives(p, c, t) ==
  LET reply == thread[t]
      page  == pages[p]
  IN /\ Awaits(p, c, t) /\ reply.pc = "reply"
     /\ Respond(t)
     /\ Sets(p, IF reply.reply # "ok" THEN Fails(page, c)
                ELSE IF page[c].step = "creating"
                  THEN [page EXCEPT ![c].step = "plan", ![c].on = None, ![c].id = reply.snap.id]
                  ELSE ShowsReply([page EXCEPT ![c] = Rests], reply))

(* The request or its answer is lost; a handler at work goes on.           *)
Loses(p, c) ==
  /\ pages[p][c].step # "idle"
  /\ Sets(p, Fails(pages[p], c))
  /\ UNCHANGED service

Abandoned(t) == ~\E p \in Pages, c \in Chain : Awaits(p, c, t)

(* The connection of a handler that dies is closed.                        *)
Dies(t) ==
  /\ Interrupt(t)
  /\ pages' = [p \in Pages |->
                 IF \E c \in Chain : Awaits(p, c, t)
                   THEN Fails(pages[p], CHOOSE c \in Chain : Awaits(p, c, t))
                   ELSE pages[p]]

Serves(t) ==
  /\ Step(t)
  /\ thread[t].pc # "reply" \/ Abandoned(t)
  /\ UNCHANGED pages

PageStep(p) ==
  \/ Submit(p) \/ PressDecide(p) \/ PressProcess(p)
  \/ \E t \in Threads :
       \/ SendCreate(p, t) \/ SendPlan(p, t) \/ SendDecide(p, t) \/ SendProcess(p, t)
       \/ \E c \in Chain : Receives(p, c, t)
  \/ \E c \in Chain : Loses(p, c)

ConsoleNext ==
  \/ \E p \in Pages : PageStep(p)
  \/ \E t \in Threads : Serves(t) \/ Dies(t)
  \/ Tick /\ UNCHANGED pages

ConsoleSpec == ConsoleInit /\ [][ConsoleNext]_consoleVars

-----------------------------------------------------------------------------
(* A page holds a workflow of the repository's type, and each chain that   *)
(* waits, waits for a thread of its own.                                   *)
PageTypeOK ==
  /\ \A p \in Pages :
       /\ pages[p].shown \in Workflow \cup {None} /\ pages[p].error \in BOOLEAN
       /\ pages[p].submit.step \in {"idle", "create", "creating", "plan", "planning"}
       /\ pages[p].action.step \in {"idle", "decide", "deciding", "process", "processing"}
  /\ \A p, q \in Pages, c, d \in Chain, t \in Threads :
       Awaits(p, c, t) /\ Awaits(q, d, t) => p = q /\ c = d

(* Whatever replies are lost or late, a page never shows what the service  *)
(* did not store: its history is a beginning of the stored one, and at the *)
(* stored version it is the stored workflow, with decision and ticket.     *)
ShownIsStored ==
  \A p \in Pages :
    LET shown == pages[p].shown
        stored == workflows[shown.id]
    IN shown # None =>
         /\ IsPrefix(shown.history, stored.history)
         /\ shown.version = stored.version => shown = stored

(* A page that shows an approved workflow offers to process its queued     *)
(* task: the task is in the queue, even if the handler that stored the     *)
(* approval died before it enqueued it and the page got there by a retry.  *)
ShownApprovedIsQueued ==
  \A p \in Pages : Shows(p, "approved") => Queued(pages[p].shown.id)

(* A reviewer who repeats a decision because its answer was lost, or from  *)
(* a page that went stale, is told that it stands (an owner is refused).   *)
RepeatIsReplay ==
  \A p \in Pages, t \in Threads :
    LET chain == pages[p].action
        self  == thread[t]
    IN chain.again /\ chain.on = t /\ self.pc = "reply" =>
         \/ self.reply = "ok" /\ self.snap.approval.decision = chain.decision
         \/ self.reply = "PermissionDenied" /\ workflows[chain.id].owner = chain.by

(* AC2-008: a chain never ends without a trace: the page then shows an     *)
(* error, or the stored workflow that was submitted or decided (for the    *)
(* next task, whichever workflow it was), as the other chain goes on.      *)
OutcomeIsShown ==
  [][\A p \in Pages, c \in Chain :
       LET chain == pages[p][c]
           after == pages'[p]
       IN chain.step # "idle" /\ after[c].step = "idle" =>
            \/ after.error
            \/ /\ after.shown # None
               /\ chain.step # "processing" => after.shown.id = chain.id
    ]_consoleVars

=============================================================================
