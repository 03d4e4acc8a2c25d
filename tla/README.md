# Verification of the agentic delivery reference

TLA+ models of the program in this repository, checked with TLC on small
instances, and theorems about them checked by TLAPS for every value of the
constants. Paths below are relative to the repository root.

## 1. The system

| Part | State it keeps | Operations |
|---|---|---|
| Application service (`services/api/.../service.py`) | none; each call has local snapshots | create, get, plan, decide_approval, process_next_task / execute_task |
| Workflow aggregate, execution values (`domain.py`, `execution.py`) | immutable values | receive, apply_planning_result, record_approval, expire, begin_execution, complete_execution |
| Repository (`adapters.py`) | workflows, idempotency index | create, get, update (optimistic, by `state_version`) |
| Task queue (`adapters.py`) | tasks, order, completed | enqueue, claim_next, complete |
| Ticket executor (`adapters.py`) | results by idempotency key | execute |
| Audit sink (`adapters.py`) | events | record |
| Rate limiter, telemetry (`operational.py`) | window per principal; observations | allow; record, snapshot |
| HTTP boundary (`main.py`, `security.py`, `errors.py`, `dto.py`) | the correlation id on each request | middleware, authentication, metadata checks, rate limit, problem responses, operator endpoints |
| Agent runtime (`services/agent-runtime`) | LangGraph checkpoints per workflow | plan: seven nodes over retriever, guardrails, provider, gate |
| Governance core (`packages/governance-core`) | none | classify, evaluate |
| Web console (`apps/web-console/.../request-console.tsx`) | per page: the workflow on display, error, two busy flags | submit, decide, processTask |
| Evaluator, background worker, scripts, Terraform | none that matters | batch run; liveness endpoint; checks; declarations |

FastAPI runs the endpoints, which are plain `def` functions, in a thread pool.
Handlers meet only in the adapters, each of which protects its own calls with a
lock. Nothing protects a sequence of calls: a handler reads a snapshot of the
workflow, works on it, and writes a successor back if `state_version` is still
the one it read. Tickets are protected by the executor's key, tasks by
at-least-once delivery, retries by idempotency keys. All state is in memory, so
a restart of the process loses all of it; what can be left half done is the
work of one handler.

What makes each part correct, and what is hard about it:

* **Service**: a ticket only for work that another person with the role approved
  and every gate let through; one ticket per workflow; a decision made once;
  no lost approved work; outcomes audited. Hard: stale snapshots, two reviewers,
  several workers with one delivery, an approval stored before it is queued,
  expiry against a clock that moves between calls, handlers that stop half-way.
* **Rate limiter**: the clock is read before the lock.
* **HTTP boundary and telemetry**: every response observed once and under one
  correlation id; a share of the rate limit spent only by a mutation with good
  metadata, sent by its principal; what operators are shown is current and their access is
  audited. Hard: several places that end a request, requests that finish in
  another order than they arrived, exceptions nobody handles.
* **Agent runtime**: nothing quarantined reaches the proposal, nothing
  ungrounded passes, order of the nodes, state left from an earlier run or
  changed by one that overlaps.
* **Web console**: it never shows what was not stored nor offers what cannot be
  done, and a lost answer can be repeated. Hard: lost requests and answers, two
  chains of requests that write the same display.
* **Governance**: what a client declares never frees what was found; controls
  persist over the operations; denials stay visible when they do not block.

`PROJECT.json` lists the hazards one by one with the line where each bites.

## 2. Modules

| Module | Models |
|---|---|
| `WorkflowDomain` | values and pure functions of `domain.py` and `execution.py` |
| `WorkflowService` | `service.py` over the adapters, handlers as threads |
| `WorkflowProperties` | types, safety, action and liveness properties of it |
| `WorkflowInvariant` | the inductive invariants of the proofs |
| `ApprovalLifecycle` | abstract specification: one stage per workflow, no threads |
| `WorkflowRefinement` | refinement mapping from service to lifecycle |
| `WorkflowProofs`, `AuthorisationProofs`, `OutcomeProofs` | theorems about the service and its refinement |
| `RateLimiter` | `InMemoryRateLimiter.allow` with its stale clock reading |
| `RateLimiterProofs` | theorems about the limiter |
| `ApplicationErrors` | the errors of `errors.py` with their status, and which of them each operation raises |
| `HttpBoundary` | `main.py`, `security.py`, telemetry and audit sink under concurrent requests; composes `RateLimiter` |
| `BoundaryProperties`, `BoundaryProofs` | what the boundary promises; theorems |
| `Console` | a page of the console over `WorkflowService`, and its properties |
| `ConsoleInvariant`, `ConsoleProofs` | inductive invariants of pages and handlers together; theorems |
| `AgentRuntime`, `AgentRuntimeProperties`, `AgentRuntimeProofs` | the planning graph and its promises; theorems |
| `DataPolicy` | classifier and policy engine as operators |
| `Governance`, `GovernanceProofs` | the three decisions of a workflow by that engine; theorems |
| `MC*` | instances for TLC |

### WorkflowService

`workflows`, `idempotency`, `tasks`, `order`, `completed`, `executions` and
`events` are the fields of the adapters; `clock` is `datetime.now(UTC)`;
`thread[t]` holds the local variables of one handler: the operation and its
arguments (`call`), the snapshot (`snap`), `now` (`at`), the delivered task, the
executor's result, the audit event still to be written, and the reply.

A step is one adapter call or clock read with the pure code that follows it.
The names tell where the handler stands:

| Code | Steps |
|---|---|
| `create` | `CreateRefused`, `CreateIntake` → `CreateStore` → `RecordAudit` |
| `get` | `ReadLoad` → `RecordAudit` |
| `plan` | `PlanLoad` → `PlanPolicy` → `PlanClock` → `PlanStore` → `RecordAudit` |
| `decide_approval` | `DecideRefused`, `DecideLoad` → `DecideRequeue`, or `DecideClock` → `DecideExpire` or `DecideStore` → `DecideEnqueue` → `RecordAudit` |
| `process_next_task` | `ProcessRefused`, `ProcessNothing`, `ProcessClaim` |
| `execute_task` | `TaskLoad` → `TaskDone`, or `TaskClock` → (`TaskExpire` → `TaskDiscard`) or (`TaskPolicy` → `TaskBegin`) → `TaskExecute` → `TaskStore` → `TaskComplete` → `RecordAudit` |

Every failing check goes to the response with the name of the exception.
`Interrupt` lets a handler of `Interruptible` stop between two steps: the test
`test_worker_can_resume_an_already_executing_task` and `specs/test-plan.md`
expect work to survive an interrupted worker.

Abstractions: request text and locale are one value; declared categories,
purpose, jurisdiction and overlays are another (`Contexts`); a digest is the
values it is computed from; the policy is a set of forbidden triples
`PolicyDenies` (the port admits any policy, and the tests use one that denies
planning and one that denies execution; `DataPolicy` is the baseline one);
the runtime is the two sets of requests it stops (`Injected`, `Ungrounded`;
`AgentRuntime` models what happens inside). Handlers never read the audit
sink, so a run may keep only events with an outcome in `AuditView`; reading it
is modelled in `HttpBoundary`.

### HttpBoundary

`requests[n]` is what the n-th client sent and what became of it: the handler's
position, the id the middleware put on the request, route, status, and for
operators the view they got. `audit` and `telemetry` are the fields of the
adapters; the limiter's variables belong to the instance
`Limiter == INSTANCE RateLimiter WITH Threads <- Handlers`, whose actions the
boundary takes.

| Code | Steps |
|---|---|
| `secure_observable_boundary` before `call_next` | `Receive` (`CorrelationOf`, `Reject`, `Dispatch`) |
| `authenticated_principal`, `idempotency_key`, query limit | `Refusal`, in `Receive`: local code without shared state |
| `enforce_mutation_rate_limit` | `AskLimiter` → `Limiting` → `LeaveLimiter` |
| endpoints that call the service | `ServiceAudit` (up to `MostEvents`) → `CallService` or `Crash` |
| `operational_metrics`, `audit_events` | `BeginRead` → `Read` (`Snapshot`, `AuditEvents`) |
| `handle_application_error`, `handle_validation_error` | `Answered` with `StatusOf` |
| `secure_observable_boundary` after `call_next` | `Observe` |

The framework's order is external and written down in `Refusal` and
`LeaveLimiter`: the body is parsed before the dependencies, these run from left
to right, and a body or query value that does not fit the contract is refused
after them. A service call is what the boundary sees of it: its audit events,
and a result, an application error or another exception (`ErrorsOf` lists the
errors each operation raises; that the service raises no others is a theorem,
`AnswersAreKnown`). Each event is a step of its own, so other requests record
and read between two events of one call: `create`, `plan` and `process-next`
record what policy said and later what became of the operation, the others one
event. Any call may record fewer. `WorkflowService` models what happens inside.
The sink numbers its events (`event`). Fields `before` and `request` are history. Left out: the
fixed security headers, durations, the mapping of payload fields in `dto.py`.

### Console

`pages[p]` has the display (`shown`), the error flag and the two chains of
requests `submit` and `action`, each with the handler it waits for. Sending a
request is a step of page and service together (`SendCreate`, `SendPlan`,
`SendDecide`, `SendProcess`), so is receiving the answer (`Receives`). `Loses`
drops a request or its answer: `fetch` rejects, `catch` and `finally` run, and a
handler that had started goes on alone. `Dies` is a handler that stops.
`SendDecide` uses the key the page computes from workflow and decision; the
model value of a decision stands for it, since keys are scoped by nothing else
there. The consoles are the only clients in this module, and the id of a planned
workflow is the one the create returned.

### RateLimiter, AgentRuntime, Governance

`RateLimiter` splits `allow` in `ReadClock` and the critical section
(`OpenWindow`, `CountRequest`, `Deny`); the history variable `admitted`
remembers what the code forgets, when each admitted call read the clock and got
the lock.

`AgentRuntime` has one action per node. A document is known by its tags, the
tokens it shares with the request and whether a pattern occurs in it; relevance
keeps its cap (`min(1, raw/5)`) and its tie-break by id. The provider is a port:
the local one repeats the best passage, another may repeat any passage it was
given or none, leave a field empty or produce flagged text. `Invoke` starts from
the channels of the previous run, since `graph.py` uses the workflow id as
LangGraph's thread id. The checkpointer is external: its use shows that the
channels of a thread survive between invocations. `Invoke` may therefore happen
while an earlier run stands at any node, and starts from the channels it left
there. The earlier run goes on with channels of its own; it is a run like any
other and is not followed further.

`DataPolicy` has the classifier and the engine as operators over sets of
categories, `Governance` the three decisions of a workflow's life as actions.

## 3. Runs

All passing runs over the service except the liveness ones use symmetry of
handlers (and of workflow ids and keys where no constant names one).
`CHECK_DEADLOCK FALSE` is set because clients may stop calling and clock, runs,
requests or admissions are bounded.

| Run | Question | Instance |
|---|---|---|
| `lifecycle` | history follows the documented diagram and is only extended; nothing refused reaches a ticket; tickets authorised and single | 1 workflow, 4 people with a role each, 2 handlers that may die, 3 requests, 3 contexts, a policy that denies each operation somewhere, clock 0..3 past both expiries |
| `two_workflows` | one workflow per scoped key; one decision stands; queue = what was approved; no acknowledgement of another's task; expired head removed; outcomes audited; `ApprovalLifecycle` implemented | 2 workflows, 2 keys, 3 people, 2 handlers, clock 0..1 with both lives 0 |
| `queue_progress` | approved work ends | 2 workflows, 1 handler, fair |
| `resume` | queued work ends, begun work completes though a handler dies | 1 workflow, 1 mortal and 1 polling handler, fair |
| `rate_limit` | bursts bounded by 2·limit−1, denials earned by the same principal | 2 principals, 2 handlers, limit 2, window 2 |
| `planning` | path, guardrails, quarantine, grounding, with runs that overlap | 3 documents of 18 kinds each, 4 requests, any provider, 3 runs |
| `boundary` | every response observed; ids agree; shares spent exactly by the mutations let through; snapshots and audit views current and audited | 3 requests out of 13 shapes, one error of the service, operator and administrator, limit 1, window 1, views of 1 |
| `console` | display is stored; "process" offered only for queued work; a repeat is a replay; every chain leaves a trace | 1 page, 2 workflows, 2 handlers that may die, lost requests and answers, clock 0..1 with both lives 0 |
| `governance` | intake, what the intake decided persists, monotonicity | 5 declared × 4 found categories, 3 modes |
| `doc_ticket_expiry` | *violated*: AC-007 | |
| `doc_create_payload` | *violated*: AC2-005 | |
| `doc_quarantine` | *violated*: AC5-005 | |

Why the bounds are enough: workflows meet only in the queue and the key index,
where two show every order of head and follower and two keys every conflict. Two
handlers show every stale snapshot, since a write is refused or not by what one
other handler did. In `lifecycle`, with `MaxTime` beyond the sum of both lives,
every expiry can fall before, between and after any two steps; in
`two_workflows` and `console` a life of 0 lets one tick expire everything.
`MaxAttempts` saturates a counter nothing reads. Two runs of the graph show what
one leaves to the next, the third meets one that was itself interrupted. Three
documents with two places show displacement and ties. Three requests are a
reader, one that came before it and one that overlaps; the 13 shapes reach every
refusal, with bodies that do not parse and bodies that violate the contract; one
error of the service stands for all, since they differ only in their status; and views of one entry are shorter than the logs. One page has two
chains, which is all that meets on one display; two pages interact only through
the service. A category matters only through its classification and whether it
is prohibited, and the instance has each combination.

Bounds by name: `MaxTime`, `MaxAttempts`, `Operations`, `AuditView`,
`MaxAdmitted`, `MaxRuns`,
`MaxRequests`, `ServiceErrors`, `SentIds`, `RecentLimit`, `AuditLimit`,
`RoomToSubmit` (no more submissions than ids), `Declared`, `Detected`.

Fairness: `HandlersRun` is weak fairness of each started handler, which the
thread pool's scheduler gives. `OperatorPolls` is strong fairness of claiming a
task from a handler that does not die. It is an assumption about the
environment: in the local profile somebody must call the processing endpoint.
Clients and the clock are not fair. That a page's busy flags are cleared in the
end is not checked: it needs nothing but `finally` and a `fetch` that settles,
and the page's liveness over the service is beyond TLC at the size where its
safety is interesting.

### What the three violated runs show

* `doc_ticket_expiry`: one worker begins execution before the expiry, another
  delivery of the task finds the workflow executing and calls the executor after
  it; `execute_task` compares the clock only for approved work. A slow first
  worker cannot cause it: the ticket carries the time that was compared.
* `doc_create_payload`: the repository compares request and locale only, so a
  create with another data context under the same key gets the first workflow.
* `doc_quarantine`: the ranking is cut to two passages before the quarantine
  filter, so two quarantined documents leave the proposal without guidance
  although a safe relevant document exists.

More disagreements were read off single branches and have no run: a
decision on a workflow that is not awaiting approval is refused without an audit
event (FR-016), a replayed plan is answered without one (AC2-007), and the
slower of two concurrent deliveries answers with an error although it was handed
the ticket (AC4-008). AC6-001 wants every response to carry a correlation id of
its request: a malformed one is answered with the word `unavailable`, which
several requests then share, and an exception that is no application error
leaves the middleware without headers or observation (`ResponseIsObserved` and
`CorrelationIsShared` say exactly that much). The audit events of one workflow
share an id only if its client sends the same one with every request.

What the console run shows besides its properties: a page whose workflow another
page or worker finished keeps showing it as approved, since nothing refreshes
the display; a submission repeated after a lost answer is a new workflow.

## 4. Proofs

TLAPS proves the following for any values of the constants that satisfy the
named assumptions: any sets of workflows, people, requests, contexts and keys,
any roles, policy, corpus, limits and number of handlers and pages.

| Theorem | States |
|---|---|
| `WorkflowProofs!TypeCorrect` | `Spec => []TypeOK` |
| `AuthorisationProofs!TicketAuthorised` | `Spec => []TicketIsAuthorised` |
| `AuthorisationProofs!OneTicket` | `Spec => []OneTicketPerWorkflow` |
| `AuthorisationProofs!OnlyApprovedIsQueued` | `Spec => []QueuedIsApproved` |
| `AuthorisationProofs!HistoryOnlyGrows` | `Spec => HistoryIsAppendOnly` |
| `AuthorisationProofs!DecisionStands` | `Spec => DecisionIsFinal` |
| `OutcomeProofs!HistoryFollows` | `Spec => []HistoryFollowsDiagram` |
| `OutcomeProofs!OneKeyPerWorkflow` | `Spec => []EachWorkflowHasOneKey` |
| `OutcomeProofs!UnfinishedIsDeliverable` | `Spec => []UnfinishedWorkIsDeliverable` |
| `OutcomeProofs!ServiceImplementsLifecycle` | `Spec => ImplementsLifecycle` |
| `OutcomeProofs!AnswersAreKnown` | `Spec => []AnswersAreListed` |
| `AuthorisationProofs!GovernedServiceIsClean` | `Spec => []GovernedIsClean`, the policy is the baseline engine in enforce mode |
| `OutcomeProofs!ApprovedReachesQueue` | `[]ApprovedIsQueued`, no handler dies |
| `OutcomeProofs!ExpiredLeavesQueue` | `[]ExpiredTaskIsDiscarded`, no handler dies |
| `OutcomeProofs!OutcomeReachesAudit` | `[]OutcomeIsAudited`, no handler dies |
| `RateLimiterProofs!TypeCorrect` | `Spec => []TypeOK` |
| `RateLimiterProofs!BurstsAreBounded` | `Spec => []BurstIsBounded` |
| `RateLimiterProofs!DenialsAreEarned` | `Spec => []DenialIsEarned` |
| `BoundaryProofs!TypeCorrect` | `Spec => []TypeOK` |
| `BoundaryProofs!ImplementsLimiter` | `Spec => Limiter!Spec` |
| `BoundaryProofs!ResponsesAreObserved` | `Spec => []ResponseIsObserved` |
| `BoundaryProofs!CorrelationsAreShared` | `Spec => []CorrelationIsShared` |
| `BoundaryProofs!SharesAreKept` | `Spec => []SharesArePerRequest` |
| `BoundaryProofs!ViewsAreAudited` | `Spec => []ViewIsAudited` |
| `BoundaryProofs!SnapshotsAreCurrent` | `Spec => []SnapshotIsCurrent` |
| `BoundaryProofs!AuditViewsAreCurrent` | `Spec => []AuditViewIsCurrent` |
| `AgentRuntimeProofs!TypeCorrect` | `Spec => []TypeOK` |
| `AgentRuntimeProofs!CheckpointsFollow` | `Spec => []CheckpointsFollowPath` |
| `AgentRuntimeProofs!TaintedIsKeptOut` | `Spec => []TaintedStaysOut` |
| `AgentRuntimeProofs!PlansAreGrounded` | `Spec => []PlannedIsGrounded` |
| `AgentRuntimeProofs!VerdictIsOfRequest` | `Spec => []VerdictFollowsRequest` |
| `GovernanceProofs!TypeCorrect` | `Spec => []TypeOK` |
| `GovernanceProofs!IntakeStands` | `Spec => []IntakeDecisionStands` |
| `GovernanceProofs!NothingProhibitedIsStored` | `Spec => []ProhibitedIsNotStored` |
| `GovernanceProofs!SensitiveNeverLeaves` | `Spec => []SensitiveStaysLocal` |
| `GovernanceProofs!MoreDataNeverFrees` | `Spec => []MoreDataIsNeverFreer` |
| `ConsoleProofs!PagesAreClients` | `ConsoleSpec => Spec` |
| `ConsoleProofs!PagesAreTyped` | `ConsoleSpec => []PageTypeOK` |
| `ConsoleProofs!ShownStaysStored` | `ConsoleSpec => []ShownIsStored` |
| `ConsoleProofs!EveryChainEndsVisibly` | `ConsoleSpec => OutcomeIsShown` |
| `ConsoleProofs!ShownApprovedWasQueued` | `ConsoleSpec => []ShownApprovedIsQueued` |
| `ConsoleProofs!RepeatedDecisionReplays` | `ConsoleSpec => []RepeatIsReplay` |

### Assumptions

Each module's own, by name (`TTLAssumption`, `NoneAssumption`,
`ServiceAssumption`, `LimiterAssumption`, `BoundaryAssumption`,
`RuntimeAssumption`, `GovernanceAssumption`, `ConsoleAssumption`), which TLC evaluates on each run:
types of the constants, positive limits, and that `None` differs from the values
it stands in for. Three theorems have a hypothesis more, stated in them:
`Interruptible = {}`, since a handler that dies between the save and the
enqueue, the acknowledgement or the audit event does leave it undone (that is
the code: nothing repairs it but a repeated call), and for `OutcomeReachesAudit`
that `AuditView` keeps the outcomes it speaks about. All other theorems about
the service hold with handlers that die anywhere. `GovernedServiceIsClean` has
the hypothesis `Governs`: `PolicyDenies` denies exactly what the baseline engine
in enforce mode does, for some functions that say which categories each context
declares and which each request holds. Every such pair of functions determines
one `PolicyDenies`, so the hypothesis is satisfied by it.

### The service

The type invariant is not inductive alone: a handler's snapshot must be a
workflow where the next step selects its fields, and queue entries must point to
tasks. `TypeInv` adds `KeysResolve`, `OrderHasTasks` and `Shape`, which says what
each program point holds.

Authorisation needs to know what a snapshot that may be stale still guarantees.
`AuthorisationInv` says: every stored workflow is `Legal` (its status determines
which of proposal, decision and ticket it carries, who decided and which
policies it passed); every snapshot is legal, and `Follows`: the stored workflow
either has its version and equals it, or has a higher version and `Extends` it;
`Knows` adds what the handler learnt at each program point (that its task is
bound to the approved digest, that the ticket it holds was issued, that the new
id is fresh); every ticket is backed by a workflow that began execution, and is
the only one of its key. An update that passes the version check therefore
replaces a workflow by a legal successor of exactly that workflow, and one that
fails changes nothing. `Grows` states this for every step, and the two action
properties follow from it.

`OutcomeProofs` builds on `Grows`. `HistoriesInv` makes the version the length
of the history and its last entry the status, so that one more transition stays
on the diagram. `KeysInv` says that the key index is injective and covers every
stored workflow; the freshness of an id in `create_store` keeps it so.
`QueueInv` relates the three collections of the queue to the stored status
through `Frame`, what a worker between claim and acknowledgement holds.
`OutcomeInv` is about duties: `Owes(t, w, action, outcome)` says that handler
`t` stands between the write that made an outcome and the event that records it,
and `OutcomesAreSettled` that every outcome is on the trail or owed. Each step
either pays the duty, passes it on to the next program point, or ends another
workflow's.

`RepliesInv` follows a call to its answer: `Speaks` ties the operation to the
program point and each error to its operation, and says that a delivery carries
the digest of the stored workflow; `DecidedHasProposal` that a decision has a
proposal to be bound to. Some checks of `execute_task` therefore never fire,
and `AnswersAreKnown` is sharper than the boundary's table: processing never
answers `WorkflowNotFound` or `IdempotencyConflict` (lines 354 and 357 of
`service.py`, the executor's conflict), a delivery is always bound to its
proposal and approval (lines 361 and 367), and the queue never refuses an
approval for another digest. They are defences against states that no
interleaving, redelivery or death of a handler reaches.

`ServiceImplementsLifecycle` maps a step to a stutter, except the few that
change a stored status or issue a ticket: by `Grows` and `Legal` each of those
is the lifecycle's step of the same name for one workflow.

### Rate limiter and boundary

The code forgets a window when the next opens, and a late reading may be counted
in a window that opened after it.
`WindowsInv` asks for a witness: a function from each admitted call to the call
that opened its window (`Counted`: no window holds more than `Limit`, `Apart`:
openings lie a window apart in the order of the lock, `Present`: the stored
window is the last). Two windows at most meet one interval of a window's
length, and the call that opened the first of two lies outside, which gives
2·limit−1.

`ImplementsLimiter` shows that the boundary, for every interleaving of its
requests, takes only steps of `RateLimiter` on the variables they share. The
limiter's theorems are then used for the instance: what `BoundaryProofs` needs
about windows and types is cited from `RateLimiterProofs`, not proved again.

`BoundaryInv` is `Shape`, the `Stage` of each request (what pc, route, status
and id may be together) and the types of the logs. `Sourced` ties each event and
observation to its request: one observation each, and events told apart by
their numbers. `SharesInv` counts: the length of the subject's admissions is the
number of requests that hold a share (`HasShare`, which is the property's
`HoldsShare` put in terms of what the dependencies refuse). `EndingInv` says why
a share may bring nothing: a body that violates the contract never gets to the
endpoint, and any other request that was let through ends as served.
`ReadersInv` puts the reader's event before the view. `SnapshotsInv` counts the
observations as the finished requests, and the errors as the failed ones;
`AuditViewInv` makes the view the newest events of a prefix of the trail which
holds the events of every earlier request.

### Agent runtime

Retrieval sorts and cuts; the lemmas on ranking show that the relevance with its
tie-break by id is a strict order on the documents (`RanksIsOrder`), that a
document's place is the number of those ahead of it, and that what is retrieved
is at most `TopK` documents, each ahead of every one left out
(`RetrievalIsBest`). `PlanInv` holds at each node, whatever an earlier run left
on the thread: `OnPath` (the checkpoints are the path up to the node), `Screened`
(a flagged request gets nowhere), `Chosen` (category and selection are this
run's from their node on; before it they may be an older run's), `Cited` (but of
whichever run, citations are safe), `Asked` (what the provider saw is what is
cited). `Cited` is what a model of a single run would not need and the code with
a shared thread does.

`VerdictIsOfRequest` is what lets the service take the runtime as two sets of
requests. A run blocked for an injection has a flagged request and no other
ending has one; a planned run has a safe passage for its request in the corpus
(`SafeBatch`); and with the local provider the gate stops no run that has one,
unless the text of the proposal holds a pattern, which the model leaves open.
Nothing that an earlier or an overlapping run left on the thread enters the
verdict: by `Gated`, the channels that the gate reads are those of this run.
With another provider only the first two parts are claimed.

### Governance

`DecisionsInv` says that the three decisions kept with a workflow are the engine
applied to the profile of the intake; the other theorems follow from the
engine's definition for arbitrary sets of categories. They speak of the baseline
engine and of the providers the service names for its operations: another
adapter behind the policy port could drop an obligation.

`GovernedServiceIsClean` puts the engine into the service. With the providers
the service names, the engine in enforce mode denies only at intake
(`OnlyIntakeIsRefused`), and `Legal` says that whatever is stored, held by a
handler or executed passed the intake: none of it declares or holds credentials
or card data. It also says that the checks before planning and execution pass
for all that intake let through; the denials there that the tests provoke take
another policy.

### Console

`PagesAreClients`: a step of a page is a step of the service or leaves it alone,
so every theorem about `Spec` holds behind the console, and the proofs here start
from the service's three invariants. Each step is first put in a small form:
what a handler hands on from one program point to the next (`Turns`), what a
page's request finds (`CreateCalls`, `PlanCalls`, `DecideCalls`,
`ProcessCalls`), and what happens to one page (`OnePage`).

`DisplayInv` follows an answer from the handler to the display: no two chains
wait for one handler (`Alone`), the handler a chain waits for works on what the
chain asked (`WaitsAreServed`), and what a handler answers and what a page shows
is, or was, stored under its id (`SeenIn`: the stored workflow `Follows` it).

`ShownApprovedIsQueued` needs more than it says. A result that reads approved
was queued unless it came from planning: a plan found already made is answered
with the stored workflow, whatever its status, and that may be approved and not
yet queued. `ClaimInv` shows that no page gets such an answer: one handler or
one page at a time has the planning of a workflow (`OneClaim`, from fresh ids
and, since a key not used before is never answered with an older workflow, from
`KeysAreNew`), so a page's plan is always the first (`ClaimsAreUnplanned`). This
rests on the console's random keys, and on pages being the only clients: another
client that planned the workflow of a page could break it.

`RepeatInv`: the key of a stored decision is the decision (`DecisionsAreKeys`),
so a repeated one finds its own key whenever the decision agrees, and the
handler then goes only to the replay, to the enqueue that the first may have
missed, or to the refusal of the owner (`Repeats`).

### What proving changed in the models

* The `CASE` arms of two operators in `HttpBoundary` overlapped: TLC takes the
  first, TLA+ may take either. They are `IF`s in the order of the code now.
* A set in `Governance`'s type invariant was parsed as `SUBSET` of a difference.
* `AgentRuntime` sorted sequences of documents; it now says which documents are
  retrieved by their rank, and orders only the few it retrieved.
* The assumption that `None` is no value of its neighbours was tacit.

### Only model-checked

* Liveness (`queue_progress`, `resume`): out of the prover's reach.
* The three violated runs, which show behaviours and not theorems.

`TypeInv`, `AuthorisationInv` and the other invariants of `WorkflowInvariant` and
`ConsoleInvariant` are inductive for every instance by these proofs; the named
parts that state a property are also part of a run.

## 5. Not modelled

* Evaluator (`golden.py`): one sequential batch over the agent runtime.
* Background worker: a liveness endpoint and no task handling.
* Configuration, cloud manifest, repository checks and scripts: sequential
  validation of files without state of their own.
* Terraform, contracts, policy files: declarations; the code reads none of the
  policy files.
* Of the boundary: payload mapping (`dto.py`), fixed headers, CORS and host
  checks, durations, `redact_sensitive` (no caller in the application).
* Of the console: rendering, typed text, the choice of persona and locale.

## 6. Plan

Everything planned is modelled, checked and, where the prover reaches, proved:
the two abstractions that the service makes of its neighbours (`Injected` and
`Ungrounded` for the runtime, `PolicyDenies` for the engine) are justified by
theorems, and so is the boundary's view of the service's errors. Possible
extensions: the background worker, once it handles tasks; a repository that
survives a restart, whose recovery would need the handlers' half-finished
writes that `Interruptible` already produces; the console with a display that
refreshes.
