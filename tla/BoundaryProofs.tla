--------------------------- MODULE BoundaryProofs ---------------------------
(***************************************************************************)
(* Theorems about the HTTP boundary for any clients, any number of         *)
(* requests at once, any errors of the service and any limits.             *)
(*                                                                         *)
(* Requests only ever change one at a time, so the invariant is a property *)
(* of one request in its stage (Staged), with what ties the requests to    *)
(* the three things they share: limiter, audit sink and telemetry.         *)
(***************************************************************************)
EXTENDS BoundaryProperties, TLAPS, FiniteSetTheorems, SequenceTheorems

LimiterTheorems == INSTANCE RateLimiterProofs WITH Threads <- Handlers

-----------------------------------------------------------------------------
(* The request table.                                                      *)

Fields == {"pc", "sent", "id", "route", "status", "served", "view", "before"}

Shape ==
  /\ DOMAIN requests = Handlers
  /\ \A n \in Handlers : DOMAIN requests[n] = Fields

Statuses == {0, 200, 202, 500} \cup {400, 422} \cup {StatusOf[e] : e \in DOMAIN StatusOf}

(* What a step of n leaves alone.                                          *)
Others(n) == \A m \in Handlers \ {n} : requests'[m] = requests[m]

LEMMA Becoming ==
  ASSUME Shape, NEW n \in Handlers, NEW r, DOMAIN r = Fields, Becomes(n, r)
  PROVE  Shape' /\ requests'[n] = r /\ Others(n)
<1>1. /\ DOMAIN requests' = Handlers /\ requests'[n] = r
      /\ \A m \in Handlers \ {n} : requests'[m] = requests[m]
  BY DEF Shape, Becomes
<1>2. \A m \in Handlers : DOMAIN requests'[m] = Fields
  BY <1>1 DEF Shape
<1> QED BY <1>1, <1>2 DEF Shape, Others

(* The statuses of the errors the boundary itself answers with, and of the *)
(* ones the service raises: none of those is the limiter's.                *)
LEMMA StatusTable ==
  /\ StatusOf["AuthenticationRequired"] = 401 /\ StatusOf["PermissionDenied"] = 403
  /\ StatusOf["InvalidRequestMetadata"] = 400 /\ StatusOf["RequestRateExceeded"] = 429
  /\ {0, 200, 202, 400, 401, 403, 404, 422, 429, 500} \subseteq Statuses
<1>1. /\ StatusOf["AuthenticationRequired"] = 401 /\ StatusOf["PermissionDenied"] = 403
      /\ StatusOf["InvalidRequestMetadata"] = 400 /\ StatusOf["RequestRateExceeded"] = 429
      /\ StatusOf["WorkflowNotFound"] = 404
  BY DEF StatusOf
<1>2. {"AuthenticationRequired", "PermissionDenied", "InvalidRequestMetadata",
       "RequestRateExceeded", "WorkflowNotFound"} \subseteq DOMAIN StatusOf
  BY DEF StatusOf
<1> QED BY <1>1, <1>2 DEF Statuses

LEMMA ServiceStatus ==
  ASSUME NEW endpoint \in Mutations \cup {"workflow"},
         NEW error \in ErrorsOf[endpoint] \cap ServiceErrors
  PROVE  StatusOf[error] \in Statuses /\ StatusOf[error] # 429
<1>1. error \in DOMAIN StatusOf
  BY BoundaryAssumption
<1>2. error # "RequestRateExceeded"
  BY DEF ErrorsOf, Mutations
<1>3. StatusOf[error] # 429
  BY <1>1, <1>2 DEF StatusOf
<1> QED BY <1>1, <1>3 DEF Statuses

(* A request that nothing local refuses.                                   *)
LEMMA Accepted ==
  ASSUME NEW sent \in Sent, Refusal(sent) = None
  PROVE  /\ sent.endpoint \in Endpoints
         /\ sent.endpoint # "health" => sent.credential \in Subjects
         /\ sent.endpoint \in Mutations => sent.key = "good"
<1>1. /\ sent.endpoint \in Endpoints \cup {"<unmatched>"} /\ sent.key \in {"good", "bad"}
      /\ sent.credential \in Subjects \cup {None}
  BY BoundaryAssumption DEF RequestShape
<1>2. 404 # None /\ 422 # None /\ 401 # None /\ 400 # None
  BY BoundaryAssumption
<1> QED BY <1>1, <1>2, StatusTable DEF Refusal, IsAuthenticated, Endpoints, Mutations

-----------------------------------------------------------------------------
(* The stages of one request.                                              *)

Active == {"metered", "limiting", "endpoint", "reading"}
Served == Mutations \cup {"workflow"}
Reads  == {"metrics", "audit"}

Typed(r) ==
  /\ r.pc \in {"new", "metered", "limiting", "endpoint", "reading",
              "answered", "done", "crashed"}
  /\ r.status \in Statuses /\ r.served \in BOOLEAN /\ r.before \subseteq Handlers

Identified(n, r) ==
  /\ r.pc = "new" => r = NotReceived
  /\ r.pc # "new" =>
       /\ r.sent \in Sent /\ r.id = CorrelationOf(r.sent, n)
       /\ r.route = IF r.id = Unavailable THEN "<rejected>" ELSE r.sent.endpoint
       /\ r.id = Unavailable => r.pc \in {"answered", "done"} /\ r.status = 400

Progress(r) ==
  /\ r.pc \in Active => r.status = 0 /\ r.view = None
  /\ r.pc \in Active \cup {"crashed"} \/ r.served \/ r.view # None =>
       Refusal(r.sent) = None /\ r.id # Unavailable
  /\ r.pc \in {"metered", "limiting"} => r.sent.endpoint \in Mutations
  /\ r.pc = "endpoint" => r.sent.endpoint \in Served \cup Reads
  /\ r.pc = "reading" => r.sent.endpoint \in Reads
  /\ r.served => r.pc \in {"answered", "done", "crashed"} /\ r.sent.endpoint \in Served
  /\ r.pc = "crashed" => r.served
  /\ r.view # None => r.pc \in {"answered", "done"} /\ r.sent.endpoint \in Reads

Stage(n, r) == Typed(r) /\ Identified(n, r) /\ Progress(r)

Staged == \A n \in Handlers : Stage(n, requests[n])

(* Where the middleware and the dependencies send a request before it has  *)
(* touched anything shared.                                                *)
Dispatched(r) ==
  \/ r.pc = "answered" /\ r.status = Refusal(r.sent) /\ Refusal(r.sent) # None
  \/ /\ r.pc = "answered" /\ r.status = 200 /\ Refusal(r.sent) = None
     /\ r.sent.endpoint \in {"health", "session"}
  \/ /\ r.status = 0 /\ Refusal(r.sent) = None
     /\ \/ r.pc = "metered" /\ r.sent.endpoint \in Mutations
        \/ r.pc = "endpoint" /\ r.sent.endpoint \in {"workflow"} \cup Reads

Arrived(n, r) ==
  /\ r.sent \in Sent /\ r.id = CorrelationOf(r.sent, n)
  /\ r.before = {m \in Handlers : requests[m].pc = "done"}
  /\ r.served = FALSE /\ r.view = None
  /\ \/ /\ r.id = Unavailable /\ r.route = "<rejected>"
        /\ r.pc = "answered" /\ r.status = 400
     \/ r.id # Unavailable /\ r.route = r.sent.endpoint /\ Dispatched(r)

LEMMA Arrival ==
  ASSUME Shape, NEW n \in Handlers, Receive(n)
  PROVE  /\ requests[n] = NotReceived /\ Shape' /\ Others(n)
         /\ Arrived(n, requests'[n])
         /\ UNCHANGED <<audit, telemetry, limiter>>
<1>1. PICK sent \in Sent :
        LET id    == CorrelationOf(sent, n)
            state == [NotReceived EXCEPT !.sent = sent, !.id = id,
                        !.before = {m \in Handlers : requests[m].pc = "done"}]
        IN Becomes(n, IF id = Unavailable
                        THEN Reject(state)
                        ELSE Dispatch([state EXCEPT !.route = sent.endpoint]))
  BY DEF Receive
<1> DEFINE id == CorrelationOf(sent, n)
           before == {m \in Handlers : requests[m].pc = "done"}
           state == [NotReceived EXCEPT !.sent = sent, !.id = id, !.before = before]
           found == [state EXCEPT !.route = sent.endpoint]
           next == IF id = Unavailable THEN Reject(state) ELSE Dispatch(found)
<1>2. Becomes(n, next)
  BY <1>1
<1>3. /\ state.pc = "new" /\ state.sent = sent /\ state.id = id
      /\ state.status = 0 /\ state.served = FALSE
      /\ state.view = None /\ state.before = before /\ DOMAIN state = Fields
  <2> HIDE DEF id, before
  <2> QED BY DEF Fields, NotReceived
<1> HIDE DEF state
<1>4. /\ found.pc = "new" /\ found.sent = sent /\ found.id = id
      /\ found.route = sent.endpoint /\ found.status = 0 /\ found.served = FALSE
      /\ found.view = None /\ found.before = before /\ DOMAIN found = Fields
  <2> HIDE DEF id, before
  <2> QED BY <1>3 DEF Fields
<1> HIDE DEF state, found, before, id
<1>5. /\ DOMAIN next = Fields /\ next.sent = sent /\ next.id = id
      /\ next.before = before /\ next.served = FALSE /\ next.view = None
  <2>1. CASE id = Unavailable
    BY <1>3, <1>4, <2>1 DEF Reject, Answered, Fields
  <2>2. CASE id # Unavailable
    <3>1. next = Dispatch(found)
      BY <2>2
    <3> QED BY <1>4, <3>1, ZenonT(30) DEF Dispatch, Answered, Fields
  <2> QED BY <2>1, <2>2
<1>6. \/ /\ next.id = Unavailable /\ next.route = "<rejected>"
         /\ next.pc = "answered" /\ next.status = 400
      \/ next.id # Unavailable /\ next.route = next.sent.endpoint /\ Dispatched(next)
  <2>1. CASE id = Unavailable
    BY <1>3, <1>4, <1>5, <2>1 DEF Reject, Answered, Fields
  <2>2. CASE id # Unavailable
    <3>1. next = Dispatch(found)
      BY <2>2
    <3> HIDE DEF next
    <3>2. CASE Refusal(sent) # None
      <4>1. next = Answered(found, Refusal(sent))
        BY <1>4, <3>1, <3>2 DEF Dispatch
      <4>2. /\ next.pc = "answered" /\ next.status = Refusal(sent)
            /\ next.route = sent.endpoint
        BY <1>4, <4>1 DEF Answered, Fields
      <4> QED BY <1>5, <2>2, <3>2, <4>2 DEF Dispatched
    <3>3. CASE Refusal(sent) = None
      <4>1. sent.endpoint \in Endpoints
        BY <3>3, Accepted
      <4>2. CASE sent.endpoint \in {"health", "session"}
        BY <1>3, <1>4, <1>5, <2>2, <3>1, <3>3, <4>2 DEF Dispatch, Answered, Fields, Dispatched
      <4>3. CASE sent.endpoint \in Mutations
        BY <1>3, <1>4, <1>5, <2>2, <3>1, <3>3, <4>3
        DEF Dispatch, Mutations, Fields, Dispatched
      <4>4. CASE sent.endpoint \in {"workflow"} \cup Reads
        BY <1>3, <1>4, <1>5, <2>2, <3>1, <3>3, <4>4
        DEF Dispatch, Mutations, Reads, Fields, Dispatched
      <4> QED BY <4>1, <4>2, <4>3, <4>4 DEF Endpoints, Reads
    <3> QED BY <3>2, <3>3
  <2> QED BY <2>1, <2>2
<1> HIDE DEF next
<1>7. Shape' /\ requests'[n] = next /\ Others(n)
  BY <1>2, <1>5, Becoming
<1> QED BY <1>5, <1>6, <1>7 DEF Receive, Arrived, id, before

(* What a request keeps from its arrival on.                               *)
Keeps(r, q) ==
  q.sent = r.sent /\ q.id = r.id /\ q.route = r.route /\ q.before = r.before

(* A step of one request, field by field.                                  *)
Step(n, pc, status, served, view) ==
  LET r == requests[n]
      q == requests'[n]
  IN /\ Shape' /\ Others(n) /\ Keeps(r, q)
     /\ q.pc = pc /\ q.status = status /\ q.served = served /\ q.view = view

LEMMA Stepping ==
  ASSUME Shape, NEW n \in Handlers, NEW q, DOMAIN q = Fields,
         Keeps(requests[n], q), Becomes(n, q)
  PROVE  Step(n, q.pc, q.status, q.served, q.view)
<1>1. Shape' /\ Others(n) /\ requests'[n] = q
  BY Becoming
<1> QED BY <1>1 DEF Step

(* A request that only moves on, and one that is answered.                 *)
LEMMA Moving ==
  ASSUME Shape, NEW n \in Handlers, NEW pc, Becomes(n, [requests[n] EXCEPT !.pc = pc])
  PROVE  Step(n, pc, requests[n].status, requests[n].served, requests[n].view)
<1> DEFINE r == requests[n]
           q == [r EXCEPT !.pc = pc]
<1>1. DOMAIN r = Fields /\ Becomes(n, q)
  BY DEF Shape
<1> HIDE DEF r
<1>2. /\ DOMAIN q = Fields /\ Keeps(r, q)
      /\ q.pc = pc /\ q.status = r.status /\ q.served = r.served /\ q.view = r.view
  BY <1>1 DEF Fields, Keeps
<1> HIDE DEF q
<1>3. Step(n, q.pc, q.status, q.served, q.view)
  BY <1>1, <1>2, Stepping DEF r
<1> QED BY <1>2, <1>3 DEF r

LEMMA Answering ==
  ASSUME Shape, NEW n \in Handlers, NEW state, DOMAIN state = Fields,
         Keeps(requests[n], state), NEW status, Becomes(n, Answered(state, status))
  PROVE  Step(n, "answered", status, state.served, state.view)
<1> DEFINE q == Answered(state, status)
<1>1. /\ DOMAIN q = Fields /\ Keeps(state, q)
      /\ q.pc = "answered" /\ q.status = status
      /\ q.served = state.served /\ q.view = state.view
  BY DEF Fields, Keeps, Answered
<1>2. Becomes(n, q)
  OBVIOUS
<1> HIDE DEF q
<1>3. Keeps(requests[n], q)
  BY <1>1 DEF Keeps
<1>4. Step(n, q.pc, q.status, q.served, q.view)
  BY <1>1, <1>2, <1>3, Stepping
<1> QED BY <1>1, <1>4

(* The turns of a request, one lemma for each.                             *)
LEMMA AskTurn ==
  ASSUME Shape, NEW n \in Handlers, AskLimiter(n)
  PROVE  LET r == requests[n]
         IN r.pc = "metered" /\ Step(n, "limiting", r.status, r.served, r.view)
<1>1. requests[n].pc = "metered" /\ Becomes(n, [requests[n] EXCEPT !.pc = "limiting"])
  BY DEF AskLimiter
<1> QED BY <1>1, Moving

LEMMA LeaveTurn ==
  ASSUME Shape, NEW n \in Handlers, LeaveLimiter(n)
  PROVE  LET r == requests[n]
         IN /\ r.pc = "limiting" /\ calls[n].pc \in {"allowed", "denied"}
            /\ \/ /\ calls[n].pc = "denied"
                  /\ Step(n, "answered", 429, r.served, r.view)
               \/ /\ calls[n].pc = "allowed" /\ Misfits(r.sent)
                  /\ Step(n, "answered", 422, r.served, r.view)
               \/ /\ calls[n].pc = "allowed" /\ ~Misfits(r.sent)
                  /\ Step(n, "endpoint", r.status, r.served, r.view)
<1> DEFINE r == requests[n]
<1>1. DOMAIN r = Fields /\ Keeps(r, r)
  BY DEF Shape, Keeps
<1>2. r.pc = "limiting" /\ calls[n].pc \in {"allowed", "denied"}
  BY DEF LeaveLimiter, Limiter!Return
<1>3. \/ calls[n].pc = "denied" /\ Becomes(n, Answered(r, 429))
      \/ calls[n].pc = "allowed" /\ Misfits(r.sent) /\ Becomes(n, Answered(r, 422))
      \/ /\ calls[n].pc = "allowed" /\ ~Misfits(r.sent)
         /\ Becomes(n, [r EXCEPT !.pc = "endpoint"])
  BY <1>2, StatusTable DEF LeaveLimiter, Misfits
<1>4. ASSUME NEW status, Becomes(n, Answered(r, status))
      PROVE  Step(n, "answered", status, r.served, r.view)
  BY <1>1, <1>4, Answering
<1>5. CASE calls[n].pc = "denied" /\ Becomes(n, Answered(r, 429))
  <2>1. Step(n, "answered", 429, r.served, r.view)
    BY <1>4, <1>5
  <2> QED BY <1>2, <1>5, <2>1
<1>6. CASE /\ calls[n].pc = "allowed" /\ Misfits(r.sent)
           /\ Becomes(n, Answered(r, 422))
  <2>1. Step(n, "answered", 422, r.served, r.view)
    BY <1>4, <1>6
  <2> QED BY <1>2, <1>6, <2>1
<1>7. CASE /\ calls[n].pc = "allowed" /\ ~Misfits(r.sent)
           /\ Becomes(n, [r EXCEPT !.pc = "endpoint"])
  <2>1. Step(n, "endpoint", r.status, r.served, r.view)
    BY <1>7, Moving
  <2> QED BY <1>2, <1>7, <2>1
<1> QED BY <1>3, <1>5, <1>6, <1>7

LEMMA ServiceTurn ==
  ASSUME Shape, NEW n \in Handlers, CallService(n)
  PROVE  LET r == requests[n]
         IN /\ r.pc = "endpoint" /\ r.sent.endpoint \in Served
            /\ \E status \in Statuses \ {429} :
                 Step(n, "answered", status, TRUE, r.view)
<1> DEFINE r     == requests[n]
           state == [r EXCEPT !.served = TRUE]
<1>1. DOMAIN r = Fields
  BY DEF Shape
<1>2. r.pc = "endpoint" /\ r.sent.endpoint \in Served
  BY DEF CallService, IsServiceCall, Served
<1>3. \E status \in Statuses \ {429} : Becomes(n, Answered(state, status))
  <2>1. state.sent = r.sent
    BY <1>1 DEF Fields
  <2>2. CASE Becomes(n, Answered(state, Success(r.sent.endpoint)))
    BY <2>2, StatusTable DEF Success
  <2>3. CASE \E error \in ErrorsOf[r.sent.endpoint] \cap ServiceErrors :
               Becomes(n, Answered(state, StatusOf[error]))
    BY <1>2, <2>3, ServiceStatus DEF Served
  <2> QED BY <2>1, <2>2, <2>3 DEF CallService
<1>4. PICK status \in Statuses \ {429} : Becomes(n, Answered(state, status))
  BY <1>3
<1> HIDE DEF r
<1>5. /\ DOMAIN state = Fields /\ Keeps(r, state)
      /\ state.served = TRUE /\ state.view = r.view
  BY <1>1 DEF Fields, Keeps
<1> HIDE DEF state
<1>6. Step(n, "answered", status, state.served, state.view)
  BY <1>4, <1>5, Answering DEF r
<1>7. Step(n, "answered", status, TRUE, r.view)
  BY <1>5, <1>6, ZenonT(40)
<1> QED BY <1>2, <1>7 DEF r

LEMMA CrashTurn ==
  ASSUME Shape, NEW n \in Handlers, Crash(n)
  PROVE  LET r == requests[n]
         IN /\ r.pc = "endpoint" /\ r.sent.endpoint \in Served
            /\ Step(n, "crashed", 500, TRUE, r.view)
<1> DEFINE r == requests[n]
           q == [r EXCEPT !.served = TRUE, !.pc = "crashed", !.status = 500]
<1>1. DOMAIN r = Fields
  BY DEF Shape
<1>2. r.pc = "endpoint" /\ r.sent.endpoint \in Served /\ Becomes(n, q)
  BY DEF Crash, IsServiceCall, Served
<1> HIDE DEF r
<1>3. /\ DOMAIN q = Fields /\ Keeps(r, q)
      /\ q.pc = "crashed" /\ q.status = 500 /\ q.served = TRUE /\ q.view = r.view
  BY <1>1 DEF Fields, Keeps
<1> HIDE DEF q
<1>4. Step(n, q.pc, q.status, q.served, q.view)
  BY <1>2, <1>3, Stepping DEF r
<1> QED BY <1>2, <1>3, <1>4, ZenonT(40) DEF r

(* What the endpoints of the service do to a request, whether they answer   *)
(* or break: it leaves "endpoint" called, and not with the limiter's 429.   *)
LEMMA EndpointTurn ==
  ASSUME Shape, NEW n \in Handlers, CallService(n) \/ Crash(n)
  PROVE  LET r == requests[n]
             q == requests'[n]
         IN /\ r.pc = "endpoint" /\ r.sent.endpoint \in Served
            /\ Others(n) /\ Keeps(r, q) /\ q.view = r.view
            /\ q.pc \in {"answered", "crashed"} /\ q.status # 429
<1> DEFINE r == requests[n]
<1>1. CASE CallService(n)
  <2>1. r.pc = "endpoint" /\ r.sent.endpoint \in Served
    BY <1>1, ServiceTurn, ZenonT(40)
  <2>2. PICK status \in Statuses \ {429} : Step(n, "answered", status, TRUE, r.view)
    BY <1>1, ServiceTurn, ZenonT(40)
  <2>3. status # 429
    BY <2>2
  <2> QED BY <2>1, <2>2, <2>3 DEF Step
<1>2. CASE Crash(n)
  <2>1. r.pc = "endpoint" /\ r.sent.endpoint \in Served
    BY <1>2, CrashTurn, ZenonT(40)
  <2>2. Step(n, "crashed", 500, TRUE, r.view)
    BY <1>2, CrashTurn, ZenonT(40)
  <2> QED BY <2>1, <2>2 DEF Step
<1> QED BY <1>1, <1>2

LEMMA BeginTurn ==
  ASSUME Shape, NEW n \in Handlers, BeginRead(n)
  PROVE  LET r   == requests[n]
             may == Roles[r.sent.credential] \cap Readers(r.sent.endpoint) # {}
         IN /\ r.pc = "endpoint" /\ r.sent.endpoint \in Reads
            /\ AuditRead(n, may)
            /\ \/ may /\ Step(n, "reading", r.status, r.served, r.view)
               \/ ~may /\ Step(n, "answered", 403, r.served, r.view)
<1> DEFINE r   == requests[n]
           may == Roles[r.sent.credential] \cap Readers(r.sent.endpoint) # {}
<1>1. DOMAIN r = Fields /\ Keeps(r, r)
  BY DEF Shape, Keeps
<1>2. /\ r.pc = "endpoint" /\ r.sent.endpoint \in Reads /\ AuditRead(n, may)
      /\ Becomes(n, IF may THEN [r EXCEPT !.pc = "reading"] ELSE Answered(r, 403))
  BY StatusTable DEF BeginRead, Reads
<1>3. ASSUME may PROVE Step(n, "reading", r.status, r.served, r.view)
  <2>1. Becomes(n, [r EXCEPT !.pc = "reading"])
    BY <1>2, <1>3
  <2> QED BY <2>1, Moving
<1>4. ASSUME ~may PROVE Step(n, "answered", 403, r.served, r.view)
  <2>1. Becomes(n, Answered(r, 403))
    BY <1>2, <1>4
  <2> QED BY <1>1, <2>1, Answering
<1> HIDE DEF may
<1> QED BY <1>2, <1>3, <1>4 DEF may

LEMMA ReadTurn ==
  ASSUME Shape, NEW n \in Handlers, Read(n)
  PROVE  LET r == requests[n]
         IN /\ r.pc = "reading"
            /\ Step(n, "answered", 200, r.served,
                    IF r.sent.endpoint = "metrics" THEN Snapshot ELSE AuditEvents)
<1> DEFINE r     == requests[n]
           seen  == IF r.sent.endpoint = "metrics" THEN Snapshot ELSE AuditEvents
           state == [r EXCEPT !.view = seen]
<1>1. DOMAIN r = Fields
  BY DEF Shape
<1>2. r.pc = "reading" /\ Becomes(n, Answered(state, 200))
  BY DEF Read
<1> HIDE DEF r, seen
<1>3. /\ DOMAIN state = Fields /\ Keeps(r, state)
      /\ state.served = r.served /\ state.view = seen
  BY <1>1 DEF Fields, Keeps
<1> HIDE DEF state
<1>4. Step(n, "answered", 200, state.served, state.view)
  BY <1>2, <1>3, Answering DEF r
<1> QED BY <1>2, <1>3, <1>4 DEF r, seen

LEMMA ObserveTurn ==
  ASSUME Shape, NEW n \in Handlers, Observe(n)
  PROVE  LET r == requests[n]
         IN r.pc = "answered" /\ Step(n, "done", r.status, r.served, r.view)
<1>1. requests[n].pc = "answered" /\ Becomes(n, [requests[n] EXCEPT !.pc = "done"])
  BY DEF Observe
<1> QED BY <1>1, Moving

-----------------------------------------------------------------------------
(* Every step keeps the table and the stages.                              *)

LEMMA StagedOne ==
  ASSUME Staged, NEW n \in Handlers, Others(n), Stage(n, requests'[n])
  PROVE  Staged'
<1> SUFFICES ASSUME NEW m \in Handlers PROVE Stage(m, requests'[m])
  BY DEF Staged
<1>1. CASE m = n
  BY <1>1
<1>2. CASE m # n
  BY <1>2 DEF Others, Staged
<1> QED BY <1>1, <1>2

LEMMA StagedAtArrival ==
  ASSUME NEW n \in Handlers, NEW r, Arrived(n, r)
  PROVE  Stage(n, r)
<1>1. r.sent \in Sent /\ r.id = CorrelationOf(r.sent, n) /\ r.before \subseteq Handlers
  BY DEF Arrived
<1>2. CASE r.id = Unavailable
  <2>1. r.pc = "answered" /\ r.status = 400 /\ r.route = "<rejected>"
    BY <1>2 DEF Arrived
  <2>2. r.served = FALSE /\ r.view = None
    BY DEF Arrived
  <2>3. Typed(r)
    <3>1. r.status \in Statuses
      BY <2>1, StatusTable
    <3>2. r.served \in BOOLEAN /\ r.pc = "answered"
      BY <2>1, <2>2
    <3> QED BY <1>1, <3>1, <3>2 DEF Typed
  <2>4. Identified(n, r)
    BY <1>1, <1>2, <2>1 DEF Identified
  <2>5. Progress(r)
    BY <2>1, <2>2 DEF Progress, Active
  <2> QED BY <2>3, <2>4, <2>5 DEF Stage
<1>3. CASE r.id # Unavailable
  <2>1. /\ r.route = r.sent.endpoint /\ Dispatched(r)
        /\ r.served = FALSE /\ r.view = None
    BY <1>3 DEF Arrived
  <2>2. Refusal(r.sent) \in {None, 400, 401, 404, 422}
    BY StatusTable DEF Refusal
  <2>3. CASE r.pc = "answered"
    <3>1. r.status \in Statuses
      BY <2>1, <2>2, <2>3, StatusTable DEF Dispatched
    <3> QED BY <1>1, <1>3, <2>1, <2>3, <3>1
        DEF Stage, Typed, Identified, Progress, Active
  <2>4. CASE r.pc # "answered"
    <3>1. /\ r.status = 0 /\ Refusal(r.sent) = None
          /\ \/ r.pc = "metered" /\ r.sent.endpoint \in Mutations
             \/ r.pc = "endpoint" /\ r.sent.endpoint \in {"workflow"} \cup Reads
      BY <2>1, <2>4 DEF Dispatched
    <3>2. Typed(r)
      BY <1>1, <2>1, <3>1 DEF Typed, Statuses
    <3>3. Identified(n, r)
      BY <1>1, <1>3, <2>1, <3>1 DEF Identified
    <3>4. Progress(r)
      BY <1>3, <2>1, <3>1 DEF Progress, Active, Served
    <3> QED BY <3>2, <3>3, <3>4 DEF Stage
  <2> QED BY <2>3, <2>4
<1> QED BY <1>2, <1>3

(* An active request only moves on.                                        *)
LEMMA StagedOnward ==
  ASSUME Staged, NEW n \in Handlers, NEW pc, NEW status, NEW served, NEW view,
         Step(n, pc, status, served, view),
         requests[n].pc \in Active,
         pc \in {"limiting", "endpoint", "reading", "answered", "crashed"},
         status \in Statuses, served \in BOOLEAN,
         pc \in Active => status = 0 /\ view = None,
         pc = "limiting" => requests[n].sent.endpoint \in Mutations,
         pc = "endpoint" => requests[n].sent.endpoint \in Served \cup Reads,
         pc = "reading" => requests[n].sent.endpoint \in Reads,
         served => pc \in {"answered", "crashed"} /\ requests[n].sent.endpoint \in Served,
         pc = "crashed" => served,
         view # None => pc = "answered" /\ requests[n].sent.endpoint \in Reads
  PROVE  Shape' /\ Staged'
<1> DEFINE r == requests[n]
           q == requests'[n]
<1>1. /\ Typed(r) /\ Identified(n, r) /\ Progress(r)
  BY DEF Staged, Stage
<1>2. /\ Shape' /\ Keeps(r, q) /\ Others(n)
      /\ q.pc = pc /\ q.status = status /\ q.served = served /\ q.view = view
  BY DEF Step
<1> HIDE DEF r, q
<1>3. /\ r.sent \in Sent /\ r.id = CorrelationOf(r.sent, n) /\ r.id # Unavailable
      /\ r.route = r.sent.endpoint /\ Refusal(r.sent) = None /\ r.before \subseteq Handlers
  BY <1>1 DEF r, Typed, Identified, Progress, Active
<1>4. Typed(q)
  BY <1>2, <1>3 DEF Typed, Keeps
<1>5. Identified(n, q)
  BY <1>2, <1>3 DEF Identified, Keeps
<1>6. Progress(q)
  BY <1>2, <1>3 DEF Progress, Keeps, Active, r
<1>7. Stage(n, requests'[n])
  BY <1>4, <1>5, <1>6 DEF Stage, q
<1> QED BY <1>2, <1>7, StagedOne

(* What a stage says of a request that is at work.                         *)
LEMMA AtWork ==
  ASSUME Staged, NEW n \in Handlers, requests[n].pc \in Active
  PROVE  LET r == requests[n]
         IN /\ r.sent \in Sent /\ Refusal(r.sent) = None /\ r.id # Unavailable
            /\ r.id \in SentIds \cup Handlers /\ r.sent.credential \in Subjects
            /\ r.sent.endpoint \in Endpoints /\ r.route = r.sent.endpoint
            /\ r.status = 0 /\ r.view = None /\ ~r.served /\ r.served \in BOOLEAN
            /\ r.pc \in {"metered", "limiting"} => r.sent.endpoint \in Mutations
            /\ r.pc = "endpoint" => r.sent.endpoint \in Served \cup Reads
            /\ r.pc = "reading" => r.sent.endpoint \in Reads
<1> DEFINE r == requests[n]
<1>1. /\ Typed(r) /\ Identified(n, r) /\ Progress(r)
  BY DEF Staged, Stage
<1> HIDE DEF r
<1>2. /\ r.sent \in Sent /\ Refusal(r.sent) = None /\ r.id # Unavailable
      /\ r.id = CorrelationOf(r.sent, n) /\ r.route = r.sent.endpoint
      /\ r.status = 0 /\ r.view = None /\ ~r.served /\ r.served \in BOOLEAN
      /\ r.pc \in {"metered", "limiting"} => r.sent.endpoint \in Mutations
      /\ r.pc = "endpoint" => r.sent.endpoint \in Served \cup Reads
      /\ r.pc = "reading" => r.sent.endpoint \in Reads
  BY <1>1 DEF r, Typed, Identified, Progress, Active
<1>3. r.id \in SentIds \cup Handlers
  BY <1>2 DEF CorrelationOf
<1>4. r.sent.credential \in Subjects /\ r.sent.endpoint \in Endpoints
  BY <1>2, Accepted DEF r, Active, Served, Reads, Mutations
<1> QED BY <1>2, <1>3, <1>4 DEF r

LEMMA StagedStep ==
  ASSUME Shape, Staged, [Next]_vars
  PROVE  Shape' /\ Staged'
<1>1. CASE UNCHANGED requests
  BY <1>1 DEF Shape, Staged
<1>2. ASSUME NEW n \in Handlers, Receive(n) PROVE Shape' /\ Staged'
  BY <1>2, Arrival, StagedAtArrival, StagedOne
<1>3. ASSUME NEW n \in Handlers, AskLimiter(n) PROVE Shape' /\ Staged'
  <2>1. requests[n].pc = "metered"
    BY <1>3, AskTurn
  <2>2. Step(n, "limiting", requests[n].status, requests[n].served, requests[n].view)
    BY <1>3, AskTurn
  <2>3. /\ requests[n].status = 0 /\ ~requests[n].served /\ requests[n].served \in BOOLEAN
        /\ requests[n].view = None /\ requests[n].sent.endpoint \in Mutations
    BY <2>1, AtWork DEF Active
  <2>4. Step(n, "limiting", 0, requests[n].served, None)
    BY <2>2, <2>3
  <2> QED BY <2>1, <2>3, <2>4, StagedOnward, StatusTable DEF Active
<1>4. ASSUME NEW n \in Handlers, LeaveLimiter(n) PROVE Shape' /\ Staged'
  <2>1. requests[n].pc = "limiting"
    BY <1>4, LeaveTurn
  <2>2. /\ requests[n].status = 0 /\ ~requests[n].served /\ requests[n].served \in BOOLEAN
        /\ requests[n].view = None /\ requests[n].sent.endpoint \in Mutations
    BY <2>1, AtWork DEF Active
  <2>3. \/ Step(n, "answered", 429, requests[n].served, None)
        \/ Step(n, "answered", 422, requests[n].served, None)
        \/ Step(n, "endpoint", 0, requests[n].served, None)
    BY <1>4, <2>2, LeaveTurn
  <2>4. {0, 422, 429} \subseteq Statuses
    BY StatusTable
  <2>5. CASE \E status \in {422, 429} : Step(n, "answered", status, requests[n].served, None)
    BY <2>1, <2>2, <2>4, <2>5, StagedOnward DEF Active
  <2>6. CASE Step(n, "endpoint", 0, requests[n].served, None)
    BY <2>1, <2>2, <2>4, <2>6, StagedOnward DEF Active, Served
  <2> QED BY <2>3, <2>5, <2>6
<1>5. ASSUME NEW n \in Handlers, CallService(n) PROVE Shape' /\ Staged'
  <2>1. requests[n].pc = "endpoint" /\ requests[n].sent.endpoint \in Served
    BY <1>5, ServiceTurn, ZenonT(40)
  <2>2. requests[n].view = None
    BY <2>1, AtWork DEF Active
  <2>3. PICK status \in Statuses : Step(n, "answered", status, TRUE, None)
    BY <1>5, <2>2, ServiceTurn, ZenonT(40)
  <2> QED BY <2>1, <2>3, StagedOnward DEF Active
<1>6. ASSUME NEW n \in Handlers, Crash(n) PROVE Shape' /\ Staged'
  <2>1. requests[n].pc = "endpoint" /\ requests[n].sent.endpoint \in Served
    BY <1>6, CrashTurn, ZenonT(40)
  <2>2. requests[n].view = None
    BY <2>1, AtWork DEF Active
  <2>3. Step(n, "crashed", 500, TRUE, None)
    BY <1>6, <2>2, CrashTurn, ZenonT(40)
  <2>4. PICK status \in Statuses : status = 500
    BY StatusTable
  <2>5. Step(n, "crashed", status, TRUE, None)
    BY <2>3, <2>4
  <2> QED BY <2>1, <2>5, StagedOnward DEF Active
<1>7. ASSUME NEW n \in Handlers, BeginRead(n) PROVE Shape' /\ Staged'
  <2>1. requests[n].pc = "endpoint" /\ requests[n].sent.endpoint \in Reads
    BY <1>7, BeginTurn
  <2>2. /\ requests[n].status = 0 /\ ~requests[n].served /\ requests[n].served \in BOOLEAN
        /\ requests[n].view = None
    BY <2>1, AtWork DEF Active
  <2>3. \/ Step(n, "reading", 0, requests[n].served, None)
        \/ Step(n, "answered", 403, requests[n].served, None)
    BY <1>7, <2>2, BeginTurn
  <2>4. {0, 403} \subseteq Statuses
    BY StatusTable
  <2>5. CASE Step(n, "reading", 0, requests[n].served, None)
    BY <2>1, <2>2, <2>4, <2>5, StagedOnward DEF Active
  <2>6. CASE Step(n, "answered", 403, requests[n].served, None)
    BY <2>1, <2>2, <2>4, <2>6, StagedOnward DEF Active
  <2> QED BY <2>3, <2>5, <2>6
<1>8. ASSUME NEW n \in Handlers, Read(n) PROVE Shape' /\ Staged'
  <2> DEFINE seen == IF requests[n].sent.endpoint = "metrics" THEN Snapshot ELSE AuditEvents
  <2>1. requests[n].pc = "reading"
    BY <1>8, ReadTurn
  <2>2. ~requests[n].served /\ requests[n].served \in BOOLEAN /\ requests[n].sent.endpoint \in Reads
    BY <2>1, AtWork DEF Active
  <2>3. Step(n, "answered", 200, requests[n].served, seen)
    BY <1>8, <2>2, ReadTurn
  <2> HIDE DEF seen
  <2> QED BY <2>1, <2>2, <2>3, StagedOnward, StatusTable DEF Active
<1>9. ASSUME NEW n \in Handlers, Observe(n) PROVE Shape' /\ Staged'
  <2> DEFINE r == requests[n]
             q == requests'[n]
  <2>1. r.pc = "answered" /\ Step(n, "done", r.status, r.served, r.view)
    BY <1>9, ObserveTurn
  <2>2. Typed(r) /\ Identified(n, r) /\ Progress(r)
    BY DEF Staged, Stage
  <2>3. /\ q.pc = "done" /\ q.status = r.status /\ q.served = r.served
        /\ q.view = r.view /\ Keeps(r, q) /\ Others(n) /\ Shape'
    BY <2>1 DEF Step
  <2> HIDE DEF r, q
  <2>4. Stage(n, q)
    BY <2>1, <2>2, <2>3 DEF Stage, Typed, Identified, Progress, Keeps, Active
  <2> QED BY <2>3, <2>4, StagedOne DEF q
<1>10. ASSUME NEW n \in Handlers, Limiting(n) \/ ServiceAudit(n) PROVE UNCHANGED requests
  BY <1>10 DEF Limiting, ServiceAudit
<1> QED
  <2>1. CASE Tick \/ UNCHANGED vars
    BY <1>1, <2>1 DEF Tick, vars
  <2> QED BY <1>1, <1>2, <1>3, <1>4, <1>5, <1>6, <1>7, <1>8, <1>9, <1>10, <2>1 DEF Next

-----------------------------------------------------------------------------
(* The boundary uses the limiter as the limiter is meant to be used: every *)
(* step is a step of RateLimiter or leaves it alone, so what is proved     *)
(* about RateLimiter holds here.                                           *)

LEMMA LimiterSteps == [Next]_vars => [Limiter!Next]_(Limiter!vars)
<1> SUFFICES ASSUME [Next]_vars PROVE [Limiter!Next]_(Limiter!vars)
  OBVIOUS
<1>1. CASE UNCHANGED limiter
  BY <1>1 DEF limiter, Limiter!vars
<1>2. CASE Tick
  BY <1>2 DEF Tick, Limiter!Next
<1>3. ASSUME NEW n \in Handlers, AskLimiter(n) \/ Limiting(n) \/ LeaveLimiter(n)
      PROVE  Limiter!Next
  BY <1>3 DEF AskLimiter, Limiting, LeaveLimiter, Limiter!Next
<1>4. ASSUME NEW n \in Handlers,
             \/ Receive(n) \/ ServiceAudit(n) \/ CallService(n) \/ Crash(n)
             \/ BeginRead(n) \/ Read(n) \/ Observe(n)
      PROVE  UNCHANGED limiter
  BY <1>4 DEF Receive, ServiceAudit, CallService, Crash, BeginRead, Read, Observe
<1>5. CASE UNCHANGED vars
  BY <1>1, <1>5 DEF vars
<1> QED BY <1>1, <1>2, <1>3, <1>4, <1>5 DEF Next

(* The boundary implements the rate limiter.                               *)
THEOREM ImplementsLimiter == Spec => Limiter!Spec
<1>1. Init => Limiter!Init
  BY DEF Init
<1> QED BY <1>1, LimiterSteps, PTL DEF Spec, Limiter!Spec

LEMMA SameLimiter ==
  /\ Limiter!Spec <=> LimiterTheorems!Spec
  /\ Limiter!TypeOK <=> LimiterTheorems!TypeOK
  /\ Limiter!BurstIsBounded <=> LimiterTheorems!BurstIsBounded
  /\ Limiter!DenialIsEarned <=> LimiterTheorems!DenialIsEarned
<1>1. Limiter!Init <=> LimiterTheorems!Init
  BY DEF Limiter!Init, LimiterTheorems!Init, Limiter!Idle, LimiterTheorems!Idle
<1>2. [Limiter!Next]_(Limiter!vars) <=> [LimiterTheorems!Next]_(LimiterTheorems!vars)
  BY DEF Limiter!Next, LimiterTheorems!Next, Limiter!vars, LimiterTheorems!vars,
         Limiter!Tick, LimiterTheorems!Tick, Limiter!ReadClock, LimiterTheorems!ReadClock,
         Limiter!OpenWindow, LimiterTheorems!OpenWindow,
         Limiter!CountRequest, LimiterTheorems!CountRequest,
         Limiter!Deny, LimiterTheorems!Deny, Limiter!Return, LimiterTheorems!Return,
         Limiter!Idle, LimiterTheorems!Idle, Limiter!WindowOf, LimiterTheorems!WindowOf,
         Limiter!Ended, LimiterTheorems!Ended, Limiter!IsFull, LimiterTheorems!IsFull,
         Limiter!Admit, LimiterTheorems!Admit
<1>3. Limiter!Spec <=> LimiterTheorems!Spec
  BY <1>1, <1>2, PTL DEF Limiter!Spec, LimiterTheorems!Spec
<1>4. Limiter!TypeOK <=> LimiterTheorems!TypeOK
  BY DEF Limiter!TypeOK, LimiterTheorems!TypeOK
<1>5. Limiter!BurstIsBounded <=> LimiterTheorems!BurstIsBounded
  BY DEF Limiter!BurstIsBounded, LimiterTheorems!BurstIsBounded,
         Limiter!Admissions, LimiterTheorems!Admissions,
         Limiter!Cardinality, LimiterTheorems!Cardinality
<1>6. Limiter!DenialIsEarned <=> LimiterTheorems!DenialIsEarned
  BY DEF Limiter!DenialIsEarned, LimiterTheorems!DenialIsEarned,
         Limiter!Admissions, LimiterTheorems!Admissions,
         Limiter!Cardinality, LimiterTheorems!Cardinality
<1> QED BY <1>3, <1>4, <1>5, <1>6

LEMMA LimiterHolds ==
  Spec => [](/\ Limiter!TypeOK /\ Limiter!BurstIsBounded /\ Limiter!DenialIsEarned
             /\ LimiterTheorems!LimiterInv)
<1>1. LimiterTheorems!Spec =>
        /\ []LimiterTheorems!TypeOK /\ []LimiterTheorems!BurstIsBounded
        /\ []LimiterTheorems!DenialIsEarned
  BY BoundaryAssumption, LimiterTheorems!TypeCorrect, LimiterTheorems!BurstsAreBounded,
     LimiterTheorems!DenialsAreEarned
<1>2. LimiterTheorems!Spec => []LimiterTheorems!LimiterInv
  <2>1. LimiterTheorems!Spec =>
          [](LimiterTheorems!LimiterInv /\ LimiterTheorems!WindowsInv
               /\ LimiterTheorems!Earned)
    BY BoundaryAssumption, LimiterTheorems!WindowsAlways
  <2> QED BY <2>1, PTL
<1>3. Limiter!Spec <=> LimiterTheorems!Spec
  BY SameLimiter
<1>4. Limiter!TypeOK <=> LimiterTheorems!TypeOK
  BY SameLimiter
<1>5. Limiter!BurstIsBounded <=> LimiterTheorems!BurstIsBounded
  BY SameLimiter
<1>6. Limiter!DenialIsEarned <=> LimiterTheorems!DenialIsEarned
  BY SameLimiter
<1> QED BY <1>1, <1>2, <1>3, <1>4, <1>5, <1>6, ImplementsLimiter, PTL

-----------------------------------------------------------------------------
(* The two logs.  An event and an observation copy their request's fields; *)
(* events are written at the endpoint, an observation at the very end.     *)

Event ==
  [event : Nat, request : Handlers, action : Endpoints, outcome : {"service", "allowed", "denied"},
   subject : Subjects, correlation : SentIds \cup Handlers]

Routes == Endpoints \cup {"<unmatched>", "<rejected>"}

Observation ==
  [request : Handlers, route : Routes, status : Statuses,
   correlation : SentIds \cup Handlers \cup {Unavailable}]

Logged == audit \in Seq(Event) /\ telemetry \in Seq(Observation)

EventOf(n, outcome) ==
  [event |-> Len(audit) + 1, request |-> n,
   action |-> requests[n].sent.endpoint, outcome |-> outcome,
   subject |-> requests[n].sent.credential, correlation |-> requests[n].id]

LEMMA EventTyped ==
  ASSUME Staged, audit \in Seq(Event), NEW n \in Handlers, requests[n].pc \in Active,
         NEW outcome \in {"service", "allowed", "denied"}
  PROVE  EventOf(n, outcome) \in Event
<1>1. /\ requests[n].sent.endpoint \in Endpoints
      /\ requests[n].sent.credential \in Subjects
      /\ requests[n].id \in SentIds \cup Handlers
  BY AtWork
<1>2. Len(audit) + 1 \in Nat
  <2> HIDE DEF Event
  <2> QED OBVIOUS
<1> QED BY <1>1, <1>2 DEF EventOf, Event

LEMMA ObservationTyped ==
  ASSUME Staged, NEW n \in Handlers, requests[n].pc = "answered"
  PROVE  ObservationOf(n) \in Observation
<1> DEFINE r == requests[n]
<1>1. r.status \in Statuses /\ r.sent \in Sent /\ r.id = CorrelationOf(r.sent, n)
      /\ r.route = IF r.id = Unavailable THEN "<rejected>" ELSE r.sent.endpoint
  BY DEF Staged, Stage, Typed, Identified
<1> HIDE DEF r
<1>2. r.id \in SentIds \cup Handlers \cup {Unavailable}
  BY <1>1 DEF CorrelationOf
<1>3. r.sent.endpoint \in Endpoints \cup {"<unmatched>"}
  BY <1>1, BoundaryAssumption DEF RequestShape
<1>4. r.route \in Routes
  BY <1>1, <1>3 DEF Routes
<1> QED BY <1>1, <1>2, <1>4 DEF ObservationOf, Observation, r

(* The audit trail grows by one event of a request at its endpoint.         *)
Audits(n, outcome) ==
  /\ requests[n].pc = "endpoint"
  /\ requests'[n].pc \in {"endpoint", "answered", "reading"}
  /\ audit' = Append(audit, EventOf(n, outcome))

LEMMA AuditSteps ==
  ASSUME Shape, Staged, [Next]_vars
  PROVE  UNCHANGED audit
           \/ \E n \in Handlers, outcome \in {"service", "allowed", "denied"} :
                Audits(n, outcome)
<1>1. ASSUME NEW n \in Handlers, ServiceAudit(n)
      PROVE  Audits(n, "service")
  <2>1. requests[n].pc = "endpoint" /\ requests'[n].pc = "endpoint"
    BY <1>1 DEF ServiceAudit, IsServiceCall
  <2>2. Record(n, requests[n].sent.endpoint, "service")
    BY <1>1 DEF ServiceAudit
  <2> QED BY <2>1, <2>2 DEF Record, EventOf, EndpointId, Audits
<1>2. ASSUME NEW n \in Handlers, BeginRead(n)
      PROVE  \E outcome \in {"allowed", "denied"} : Audits(n, outcome)
  <2>1. requests[n].pc = "endpoint" /\ requests'[n].pc \in {"answered", "reading"}
    BY <1>2, BeginTurn DEF Step
  <2>2. \E outcome \in {"allowed", "denied"} :
          Record(n, requests[n].sent.endpoint, outcome)
    BY <1>2 DEF BeginRead, AuditRead
  <2> QED BY <2>1, <2>2 DEF Record, EventOf, EndpointId, Audits
<1>3. ASSUME NEW n \in Handlers,
             \/ Receive(n) \/ AskLimiter(n) \/ Limiting(n) \/ LeaveLimiter(n)
             \/ CallService(n) \/ Crash(n) \/ Read(n) \/ Observe(n)
      PROVE  UNCHANGED audit
  BY <1>3 DEF Receive, AskLimiter, Limiting, LeaveLimiter, CallService, Crash, Read, Observe
<1>4. CASE Tick \/ UNCHANGED vars
  BY <1>4 DEF Tick, vars
<1> QED BY <1>1, <1>2, <1>3, <1>4 DEF Next

Observes(n) ==
  /\ requests[n].pc = "answered"
  /\ Step(n, "done", requests[n].status, requests[n].served, requests[n].view)
  /\ telemetry' = Append(telemetry, ObservationOf(n))
  /\ UNCHANGED audit

(* Telemetry grows by the observation of the one request then done.        *)
LEMMA TelemetrySteps ==
  ASSUME Shape, Staged, [Next]_vars
  PROVE  \/ /\ UNCHANGED telemetry
            /\ \A n \in Handlers : requests'[n].pc = "done" <=> requests[n].pc = "done"
         \/ \E n \in Handlers : Observes(n)
<1> DEFINE Still == /\ UNCHANGED telemetry
                    /\ \A n \in Handlers :
                         requests'[n].pc = "done" <=> requests[n].pc = "done"
<1>1. CASE Tick \/ UNCHANGED vars
  BY <1>1 DEF Tick, vars
<1>2. ASSUME NEW n \in Handlers, Others(n), UNCHANGED telemetry,
             requests[n].pc # "done", requests'[n].pc # "done"
      PROVE  Still
  BY <1>2 DEF Others
<1>3. ASSUME NEW n \in Handlers, Receive(n) PROVE Still
  <2>1. requests[n].pc = "new" /\ requests'[n].pc # "done" /\ Others(n)
    <3>1. requests[n] = NotReceived /\ Others(n) /\ Arrived(n, requests'[n])
      BY <1>3, Arrival
    <3>2. requests'[n].pc # "done"
      BY <3>1 DEF Arrived, Dispatched
    <3> QED BY <3>1, <3>2 DEF NotReceived
  <2> QED BY <1>2, <1>3, <2>1 DEF Receive
<1>4. ASSUME NEW n \in Handlers,
             AskLimiter(n) \/ LeaveLimiter(n) \/ CallService(n) \/ Crash(n)
               \/ BeginRead(n) \/ Read(n)
      PROVE  Still
  <2>1. requests[n].pc # "done" /\ requests'[n].pc # "done" /\ Others(n)
    <3>1. CASE AskLimiter(n)
      BY <3>1, AskTurn DEF Step
    <3>2. CASE LeaveLimiter(n)
      BY <3>2, LeaveTurn DEF Step
    <3>3. CASE CallService(n)
      BY <3>3, EndpointTurn
    <3>4. CASE Crash(n)
      BY <3>4, EndpointTurn
    <3>5. CASE BeginRead(n)
      BY <3>5, BeginTurn DEF Step
    <3>6. CASE Read(n)
      BY <3>6, ReadTurn DEF Step
    <3> QED BY <1>4, <3>1, <3>2, <3>3, <3>4, <3>5, <3>6
  <2>2. UNCHANGED telemetry
    BY <1>4 DEF AskLimiter, LeaveLimiter, CallService, Crash, BeginRead, Read
  <2> QED BY <1>2, <2>1, <2>2
<1>5. ASSUME NEW n \in Handlers, Limiting(n) \/ ServiceAudit(n) PROVE Still
  BY <1>5 DEF Limiting, ServiceAudit
<1>6. ASSUME NEW n \in Handlers, Observe(n) PROVE Observes(n)
  BY <1>6, ObserveTurn DEF Observe, Observes
<1> QED BY <1>1, <1>3, <1>4, <1>5, <1>6 DEF Next

LEMMA LoggedStep ==
  ASSUME Shape, Staged, Logged, [Next]_vars
  PROVE  Logged'
<1>1. audit' \in Seq(Event)
  <2>1. ASSUME NEW n \in Handlers, NEW outcome \in {"service", "allowed", "denied"},
               Audits(n, outcome)
        PROVE  audit' \in Seq(Event)
    <3>1. EventOf(n, outcome) \in Event
      BY <2>1, EventTyped DEF Audits, Active, Logged
    <3> QED BY <2>1, <3>1, AppendProperties DEF Audits, Logged
  <2> QED BY <2>1, AuditSteps DEF Logged
<1>2. telemetry' \in Seq(Observation)
  <2>1. ASSUME NEW n \in Handlers, Observes(n)
        PROVE  telemetry' \in Seq(Observation)
    BY <2>1, ObservationTyped, AppendProperties DEF Observes, Logged
  <2> QED BY <2>1, TelemetrySteps DEF Logged
<1> QED BY <1>1, <1>2 DEF Logged

BoundaryInv == Shape /\ Staged /\ Logged

LEMMA BoundaryStep == BoundaryInv /\ [Next]_vars => BoundaryInv'
  BY StagedStep, LoggedStep DEF BoundaryInv

LEMMA BoundaryInit == Init => BoundaryInv
<1> SUFFICES ASSUME Init PROVE BoundaryInv
  OBVIOUS
<1>1. /\ \A n \in Handlers : requests[n] = NotReceived
      /\ DOMAIN requests = Handlers /\ audit = <<>> /\ telemetry = <<>>
  BY DEF Init
<1>2. DOMAIN NotReceived = Fields
  BY DEF NotReceived, Fields
<1>3. ASSUME NEW n \in Handlers PROVE Stage(n, NotReceived)
  BY StatusTable DEF NotReceived, Stage, Typed, Identified, Progress, Active
<1>4. Logged
  BY <1>1, EmptySeq DEF Logged
<1> QED BY <1>1, <1>2, <1>3, <1>4 DEF BoundaryInv, Shape, Staged

LEMMA BoundaryAlways == Spec => []BoundaryInv
  BY BoundaryInit, BoundaryStep, PTL DEF Spec

(* Every variable of the boundary keeps its type, whatever clients send.   *)
THEOREM TypeCorrect == Spec => []TypeOK
<1>1. BoundaryInv /\ Limiter!TypeOK => TypeOK
  <2> SUFFICES ASSUME BoundaryInv, Limiter!TypeOK PROVE TypeOK
    OBVIOUS
  <2>1. ASSUME NEW n \in Handlers
        PROVE  LET self == requests[n]
               IN /\ self.pc \in {"new", "metered", "limiting", "endpoint", "reading",
                                  "answered", "done", "crashed"}
                  /\ self.sent \in Sent \cup {None}
                  /\ self.id \in SentIds \cup Handlers \cup {None, Unavailable}
                  /\ self.route \in Endpoints \cup {None, "<unmatched>", "<rejected>"}
                  /\ self.status \in {0, 200, 202, 500} \cup {400, 422}
                                       \cup {StatusOf[e] : e \in DOMAIN StatusOf}
                  /\ self.served \in BOOLEAN /\ self.before \subseteq Handlers
    <3> DEFINE r == requests[n]
    <3>1. Typed(r) /\ Identified(n, r)
      BY DEF BoundaryInv, Staged, Stage
    <3> HIDE DEF r
    <3>2. CASE r.pc = "new"
      BY <3>1, <3>2 DEF Typed, Identified, NotReceived, Statuses, r
    <3>3. CASE r.pc # "new"
      <4>1. r.sent.endpoint \in Endpoints \cup {"<unmatched>"}
        BY <3>1, <3>3, BoundaryAssumption DEF Identified, RequestShape
      <4>2. r.id \in SentIds \cup Handlers \cup {Unavailable}
        BY <3>1, <3>3 DEF Identified, CorrelationOf
      <4> QED BY <3>1, <3>3, <4>1, <4>2 DEF Typed, Identified, Statuses, r
    <3> QED BY <3>2, <3>3
  <2>2. ASSUME NEW i \in DOMAIN audit
        PROVE  audit[i].request \in Handlers /\ audit[i].subject \in Subjects
    <3>1. audit[i] \in Event
      BY ElementOfSeq DEF BoundaryInv, Logged
    <3> QED BY <3>1 DEF Event
  <2>3. ASSUME NEW i \in DOMAIN telemetry
        PROVE  telemetry[i].request \in Handlers
    <3>1. telemetry[i] \in Observation
      BY ElementOfSeq DEF BoundaryInv, Logged
    <3> QED BY <3>1 DEF Observation
  <2> QED BY <2>1, <2>2, <2>3 DEF TypeOK
<1> QED BY <1>1, BoundaryAlways, LimiterHolds, PTL

-----------------------------------------------------------------------------
(* What never changes: a request keeps what it was sent, its id and route  *)
(* from its arrival on, its answer once it has one, and everything once it *)
(* is done.                                                                *)

Settles(r, q) ==
  /\ r.pc # "new" => Keeps(r, q) /\ q.pc # "new"
  /\ r.pc = "answered" =>
       /\ q.pc \in {"answered", "done"}
       /\ q.status = r.status /\ q.served = r.served /\ q.view = r.view
  /\ r.pc = "reading" => q.pc \in {"reading", "answered"}
  /\ r.pc \in {"done", "crashed"} => q = r

LEMMA Settling ==
  ASSUME Shape, Staged, [Next]_vars, NEW n \in Handlers
  PROVE  Settles(requests[n], requests'[n])
<1>1. CASE requests'[n] = requests[n]
  BY <1>1 DEF Settles, Keeps
<1>2. ASSUME NEW m \in Handlers, Others(m), n # m
      PROVE  requests'[n] = requests[n]
  BY <1>2 DEF Others
<1>3. ASSUME NEW m \in Handlers, Receive(m) PROVE Settles(requests[n], requests'[n])
  <2>1. requests[m].pc = "new" /\ Others(m)
    BY <1>3, Arrival DEF NotReceived
  <2> QED BY <1>1, <1>2, <2>1 DEF Settles
<1>4. ASSUME NEW m \in Handlers, NEW pc, NEW status, NEW served, NEW view,
             requests[m].pc \in Active, pc # "new",
             requests[m].pc = "reading" => pc = "answered",
             Step(m, pc, status, served, view)
      PROVE  Settles(requests[n], requests'[n])
  BY <1>1, <1>2, <1>4 DEF Step, Settles, Active
<1>5. ASSUME NEW m \in Handlers, AskLimiter(m) PROVE Settles(requests[n], requests'[n])
  BY <1>4, <1>5, AskTurn DEF Active
<1>6. ASSUME NEW m \in Handlers, LeaveLimiter(m) PROVE Settles(requests[n], requests'[n])
  <2>1. /\ requests[m].pc = "limiting"
        /\ \E pc \in {"answered", "endpoint"} :
             \E status \in {429, 422, requests[m].status} :
               Step(m, pc, status, requests[m].served, requests[m].view)
    BY <1>6, LeaveTurn
  <2> QED BY <1>4, <2>1 DEF Active
<1>7. ASSUME NEW m \in Handlers, CallService(m) PROVE Settles(requests[n], requests'[n])
  <2>1. /\ requests[m].pc = "endpoint"
        /\ \E status \in Statuses, served \in BOOLEAN :
             Step(m, "answered", status, served, requests[m].view)
    BY <1>7, ServiceTurn, ZenonT(40)
  <2> QED BY <1>4, <2>1 DEF Active
<1>8. ASSUME NEW m \in Handlers, Crash(m) PROVE Settles(requests[n], requests'[n])
  <2>1. /\ requests[m].pc = "endpoint"
        /\ \E served \in BOOLEAN : Step(m, "crashed", 500, served, requests[m].view)
    BY <1>8, CrashTurn, ZenonT(40)
  <2> QED BY <1>4, <2>1 DEF Active
<1>9. ASSUME NEW m \in Handlers, BeginRead(m) PROVE Settles(requests[n], requests'[n])
  <2>1. /\ requests[m].pc = "endpoint"
        /\ \E pc \in {"answered", "reading"} : \E status \in {403, requests[m].status} :
             Step(m, pc, status, requests[m].served, requests[m].view)
    BY <1>9, BeginTurn
  <2> QED BY <1>4, <2>1 DEF Active
<1>10. ASSUME NEW m \in Handlers, Read(m) PROVE Settles(requests[n], requests'[n])
  <2> DEFINE seen == IF requests[m].sent.endpoint = "metrics" THEN Snapshot ELSE AuditEvents
  <2>1. requests[m].pc = "reading" /\ Step(m, "answered", 200, requests[m].served, seen)
    BY <1>10, ReadTurn
  <2> HIDE DEF seen
  <2> QED BY <1>4, <2>1 DEF Active
<1>11. ASSUME NEW m \in Handlers, Observe(m) PROVE Settles(requests[n], requests'[n])
  <2>1. /\ requests[m].pc = "answered"
        /\ Step(m, "done", requests[m].status, requests[m].served, requests[m].view)
    BY <1>11, ObserveTurn
  <2> QED BY <1>1, <1>2, <2>1 DEF Step, Settles
<1>12. CASE UNCHANGED requests
  BY <1>1, <1>12
<1>13. ASSUME NEW m \in Handlers, Limiting(m) \/ ServiceAudit(m) PROVE UNCHANGED requests
  BY <1>13 DEF Limiting, ServiceAudit
<1>14. CASE Tick \/ UNCHANGED vars
  BY <1>12, <1>14 DEF Tick, vars
<1> QED BY <1>3, <1>5, <1>6, <1>7, <1>8, <1>9, <1>10, <1>11, <1>12, <1>13, <1>14 DEF Next

-----------------------------------------------------------------------------
(* Every response is observed once.                                        *)

LEMMA ObservedStep ==
  ASSUME BoundaryInv, ResponseIsObserved, [Next]_vars
  PROVE  ResponseIsObserved'
<1> USE DEF BoundaryInv
<1> SUFFICES ASSUME NEW n \in Handlers
             PROVE  IF requests'[n].pc = "done"
                      THEN \E i \in DOMAIN telemetry' :
                             /\ Observations(n)' = {i}
                             /\ telemetry'[i].status = requests'[n].status
                             /\ telemetry'[i].route  = requests'[n].route
                      ELSE Observations(n)' = {}
  BY DEF ResponseIsObserved
<1>1. telemetry \in Seq(Observation)
  BY DEF Logged
<1>2. requests[n].pc = "done" => requests'[n] = requests[n]
  BY Settling DEF Settles
<1>3. CASE UNCHANGED telemetry /\ (requests'[n].pc = "done" <=> requests[n].pc = "done")
  BY <1>2, <1>3 DEF ResponseIsObserved, Observations
<1>4. ASSUME NEW m \in Handlers, Observes(m)
      PROVE  IF requests'[n].pc = "done"
               THEN \E i \in DOMAIN telemetry' :
                      /\ Observations(n)' = {i}
                      /\ telemetry'[i].status = requests'[n].status
                      /\ telemetry'[i].route  = requests'[n].route
               ELSE Observations(n)' = {}
  <2> DEFINE o == ObservationOf(m)
             k == Len(telemetry) + 1
  <2>1. /\ requests[m].pc = "answered" /\ requests'[m].pc = "done" /\ Others(m)
        /\ requests'[m].status = requests[m].status /\ requests'[m].route = requests[m].route
        /\ telemetry' = Append(telemetry, o)
    BY <1>4 DEF Observes, Step, Keeps
  <2>2. o.request = m /\ o.status = requests[m].status /\ o.route = requests[m].route
    BY DEF ObservationOf
  <2>3. /\ DOMAIN telemetry' = DOMAIN telemetry \cup {k} /\ k \notin DOMAIN telemetry
        /\ telemetry'[k] = o
        /\ \A i \in DOMAIN telemetry : telemetry'[i] = telemetry[i]
    <3> HIDE DEF o
    <3> QED BY <1>1, <2>1
  <2> HIDE DEF o, k
  <2>4. Observations(n)' = IF n = m THEN Observations(n) \cup {k} ELSE Observations(n)
    BY <2>2, <2>3 DEF Observations
  <2>5. CASE n = m
    BY <2>1, <2>2, <2>3, <2>4, <2>5 DEF ResponseIsObserved
  <2>6. CASE n # m
    <3>1. requests'[n] = requests[n]
      BY <2>1, <2>6 DEF Others
    <3> QED BY <2>3, <2>4, <2>6, <3>1 DEF ResponseIsObserved
  <2> QED BY <2>5, <2>6
<1> QED BY <1>3, <1>4, TelemetrySteps

(* AC6-001, the middleware of main.py: every response it sends, whichever  *)
(* dependency, handler or endpoint made it, was observed once, with its    *)
(* route and status, and nothing else is observed.                         *)
THEOREM ResponsesAreObserved == Spec => []ResponseIsObserved
<1>1. Init => ResponseIsObserved
  <2> SUFFICES ASSUME Init PROVE ResponseIsObserved
    OBVIOUS
  <2>1. telemetry = <<>> /\ DOMAIN telemetry = {}
    BY DEF Init
  <2>2. \A n \in Handlers : requests[n].pc = "new"
    BY DEF Init, NotReceived
  <2> QED BY <2>1, <2>2 DEF ResponseIsObserved, Observations
<1> QED BY <1>1, BoundaryAlways, ObservedStep, PTL DEF Spec

-----------------------------------------------------------------------------
(* Every event is its request's, written under the request's own id and    *)
(* its place on the trail; every observation is of a request now done.     *)

Mirrors(o, r) == o.route = r.route /\ o.status = r.status /\ o.correlation = r.id

Sourced ==
  /\ \A i \in DOMAIN audit :
       LET r == requests[audit[i].request]
       IN /\ r.pc # "new"
          /\ audit[i].subject = r.sent.credential
          /\ audit[i].correlation = r.id /\ r.id # Unavailable
  /\ \A i \in DOMAIN audit : audit[i].event = i
  /\ \A i \in DOMAIN telemetry :
       LET r == requests[telemetry[i].request]
       IN r.pc = "done" /\ Mirrors(telemetry[i], r)

LEMMA SourcedStep ==
  ASSUME BoundaryInv, Sourced, [Next]_vars
  PROVE  Sourced'
<1>1. /\ Shape /\ Staged /\ audit \in Seq(Event) /\ telemetry \in Seq(Observation)
  BY DEF BoundaryInv, Logged
<1>2. /\ \A i \in DOMAIN audit : audit[i].request \in Handlers
      /\ \A i \in DOMAIN telemetry : telemetry[i].request \in Handlers
  <2>1. \A i \in DOMAIN audit : audit[i] \in Event
    BY <1>1, ElementOfSeq
  <2>2. \A i \in DOMAIN telemetry : telemetry[i] \in Observation
    BY <1>1, ElementOfSeq
  <2> QED BY <2>1, <2>2 DEF Event, Observation
<1>3. ASSUME NEW i \in DOMAIN audit
      PROVE  LET r == requests'[audit[i].request]
             IN /\ r.pc # "new"
                /\ audit[i].subject = r.sent.credential
                /\ audit[i].correlation = r.id /\ r.id # Unavailable
  <2>1. Settles(requests[audit[i].request], requests'[audit[i].request])
    BY <1>1, <1>2, Settling
  <2> QED BY <2>1 DEF Settles, Keeps, Sourced
<1>4. /\ \A i \in DOMAIN audit' :
           LET r == requests'[audit'[i].request]
           IN /\ r.pc # "new"
              /\ audit'[i].subject = r.sent.credential
              /\ audit'[i].correlation = r.id /\ r.id # Unavailable
      /\ \A i \in DOMAIN audit' : audit'[i].event = i
  <2>1. CASE UNCHANGED audit
    BY <1>3, <2>1 DEF Sourced
  <2>2. ASSUME NEW n \in Handlers, NEW outcome \in {"service", "allowed", "denied"},
               Audits(n, outcome)
        PROVE  <1>4!2 /\ <1>4!1
    <3> DEFINE e == EventOf(n, outcome)
               k == Len(audit) + 1
    <3>1. /\ e.event = k /\ e.request = n /\ e.subject = requests[n].sent.credential
          /\ e.correlation = requests[n].id
      BY DEF EventOf
    <3>2. /\ requests[n].pc = "endpoint" /\ requests[n].id # Unavailable
          /\ requests'[n].pc # "new"
      BY <1>1, <2>2, AtWork DEF Audits, Active
    <3>3. requests'[n].sent = requests[n].sent /\ requests'[n].id = requests[n].id
      BY <1>1, <3>2, Settling DEF Settles, Keeps
    <3>4. /\ DOMAIN audit' = DOMAIN audit \cup {k} /\ k \notin DOMAIN audit
          /\ audit'[k] = e /\ \A i \in DOMAIN audit : audit'[i] = audit[i]
      <4>1. audit' = Append(audit, e)
        BY <2>2 DEF Audits
      <4> HIDE DEF e
      <4> QED BY <1>1, <4>1
    <3> HIDE DEF e, k
    <3>5. <1>4!2
      BY <3>1, <3>4 DEF Sourced
    <3>6. <1>4!1
      BY <1>3, <3>1, <3>2, <3>3, <3>4
    <3> QED BY <3>5, <3>6
  <2> QED BY <1>1, <2>1, <2>2, AuditSteps
<1>5. \A i \in DOMAIN telemetry' :
        LET r == requests'[telemetry'[i].request]
        IN r.pc = "done" /\ Mirrors(telemetry'[i], r)
  <2>1. ASSUME NEW i \in DOMAIN telemetry
        PROVE  LET r == requests'[telemetry[i].request]
               IN r.pc = "done" /\ Mirrors(telemetry[i], r)
    <3>1. requests'[telemetry[i].request] = requests[telemetry[i].request]
      BY <1>1, <1>2, Settling DEF Settles, Sourced
    <3> QED BY <3>1 DEF Sourced
  <2>2. CASE UNCHANGED telemetry
    BY <2>1, <2>2
  <2>3. ASSUME NEW n \in Handlers, Observes(n)
        PROVE  <1>5
    <3> DEFINE o == ObservationOf(n)
    <3>1. o.request = n /\ requests'[n].pc = "done" /\ Mirrors(o, requests'[n])
      BY <2>3 DEF Observes, Step, Keeps, ObservationOf, Mirrors
    <3>2. telemetry' = Append(telemetry, o)
      BY <2>3 DEF Observes
    <3> HIDE DEF o
    <3>3. \A i \in DOMAIN telemetry' :
            IF i = Len(telemetry) + 1 THEN telemetry'[i] = o
              ELSE i \in DOMAIN telemetry /\ telemetry'[i] = telemetry[i]
      BY <1>1, <3>2
    <3> QED BY <2>1, <3>1, <3>3
  <2> QED BY <1>1, <2>2, <2>3, TelemetrySteps
<1> QED BY <1>4, <1>5 DEF Sourced

LEMMA SourcedAlways == Spec => [](BoundaryInv /\ Sourced /\ ResponseIsObserved)
<1>1. Init => Sourced
  <2> SUFFICES ASSUME Init PROVE Sourced
    OBVIOUS
  <2>1. DOMAIN audit = {} /\ DOMAIN telemetry = {}
    BY DEF Init
  <2> QED BY <2>1 DEF Sourced
<1> QED BY <1>1, BoundaryAlways, SourcedStep, ResponsesAreObserved, PTL DEF Spec

LEMMA IdsTellApart ==
  ASSUME NEW one \in Sent, NEW h \in Handlers, NEW other \in Sent, NEW k \in Handlers
  PROVE  /\ one.correlation \in SentIds => CorrelationOf(one, h) = one.correlation
         /\ h # k /\ CorrelationOf(one, h) = CorrelationOf(other, k) =>
              one.correlation = other.correlation /\ one.correlation # None
<1> DEFINE p == one.correlation
           q == other.correlation
           a == CorrelationOf(one, h)
           b == CorrelationOf(other, k)
<1>1. p \in SentIds \cup {None, "bad"} /\ q \in SentIds \cup {None, "bad"}
  BY BoundaryAssumption DEF RequestShape
<1>2. /\ None \notin SentIds /\ Unavailable \notin SentIds \cup Handlers
      /\ SentIds \cap Handlers = {} /\ "bad" \notin SentIds /\ "bad" # None
  BY BoundaryAssumption
<1>3. /\ p \in SentIds => a = p
      /\ p = None => a = h
      /\ p = "bad" => a = Unavailable
  BY <1>2 DEF CorrelationOf
<1>4. /\ q \in SentIds => b = q
      /\ q = None => b = k
      /\ q = "bad" => b = Unavailable
  BY <1>2 DEF CorrelationOf
<1> HIDE DEF p, q, a, b
<1>5. h # k /\ a = b => p = q /\ p # None
  BY <1>1, <1>2, <1>3, <1>4
<1> QED BY <1>3, <1>5 DEF p, q, a, b

(* The ids of one request agree: its audit events, its observation and the *)
(* client's own when it is well formed.  Two requests share an id only     *)
(* when their clients sent the same one or both sent a malformed one, and  *)
(* a malformed one never reaches the audit trail.                          *)
THEOREM CorrelationsAreShared == Spec => []CorrelationIsShared
<1>1. BoundaryInv /\ Sourced /\ ResponseIsObserved => CorrelationIsShared
  <2> SUFFICES ASSUME BoundaryInv, Sourced, ResponseIsObserved
               PROVE  CorrelationIsShared
    OBVIOUS
  <2>1. ASSUME NEW i \in DOMAIN telemetry
        PROVE  LET n == telemetry[i].request
               IN /\ n \in Handlers /\ requests[n].sent \in Sent
                  /\ telemetry[i].correlation = requests[n].id
                  /\ requests[n].id = CorrelationOf(requests[n].sent, n)
    <3>1. telemetry[i] \in Observation
      BY ElementOfSeq DEF BoundaryInv, Logged
    <3> DEFINE n == telemetry[i].request
    <3>2. n \in Handlers
      BY <3>1 DEF Observation
    <3> HIDE DEF n
    <3>3. requests[n].pc = "done" /\ Mirrors(telemetry[i], requests[n])
      BY DEF Sourced, n
    <3>4. /\ requests[n].sent \in Sent
          /\ requests[n].id = CorrelationOf(requests[n].sent, n)
      BY <3>2, <3>3 DEF BoundaryInv, Staged, Stage, Identified
    <3>5. telemetry[i].correlation = requests[n].id
      BY <3>3 DEF Mirrors
    <3> QED BY <3>2, <3>4, <3>5 DEF n
  <2>2. ASSUME NEW i \in DOMAIN telemetry, NEW j \in DOMAIN telemetry, i # j
        PROVE  telemetry[i].request # telemetry[j].request
    <3>1. telemetry[i].request \in Handlers
      BY <2>1
    <3>2. requests[telemetry[i].request].pc = "done"
      BY DEF Sourced
    <3> QED BY <2>2, <3>1, <3>2 DEF ResponseIsObserved, Observations
  <2>3. ASSUME NEW i \in DOMAIN telemetry, NEW j \in DOMAIN telemetry
        PROVE  LET m == requests[telemetry[i].request].sent
                   n == requests[telemetry[j].request].sent
               IN /\ m.correlation \in SentIds =>
                       telemetry[i].correlation = m.correlation
                  /\ i # j /\ telemetry[i].correlation = telemetry[j].correlation =>
                       m.correlation = n.correlation /\ m.correlation # None
    <3>1. PICK h \in Handlers : h = telemetry[i].request
      BY <2>1
    <3>2. PICK k \in Handlers : k = telemetry[j].request
      BY <2>1
    <3>3. PICK one \in Sent : one = requests[h].sent
      BY <2>1, <3>1
    <3>4. PICK other \in Sent : other = requests[k].sent
      BY <2>1, <3>2
    <3>5. /\ telemetry[i].correlation = CorrelationOf(one, h)
          /\ telemetry[j].correlation = CorrelationOf(other, k)
      BY <2>1, <3>1, <3>2, <3>3, <3>4
    <3>6. i # j => h # k
      BY <2>2, <3>1, <3>2
    <3>7. /\ one.correlation \in SentIds => CorrelationOf(one, h) = one.correlation
          /\ h # k /\ CorrelationOf(one, h) = CorrelationOf(other, k) =>
               one.correlation = other.correlation /\ one.correlation # None
      BY IdsTellApart
    <3> QED BY <3>1, <3>2, <3>3, <3>4, <3>5, <3>6, <3>7
  <2>4. ASSUME NEW i \in DOMAIN audit, NEW j \in DOMAIN telemetry,
               audit[i].request = telemetry[j].request
        PROVE  audit[i].correlation = telemetry[j].correlation
    BY <2>1, <2>4 DEF Sourced
  <2>5. \A i \in DOMAIN audit : audit[i].correlation # Unavailable
    BY DEF Sourced
  <2> QED BY <2>3, <2>4, <2>5 DEF CorrelationIsShared
<1> QED BY <1>1, SourcedAlways, PTL

-----------------------------------------------------------------------------
(* Reads of operational data.  A reader's own event is on the trail from   *)
(* the moment it may read.                                                 *)

Entered(n, outcome) ==
  \E i \in DOMAIN audit :
    /\ audit[i].request = n /\ audit[i].outcome = outcome
    /\ audit[i].subject = requests[n].sent.credential
    /\ audit[i].correlation = requests[n].id

MayRead(r) == Roles[r.sent.credential] \cap Readers(r.sent.endpoint) # {}

ReaderInv(n) ==
  LET r == requests[n]
  IN /\ r.pc = "reading" \/ r.view # None => Entered(n, "allowed") /\ MayRead(r)
     /\ r.pc \in {"answered", "done"} /\ r.route \in Reads /\ r.status = 403 =>
          Entered(n, "denied")

ReadersInv == \A n \in Handlers : ReaderInv(n)

LEMMA EnteredStays ==
  ASSUME BoundaryInv, [Next]_vars, NEW n \in Handlers, requests[n].pc # "new",
         NEW outcome, Entered(n, outcome)
  PROVE  Entered(n, outcome)'
<1>1. audit \in Seq(Event) /\ Shape /\ Staged
  BY DEF BoundaryInv, Logged
<1>2. \A i \in DOMAIN audit : i \in DOMAIN audit' /\ audit'[i] = audit[i]
  <2>1. ASSUME NEW e, audit' = Append(audit, e)
        PROVE  \A i \in DOMAIN audit : i \in DOMAIN audit' /\ audit'[i] = audit[i]
    BY <1>1, <2>1
  <2> QED BY <1>1, <2>1, AuditSteps DEF Audits
<1>3. requests'[n].sent = requests[n].sent /\ requests'[n].id = requests[n].id
  BY <1>1, Settling DEF Settles, Keeps
<1> QED BY <1>2, <1>3 DEF Entered

(* An event written in a request's own turn is its own.                    *)
LEMMA EnteredNow ==
  ASSUME BoundaryInv, NEW n \in Handlers, requests[n].pc # "new",
         NEW outcome, Record(n, requests[n].sent.endpoint, outcome),
         Keeps(requests[n], requests'[n])
  PROVE  Entered(n, outcome)'
<1>1. audit \in Seq(Event)
  BY DEF BoundaryInv, Logged
<1> DEFINE e == EventOf(n, outcome)
<1>2. /\ audit' = Append(audit, e) /\ e.request = n /\ e.outcome = outcome
      /\ e.subject = requests[n].sent.credential /\ e.correlation = requests[n].id
  BY DEF Record, EventOf, EndpointId
<1> HIDE DEF e
<1>3. Len(audit) + 1 \in DOMAIN audit' /\ audit'[Len(audit) + 1] = e
  BY <1>1, <1>2
<1> QED BY <1>2, <1>3 DEF Entered, Keeps

LEMMA ReadersStep ==
  ASSUME BoundaryInv, ReadersInv, [Next]_vars
  PROVE  ReadersInv'
<1> SUFFICES ASSUME NEW n \in Handlers PROVE ReaderInv(n)'
  BY DEF ReadersInv
<1> DEFINE r == requests[n]
           q == requests'[n]
<1>1. /\ Shape /\ Staged /\ ReaderInv(n) /\ Stage(n, r)
  BY DEF BoundaryInv, Staged, ReadersInv
<1>2. BoundaryInv' /\ Stage(n, q)
  BY BoundaryStep DEF BoundaryInv, Staged
<1>3. CASE q = r
  <2>1. CASE r.pc = "new"
    BY <1>1, <1>3, <2>1 DEF Stage, Identified, NotReceived, ReaderInv
  <2>2. CASE r.pc # "new"
    BY <1>1, <1>3, <2>2, EnteredStays DEF ReaderInv, MayRead
  <2> QED BY <2>1, <2>2
<1>4. ASSUME NEW m \in Handlers, Others(m), m # n PROVE q = r
  BY <1>4 DEF Others
(* An answer that is no refusal of a read and shows nothing new.           *)
<1>5. ASSUME q.pc # "reading", q.view = None,
             q.pc \in {"answered", "done"} /\ q.route \in Reads => q.status # 403
      PROVE  ReaderInv(n)'
  BY <1>5 DEF ReaderInv
<1>6. CASE Receive(n)
  <2>1. Arrived(n, q)
    BY <1>1, <1>6, Arrival
  <2>2. Refusal(q.sent) \in {None, 400, 401, 404, 422}
    BY StatusTable DEF Refusal
  <2>3. 403 # None
    BY BoundaryAssumption
  <2> HIDE DEF q
  <2>4. q.pc # "reading" /\ q.view = None /\ q.status # 403
    BY <2>1, <2>2, <2>3 DEF Arrived, Dispatched
  <2> QED BY <1>5, <2>4 DEF q
<1>7. CASE AskLimiter(n)
  <2>1. r.pc = "metered" /\ Step(n, "limiting", r.status, r.served, r.view)
    BY <1>1, <1>7, AskTurn
  <2>2. r.view = None
    BY <1>1, <2>1, AtWork DEF Active
  <2> QED BY <1>5, <2>1, <2>2 DEF Step
<1>8. CASE LeaveLimiter(n)
  <2>1. r.pc = "limiting" /\ q.pc \in {"answered", "endpoint"} /\ Keeps(r, q) /\ q.view = r.view
    BY <1>1, <1>8, LeaveTurn DEF Step
  <2>2. r.view = None /\ r.route = r.sent.endpoint /\ r.sent.endpoint \in Mutations
    BY <1>1, <2>1, AtWork DEF Active
  <2>3. q.route \notin Reads
    BY <2>1, <2>2 DEF Keeps, Mutations, Reads
  <2> QED BY <1>5, <2>1, <2>2, <2>3
<1>9. CASE CallService(n) \/ Crash(n)
  <2>1. /\ r.pc = "endpoint" /\ r.sent.endpoint \in Served /\ Keeps(r, q)
        /\ q.pc # "reading" /\ q.view = r.view
    BY <1>1, <1>9, EndpointTurn
  <2>2. r.view = None /\ r.route = r.sent.endpoint
    BY <1>1, <2>1, AtWork DEF Active
  <2>3. q.route \notin Reads
    BY <2>1, <2>2 DEF Keeps, Mutations, Served, Reads
  <2> QED BY <1>5, <2>1, <2>2, <2>3
<1>10. CASE BeginRead(n)
  <2>1. /\ r.pc = "endpoint" /\ AuditRead(n, MayRead(r)) /\ Keeps(r, q)
        /\ \/ MayRead(r) /\ q.pc = "reading" /\ q.status = r.status /\ q.view = r.view
           \/ ~MayRead(r) /\ q.pc = "answered" /\ q.view = r.view
    BY <1>1, <1>10, BeginTurn DEF Step, MayRead
  <2>2. r.view = None
    BY <1>1, <2>1, AtWork DEF Active
  <2>3. CASE MayRead(r)
    <3>1. Record(n, r.sent.endpoint, "allowed")
      BY <2>1, <2>3 DEF AuditRead
    <3>2. Entered(n, "allowed")'
      BY <2>1, <3>1, EnteredNow
    <3>3. MayRead(q)
      BY <2>1, <2>3 DEF Keeps, MayRead
    <3> QED BY <2>1, <2>3, <3>2, <3>3 DEF ReaderInv
  <2>4. CASE ~MayRead(r)
    <3>1. Record(n, r.sent.endpoint, "denied")
      BY <2>1, <2>4 DEF AuditRead
    <3>2. Entered(n, "denied")'
      BY <2>1, <3>1, EnteredNow
    <3> QED BY <2>1, <2>2, <2>4, <3>2 DEF ReaderInv
  <2> QED BY <2>3, <2>4
<1>11. CASE Read(n)
  <2>1. r.pc = "reading" /\ q.pc = "answered" /\ q.status = 200 /\ Keeps(r, q)
    BY <1>1, <1>11, ReadTurn DEF Step
  <2>2. Entered(n, "allowed")' /\ MayRead(r)
    BY <1>1, <2>1, EnteredStays DEF ReaderInv
  <2>3. MayRead(q)
    BY <2>1, <2>2 DEF Keeps, MayRead
  <2> QED BY <2>1, <2>2, <2>3 DEF ReaderInv
<1>12. CASE Observe(n)
  <2>1. /\ r.pc = "answered" /\ q.pc = "done" /\ Keeps(r, q)
        /\ q.status = r.status /\ q.view = r.view
    BY <1>1, <1>12, ObserveTurn DEF Step
  <2>2. ASSUME NEW outcome, Entered(n, outcome) PROVE Entered(n, outcome)'
    BY <2>1, <2>2, EnteredStays
  <2>3. MayRead(r) => MayRead(q)
    BY <2>1 DEF Keeps, MayRead
  <2> QED BY <1>1, <2>1, <2>2, <2>3 DEF ReaderInv, Keeps
<1>13. ASSUME NEW m \in Handlers, m # n,
              \/ Receive(m) \/ AskLimiter(m) \/ LeaveLimiter(m) \/ CallService(m)
              \/ Crash(m) \/ BeginRead(m) \/ Read(m) \/ Observe(m)
       PROVE  q = r
  <2>1. Others(m)
    <3>1. CASE Receive(m)
      BY <1>1, <3>1, Arrival
    <3>2. CASE AskLimiter(m)
      BY <1>1, <3>2, AskTurn DEF Step
    <3>3. CASE LeaveLimiter(m)
      BY <1>1, <3>3, LeaveTurn DEF Step
    <3>4. CASE CallService(m)
      BY <1>1, <3>4, EndpointTurn
    <3>5. CASE Crash(m)
      BY <1>1, <3>5, EndpointTurn
    <3>6. CASE BeginRead(m)
      BY <1>1, <3>6, BeginTurn DEF Step
    <3>7. CASE Read(m)
      BY <1>1, <3>7, ReadTurn DEF Step
    <3>8. CASE Observe(m)
      BY <1>1, <3>8, ObserveTurn DEF Step
    <3> QED BY <1>13, <3>1, <3>2, <3>3, <3>4, <3>5, <3>6, <3>7, <3>8
  <2> QED BY <1>4, <1>13, <2>1
<1>14. ASSUME NEW m \in Handlers, Limiting(m) \/ ServiceAudit(m) PROVE q = r
  BY <1>14 DEF Limiting, ServiceAudit
<1>15. CASE Tick \/ UNCHANGED vars
  <2>1. q = r
    BY <1>15 DEF Tick, vars
  <2> QED BY <1>3, <2>1
<1> QED
  <2>1. CASE \E m \in Handlers :
               \/ Receive(m) \/ AskLimiter(m) \/ Limiting(m) \/ LeaveLimiter(m)
               \/ ServiceAudit(m) \/ CallService(m) \/ Crash(m) \/ BeginRead(m)
               \/ Read(m) \/ Observe(m)
    BY <1>3, <1>6, <1>7, <1>8, <1>9, <1>10, <1>11, <1>12, <1>13, <1>14, <2>1
  <2> QED BY <1>15, <2>1 DEF Next

(* Nobody holds operational data whose role does not allow it and whose    *)
(* access is not already on the audit trail under the request's own id;    *)
(* the trail also names those who were refused.                            *)
THEOREM ViewsAreAudited == Spec => []ViewIsAudited
<1>1. Init => ReadersInv
  BY BoundaryAssumption DEF Init, NotReceived, ReadersInv, ReaderInv
<1>2. BoundaryInv /\ ReadersInv => ViewIsAudited
  <2> SUFFICES ASSUME BoundaryInv, ReadersInv, NEW n \in Handlers
               PROVE  LET self == requests[n]
                          privileged == IF self.sent.endpoint = "audit"
                                          THEN {"administrator"}
                                          ELSE {"operator", "administrator"}
                      IN /\ self.view # None =>
                              /\ Entered(n, "allowed")
                              /\ Roles[self.sent.credential] \cap privileged # {}
                         /\ self.pc = "done" /\ self.route \in {"metrics", "audit"}
                               /\ self.status = 403 => Entered(n, "denied")
    BY DEF ViewIsAudited, Entered
  <2>1. requests[n].view # None => requests[n].sent.endpoint \in Reads
    BY DEF BoundaryInv, Staged, Stage, Progress
  <2>2. ReaderInv(n)
    BY DEF ReadersInv
  <2> QED BY <2>1, <2>2 DEF ReaderInv, MayRead, Readers, Reads
<1> QED BY <1>1, <1>2, BoundaryAlways, ReadersStep, PTL DEF Spec

-----------------------------------------------------------------------------
(* Shares of the limiter.  A request is in the limiter exactly while it is *)
(* limiting, under its own principal; it has a share once it is admitted   *)
(* there, and so has every answered mutation that was refused neither      *)
(* before the limiter nor by it.                                           *)

Metering(r, c) ==
  /\ r.pc = "limiting" <=> c.pc # "idle"
  /\ r.pc = "limiting" => c.subject = r.sent.credential
  /\ r.served => r.status # 429

HasShare(r, c) ==
  /\ r.pc \notin {"new", "metered"} /\ r.sent.endpoint \in Mutations
  /\ Refusal(r.sent) = None /\ r.id # Unavailable
  /\ r.pc = "limiting" => c.pc = "allowed"
  /\ r.status # 429

Spent(s) ==
  {n \in Handlers : /\ HasShare(requests[n], calls[n])
                    /\ requests[n].sent.credential = s}

MeteredInv == \A n \in Handlers : Metering(requests[n], calls[n])

SharesInv ==
  MeteredInv /\ \A s \in Subjects : Len(admitted[s]) = Cardinality(Spent(s))

OtherCalls(n) == \A m \in Handlers \ {n} : calls'[m] = calls[m]

Admitted(n) ==
  \E e : admitted' = [admitted EXCEPT ![calls[n].subject] = Append(@, e)]

(* What each turn does to the limiter's calls.                             *)
LEMMA CallTurns ==
  ASSUME Limiter!TypeOK, NEW n \in Handlers
  PROVE  /\ AskLimiter(n) =>
              /\ OtherCalls(n) /\ calls'[n].pc = "waiting" /\ UNCHANGED admitted
              /\ calls'[n].subject = requests[n].sent.credential
         /\ LeaveLimiter(n) =>
              OtherCalls(n) /\ calls'[n].pc = "idle" /\ UNCHANGED admitted
         /\ Limiter!Deny(n) =>
              /\ OtherCalls(n) /\ calls[n].pc = "waiting" /\ calls'[n].pc = "denied"
              /\ calls'[n].subject = calls[n].subject /\ UNCHANGED admitted
         /\ Limiter!OpenWindow(n) \/ Limiter!CountRequest(n) =>
              /\ OtherCalls(n) /\ calls[n].pc = "waiting" /\ calls'[n].pc = "allowed"
              /\ calls'[n].subject = calls[n].subject /\ Admitted(n)
<1>1. /\ DOMAIN calls = Handlers
      /\ calls[n] \in [pc : {"idle", "waiting", "allowed", "denied"},
                       subject : Subjects \cup {None}, now : 0..clock]
  BY DEF Limiter!TypeOK
<1>2. AskLimiter(n) =>
        /\ OtherCalls(n) /\ calls'[n].pc = "waiting" /\ UNCHANGED admitted
        /\ calls'[n].subject = requests[n].sent.credential
  BY <1>1 DEF AskLimiter, Limiter!ReadClock, OtherCalls
<1>3. LeaveLimiter(n) => OtherCalls(n) /\ calls'[n].pc = "idle" /\ UNCHANGED admitted
  BY <1>1 DEF LeaveLimiter, Limiter!Return, Limiter!Idle, OtherCalls
<1>4. Limiter!Deny(n) =>
        /\ OtherCalls(n) /\ calls[n].pc = "waiting" /\ calls'[n].pc = "denied"
        /\ calls'[n].subject = calls[n].subject /\ UNCHANGED admitted
  BY <1>1 DEF Limiter!Deny, OtherCalls
<1>5. ASSUME NEW window, Limiter!Admit(n, window)
      PROVE  /\ OtherCalls(n) /\ calls'[n].pc = "allowed"
             /\ calls'[n].subject = calls[n].subject /\ Admitted(n)
  BY <1>1, <1>5 DEF Limiter!Admit, OtherCalls, Admitted
<1>6. Limiter!OpenWindow(n) \/ Limiter!CountRequest(n) =>
        calls[n].pc = "waiting" /\ \E window : Limiter!Admit(n, window)
  BY DEF Limiter!OpenWindow, Limiter!CountRequest
<1> QED BY <1>2, <1>3, <1>4, <1>5, <1>6

(* A step of n that neither gives nor takes a share.                       *)
Quiet(n) ==
  /\ Metering(requests'[n], calls'[n])
  /\ HasShare(requests'[n], calls'[n]) <=> HasShare(requests[n], calls[n])
  /\ requests[n].pc # "new" => requests'[n].sent = requests[n].sent

LEMMA QuietAlone ==
  ASSUME MeteredInv, NEW n \in Handlers, Others(n), OtherCalls(n), Quiet(n)
  PROVE  \A m \in Handlers : Quiet(m)
<1> SUFFICES ASSUME NEW m \in Handlers, m # n PROVE Quiet(m)
  OBVIOUS
<1>1. requests'[m] = requests[m] /\ calls'[m] = calls[m]
  BY DEF Others, OtherCalls
<1> QED BY <1>1 DEF Quiet, MeteredInv

LEMMA QuietSteps ==
  ASSUME BoundaryInv, MeteredInv, Limiter!TypeOK, [Next]_vars
  PROVE  \/ UNCHANGED admitted /\ \A n \in Handlers : Quiet(n)
         \/ \E n \in Handlers : /\ Limiter!OpenWindow(n) \/ Limiter!CountRequest(n)
                                /\ UNCHANGED requests
<1> DEFINE Silent == UNCHANGED admitted /\ \A n \in Handlers : Quiet(n)
<1>1. Shape /\ Staged
  BY DEF BoundaryInv
<1>2. CASE UNCHANGED <<requests, calls, admitted>>
  BY <1>2 DEF Quiet, MeteredInv
<1>3. ASSUME NEW n \in Handlers, UNCHANGED limiter, Others(n), Quiet(n) PROVE Silent
  <2>1. OtherCalls(n) /\ UNCHANGED admitted
    BY <1>3 DEF limiter, OtherCalls
  <2> QED BY <1>3, <2>1, QuietAlone
<1>4. ASSUME NEW n \in Handlers, Receive(n) PROVE Silent
  <2>1. /\ requests[n].pc = "new" /\ ~requests[n].served /\ Others(n)
        /\ Arrived(n, requests'[n]) /\ UNCHANGED limiter
    BY <1>1, <1>4, Arrival DEF NotReceived
  <2>2. /\ requests'[n].pc # "limiting" /\ ~requests'[n].served
        /\ ~HasShare(requests'[n], calls'[n])
    BY <2>1 DEF Arrived, Dispatched, HasShare, Mutations, Reads
  <2>3. calls'[n].pc = "idle"
    BY <2>1 DEF limiter, MeteredInv, Metering
  <2>4. Quiet(n)
    BY <2>1, <2>2, <2>3 DEF Quiet, Metering, HasShare
  <2> QED BY <1>3, <2>1, <2>4
<1>5. ASSUME NEW n \in Handlers, AskLimiter(n) PROVE Silent
  <2>1. /\ requests[n].pc = "metered"
        /\ Step(n, "limiting", requests[n].status, requests[n].served, requests[n].view)
    BY <1>1, <1>5, AskTurn
  <2>2. /\ OtherCalls(n) /\ calls'[n].pc = "waiting" /\ UNCHANGED admitted
        /\ calls'[n].subject = requests[n].sent.credential
    BY <1>5, CallTurns
  <2>3. ~requests[n].served
    BY <1>1, <2>1, AtWork DEF Active
  <2>4. Quiet(n)
    BY <2>1, <2>2, <2>3 DEF Step, Keeps, Quiet, Metering, HasShare
  <2> QED BY <2>1, <2>2, <2>4, QuietAlone DEF Step
<1>6. ASSUME NEW n \in Handlers, LeaveLimiter(n) PROVE Silent
  <2> DEFINE r == requests[n]
             q == requests'[n]
  <2>1. OtherCalls(n) /\ calls'[n].pc = "idle" /\ UNCHANGED admitted
    BY <1>6, CallTurns
  <2>2. /\ r.pc = "limiting" /\ Others(n) /\ Keeps(r, q) /\ q.served = r.served
        /\ \/ calls[n].pc = "denied" /\ q.pc = "answered" /\ q.status = 429
           \/ calls[n].pc = "allowed" /\ q.pc = "answered" /\ q.status = 422
           \/ calls[n].pc = "allowed" /\ q.pc = "endpoint" /\ q.status = r.status
    BY <1>1, <1>6, LeaveTurn DEF Step
  <2>3. ~r.served /\ r.status = 0
    BY <1>1, <2>2, AtWork DEF Active
  <2> HIDE DEF r, q
  <2>4. HasShare(q, calls'[n]) <=> HasShare(r, calls[n])
    BY <2>1, <2>2, <2>3 DEF Keeps, HasShare
  <2>5. Quiet(n)
    BY <2>1, <2>2, <2>3, <2>4 DEF Keeps, Quiet, Metering, r, q
  <2> QED BY <2>1, <2>2, <2>5, QuietAlone
<1>7. ASSUME NEW n \in Handlers, CallService(n) \/ Crash(n) \/ Observe(n) PROVE Silent
  <2> DEFINE r == requests[n]
             q == requests'[n]
  <2>1. /\ r.pc \in {"endpoint", "answered"} /\ q.pc \in {"answered", "crashed", "done"}
        /\ Others(n) /\ Keeps(r, q)
        /\ \/ r.pc = "endpoint" /\ q.status # 429
           \/ q.status = r.status /\ q.served = r.served
    <3>1. CASE CallService(n)
      <4>1. PICK status \in Statuses \ {429} : Step(n, "answered", status, TRUE, r.view)
        BY <1>1, <3>1, ServiceTurn, ZenonT(40)
      <4>2. r.pc = "endpoint"
        BY <1>1, <3>1, ServiceTurn, ZenonT(40)
      <4> QED BY <4>1, <4>2 DEF Step
    <3>2. CASE Crash(n)
      <4>1. r.pc = "endpoint" /\ Step(n, "crashed", 500, TRUE, r.view)
        BY <1>1, <3>2, CrashTurn, ZenonT(40)
      <4> QED BY <4>1 DEF Step
    <3>3. CASE Observe(n)
      BY <1>1, <3>3, ObserveTurn DEF Step
    <3> QED BY <1>7, <3>1, <3>2, <3>3
  <2>2. UNCHANGED limiter
    BY <1>7 DEF CallService, Crash, Observe
  <2>3. r.pc = "endpoint" => r.status = 0
    BY <1>1, AtWork DEF Active
  <2>4. Metering(r, calls[n]) /\ calls'[n] = calls[n]
    BY <2>2 DEF MeteredInv, limiter
  <2> HIDE DEF r, q
  <2>5. HasShare(q, calls'[n]) <=> HasShare(r, calls[n])
    BY <2>1, <2>3 DEF Keeps, HasShare
  <2>6. Metering(q, calls'[n])
    BY <2>1, <2>3, <2>4 DEF Keeps, Metering
  <2>7. Quiet(n)
    BY <2>1, <2>5, <2>6 DEF Keeps, Quiet, r, q
  <2> QED BY <1>3, <2>1, <2>2, <2>7
<1>8. ASSUME NEW n \in Handlers, BeginRead(n) \/ Read(n) PROVE Silent
  <2> DEFINE r == requests[n]
             q == requests'[n]
  <2>1. /\ r.pc \in {"endpoint", "reading"} /\ q.pc \in {"answered", "reading"}
        /\ Others(n) /\ Keeps(r, q) /\ q.served = r.served /\ r.sent.endpoint \in Reads
    <3>1. CASE BeginRead(n)
      BY <1>1, <3>1, BeginTurn DEF Step
    <3>2. CASE Read(n)
      BY <1>1, <3>2, ReadTurn, AtWork DEF Step, Active
    <3> QED BY <1>8, <3>1, <3>2
  <2>2. UNCHANGED limiter
    BY <1>8 DEF BeginRead, Read
  <2>3. ~r.served
    BY <1>1, <2>1, AtWork DEF Active
  <2>4. Metering(r, calls[n]) /\ calls'[n] = calls[n]
    BY <2>2 DEF MeteredInv, limiter
  <2> HIDE DEF r, q
  <2>5. ~HasShare(q, calls'[n]) /\ ~HasShare(r, calls[n])
    BY <2>1 DEF Keeps, HasShare, Reads, Mutations
  <2>6. Metering(q, calls'[n])
    BY <2>1, <2>3, <2>4 DEF Keeps, Metering
  <2>7. Quiet(n)
    BY <2>1, <2>5, <2>6 DEF Keeps, Quiet, r, q
  <2> QED BY <1>3, <2>1, <2>2, <2>7
<1>9. ASSUME NEW n \in Handlers, Limiting(n)
      PROVE  \/ Silent
             \/ /\ Limiter!OpenWindow(n) \/ Limiter!CountRequest(n)
                /\ UNCHANGED requests
  <2>1. CASE Limiter!Deny(n)
    <3>1. UNCHANGED requests
      BY <1>9 DEF Limiting
    <3>2. Quiet(n)
      BY <2>1, <3>1, CallTurns DEF Quiet, MeteredInv, Metering, HasShare
    <3>3. OtherCalls(n) /\ UNCHANGED admitted
      BY <2>1, CallTurns
    <3> QED BY <3>1, <3>2, <3>3, QuietAlone DEF Others
  <2> QED BY <1>9, <2>1 DEF Limiting
<1>10. CASE Tick \/ UNCHANGED vars \/ \E n \in Handlers : ServiceAudit(n)
  <2>1. UNCHANGED <<requests, calls, admitted>>
    BY <1>10 DEF Tick, Limiter!Tick, ServiceAudit, vars, limiter
  <2> QED BY <1>2, <2>1
<1> QED BY <1>4, <1>5, <1>6, <1>7, <1>8, <1>9, <1>10 DEF Next

LEMMA HandlersAreFinite == IsFiniteSet(Handlers)
<1>1. 1 \in Int /\ MaxRequests \in Int
  BY BoundaryAssumption
<1> QED BY <1>1, FS_Interval DEF Handlers

LEMMA SpentIsFinite == \A s : Spent(s) \subseteq Handlers /\ IsFiniteSet(Spent(s))
  BY HandlersAreFinite, FS_Subset DEF Spent

(* An admission is one more share, and that of a request without one.      *)
LEMMA AdmissionIsSpent ==
  ASSUME BoundaryInv, SharesInv, Limiter!TypeOK, NEW n \in Handlers,
         Limiter!OpenWindow(n) \/ Limiter!CountRequest(n), UNCHANGED requests
  PROVE  SharesInv'
<1> DEFINE r == requests[n]
<1>1. /\ OtherCalls(n) /\ calls[n].pc = "waiting" /\ calls'[n].pc = "allowed"
      /\ calls'[n].subject = calls[n].subject /\ Admitted(n)
  BY CallTurns
<1>2. r.pc = "limiting" /\ calls[n].subject = r.sent.credential
  BY <1>1 DEF SharesInv, MeteredInv, Metering
<1>3. /\ Refusal(r.sent) = None /\ r.id # Unavailable /\ r.sent.endpoint \in Mutations
      /\ r.status = 0 /\ ~r.served /\ r.sent.credential \in Subjects
  BY <1>2, AtWork DEF BoundaryInv, Active
<1>4. HasShare(r, calls'[n]) /\ ~HasShare(r, calls[n])
  BY <1>1, <1>2, <1>3 DEF HasShare
<1>5. MeteredInv'
  <2> SUFFICES ASSUME NEW m \in Handlers PROVE Metering(requests[m], calls'[m])
    BY DEF MeteredInv
  <2>1. CASE m = n
    BY <1>1, <1>2, <1>3, <2>1 DEF Metering
  <2>2. CASE m # n
    BY <1>1, <2>2 DEF OtherCalls, SharesInv, MeteredInv
  <2> QED BY <2>1, <2>2
<1>6. ASSUME NEW s \in Subjects PROVE Len(admitted'[s]) = Cardinality(Spent(s)')
  <2>1. Spent(s)' = {m \in Handlers : /\ HasShare(requests[m], calls'[m])
                                      /\ requests[m].sent.credential = s}
    BY DEF Spent
  <2>2. /\ admitted \in [Subjects -> Seq([read : 0..clock, at : 0..clock])]
        /\ Len(admitted[s]) = Cardinality(Spent(s))
    BY DEF Limiter!TypeOK, SharesInv
  <2>3. PICK e : admitted' = [admitted EXCEPT ![r.sent.credential] = Append(@, e)]
    BY <1>1, <1>2 DEF Admitted
  <2>4. CASE s = r.sent.credential
    <3>1. Spent(s)' = Spent(s) \cup {n} /\ n \notin Spent(s)
      BY <1>1, <1>4, <2>1, <2>4 DEF Spent, OtherCalls
    <3>2. Cardinality(Spent(s) \cup {n}) = Cardinality(Spent(s)) + 1
      BY <3>1, SpentIsFinite, FS_AddElement
    <3>3. Len(admitted'[s]) = Len(admitted[s]) + 1
      BY <2>2, <2>3, <2>4
    <3> QED BY <2>2, <3>1, <3>2, <3>3
  <2>5. CASE s # r.sent.credential
    <3>1. Spent(s)' = Spent(s)
      BY <1>1, <2>1, <2>5 DEF Spent, OtherCalls
    <3>2. admitted'[s] = admitted[s]
      BY <2>2, <2>3, <2>5
    <3> QED BY <2>2, <3>1, <3>2
  <2> QED BY <2>4, <2>5
<1> QED BY <1>5, <1>6 DEF SharesInv

LEMMA SharesStep ==
  ASSUME BoundaryInv, SharesInv, Limiter!TypeOK, [Next]_vars
  PROVE  SharesInv'
<1>1. CASE UNCHANGED admitted /\ \A n \in Handlers : Quiet(n)
  <2>1. MeteredInv'
    BY <1>1 DEF Quiet, MeteredInv
  <2>2. ASSUME NEW s \in Subjects PROVE Spent(s)' = Spent(s)
    <3>1. Spent(s)' = {n \in Handlers : /\ HasShare(requests'[n], calls'[n])
                                        /\ requests'[n].sent.credential = s}
      BY DEF Spent
    <3>2. ASSUME NEW n \in Handlers, HasShare(requests[n], calls[n])
          PROVE  requests'[n].sent = requests[n].sent
      BY <1>1, <3>2 DEF Quiet, HasShare
    <3> QED BY <1>1, <3>1, <3>2 DEF Quiet, Spent
  <2> QED BY <1>1, <2>1, <2>2 DEF SharesInv
<1>2. MeteredInv
  BY DEF SharesInv
<1> QED BY <1>1, <1>2, QuietSteps, AdmissionIsSpent

LEMMA SharesInit == Init => SharesInv
<1> SUFFICES ASSUME Init PROVE SharesInv
  OBVIOUS
<1>1. \A n \in Handlers : requests[n] = NotReceived /\ calls[n].pc = "idle"
  BY DEF Init, Limiter!Init, Limiter!Idle
<1>2. \A s \in Subjects : admitted[s] = <<>>
  BY DEF Init, Limiter!Init
<1>3. MeteredInv
  BY <1>1 DEF MeteredInv, Metering, NotReceived
<1>4. \A s \in Subjects : Spent(s) = {}
  BY <1>1 DEF Spent, HasShare, NotReceived
<1> QED BY <1>2, <1>3, <1>4, FS_EmptySet, SMTT(30) DEF SharesInv

(* What a request that held a share ends with, and why: the body decides,  *)
(* before the endpoint.                                                    *)
Ending(r) ==
  /\ r.pc = "endpoint" \/ r.served => ~Misfits(r.sent)
  /\ /\ r.pc \in {"answered", "done", "crashed"} /\ r.status # 429
     /\ r.sent.endpoint \in Mutations /\ Refusal(r.sent) = None /\ r.id # Unavailable
     => r.served \/ (Misfits(r.sent) /\ r.status = 422)

EndingInv == \A n \in Handlers : Ending(requests[n])

LEMMA EndingOne ==
  ASSUME EndingInv, NEW n \in Handlers, Others(n), Ending(requests'[n])
  PROVE  EndingInv'
<1> SUFFICES ASSUME NEW m \in Handlers PROVE Ending(requests'[m])
  BY DEF EndingInv
<1>1. CASE m = n
  BY <1>1
<1>2. CASE m # n
  BY <1>2 DEF Others, EndingInv
<1> QED BY <1>1, <1>2

LEMMA EndingStep ==
  ASSUME BoundaryInv, EndingInv, [Next]_vars
  PROVE  EndingInv'
<1>1. Shape /\ Staged
  BY DEF BoundaryInv
<1>2. CASE UNCHANGED requests
  BY <1>2 DEF EndingInv
<1>3. ASSUME NEW n \in Handlers, Receive(n) PROVE EndingInv'
  <2> DEFINE q == requests'[n]
  <2>1. Others(n) /\ Arrived(n, q)
    BY <1>1, <1>3, Arrival
  <2> HIDE DEF q
  <2>2. q.pc # "crashed" /\ ~q.served
    BY <2>1 DEF Arrived, Dispatched
  <2>3. q.pc = "endpoint" => ~Misfits(q.sent)
    BY <2>1 DEF Arrived, Dispatched, Misfits, HasBody, Reads
  <2>4. q.pc \in {"answered", "done"} /\ Refusal(q.sent) = None /\ q.id # Unavailable =>
          q.sent.endpoint \notin Mutations
    BY <2>1 DEF Arrived, Dispatched, Mutations
  <2>5. Ending(q)
    BY <2>2, <2>3, <2>4 DEF Ending
  <2> QED BY <2>1, <2>5, EndingOne DEF q
<1>4. ASSUME NEW n \in Handlers, AskLimiter(n) PROVE EndingInv'
  <2>1. /\ requests[n].pc = "metered"
        /\ Step(n, "limiting", requests[n].status, requests[n].served, requests[n].view)
    BY <1>1, <1>4, AskTurn
  <2>2. ~requests[n].served
    BY <1>1, <2>1, AtWork DEF Active
  <2>3. Ending(requests'[n])
    BY <2>1, <2>2 DEF Step, Ending
  <2> QED BY <2>1, <2>3, EndingOne DEF Step
<1>5. ASSUME NEW n \in Handlers, LeaveLimiter(n) PROVE EndingInv'
  <2> DEFINE r == requests[n]
             q == requests'[n]
  <2>1. /\ r.pc = "limiting" /\ Others(n) /\ q.sent = r.sent /\ q.served = r.served
        /\ \/ q.pc = "answered" /\ q.status = 429
           \/ q.pc = "answered" /\ q.status = 422 /\ Misfits(r.sent)
           \/ q.pc = "endpoint" /\ ~Misfits(r.sent)
    BY <1>1, <1>5, LeaveTurn DEF Step, Keeps
  <2>2. ~r.served
    BY <1>1, <2>1, AtWork DEF Active
  <2> HIDE DEF r, q
  <2>3. Ending(q)
    BY <2>1, <2>2 DEF Ending
  <2> QED BY <2>1, <2>3, EndingOne DEF q
<1>6. ASSUME NEW n \in Handlers, CallService(n) \/ Crash(n) PROVE EndingInv'
  <2> DEFINE r == requests[n]
             q == requests'[n]
  <2>1. r.pc = "endpoint" /\ Others(n) /\ q.sent = r.sent /\ q.served = TRUE
    <3>1. CASE CallService(n)
      <4>1. PICK status \in Statuses \ {429} : Step(n, "answered", status, TRUE, r.view)
        BY <1>1, <3>1, ServiceTurn, ZenonT(40)
      <4>2. r.pc = "endpoint"
        BY <1>1, <3>1, ServiceTurn, ZenonT(40)
      <4> QED BY <4>1, <4>2 DEF Step, Keeps
    <3>2. CASE Crash(n)
      <4>1. r.pc = "endpoint" /\ Step(n, "crashed", 500, TRUE, r.view)
        BY <1>1, <3>2, CrashTurn, ZenonT(40)
      <4> QED BY <4>1 DEF Step, Keeps
    <3> QED BY <1>6, <3>1, <3>2
  <2>2. ~Misfits(r.sent)
    BY <2>1 DEF EndingInv, Ending
  <2> HIDE DEF r, q
  <2>3. Ending(q)
    BY <2>1, <2>2 DEF Ending
  <2> QED BY <2>1, <2>3, EndingOne DEF q
<1>7. ASSUME NEW n \in Handlers, BeginRead(n) \/ Read(n) PROVE EndingInv'
  <2> DEFINE r == requests[n]
             q == requests'[n]
  <2>1. Others(n) /\ q.sent = r.sent /\ r.sent.endpoint \in Reads
    <3>1. CASE BeginRead(n)
      BY <1>1, <3>1, BeginTurn DEF Step, Keeps
    <3>2. CASE Read(n)
      BY <1>1, <3>2, ReadTurn, AtWork DEF Step, Keeps, Active
    <3> QED BY <1>7, <3>1, <3>2
  <2> HIDE DEF r, q
  <2>2. Ending(q)
    BY <2>1 DEF Ending, Misfits, HasBody, Mutations, Reads
  <2> QED BY <2>1, <2>2, EndingOne DEF q
<1>8. ASSUME NEW n \in Handlers, Observe(n) PROVE EndingInv'
  <2> DEFINE r == requests[n]
             q == requests'[n]
  <2>1. /\ r.pc = "answered" /\ q.pc = "done" /\ Others(n) /\ Keeps(r, q)
        /\ q.status = r.status /\ q.served = r.served
    BY <1>1, <1>8, ObserveTurn DEF Step
  <2>2. Ending(r)
    BY DEF EndingInv
  <2> HIDE DEF r, q
  <2>3. Ending(q)
    BY <2>1, <2>2 DEF Ending, Keeps
  <2> QED BY <2>1, <2>3, EndingOne DEF q
<1>9. ASSUME NEW n \in Handlers, Limiting(n) \/ ServiceAudit(n) PROVE UNCHANGED requests
  BY <1>9 DEF Limiting, ServiceAudit
<1>10. CASE Tick \/ UNCHANGED vars
  BY <1>2, <1>10 DEF Tick, vars
<1> QED BY <1>2, <1>3, <1>4, <1>5, <1>6, <1>7, <1>8, <1>9, <1>10 DEF Next

LEMMA EndingInit == Init => EndingInv
  BY DEF Init, EndingInv, Ending, NotReceived

(* A metered request is a mutation that nothing refuses before the limiter.*)
LEMMA MeteredMeans ==
  ASSUME NEW n \in Handlers, NEW sent \in Sent
  PROVE  IsMetered(sent) <=>
           /\ sent.endpoint \in Mutations /\ Refusal(sent) = None
           /\ CorrelationOf(sent, n) # Unavailable
<1>1. /\ sent.correlation \in SentIds \cup {None, "bad"}
      /\ sent.credential \in Subjects \cup {None} /\ sent.key \in {"good", "bad"}
  BY BoundaryAssumption DEF RequestShape
<1>2. CorrelationOf(sent, n) # Unavailable <=> sent.correlation # "bad"
  BY <1>1, BoundaryAssumption DEF CorrelationOf
<1>3. 422 # None /\ 401 # None /\ 400 # None
  BY BoundaryAssumption
<1>4. ASSUME sent.endpoint \in Mutations
      PROVE  Refusal(sent) = None <=>
               /\ sent.credential # None /\ sent.key = "good"
               /\ sent.endpoint \in HasBody => sent.body # "unparsable"
  BY <1>1, <1>3, <1>4, StatusTable DEF Refusal, IsAuthenticated, Mutations
<1> QED BY <1>2, <1>4 DEF IsMetered

LEMMA ShareMeans ==
  ASSUME Staged, NEW n \in Handlers
  PROVE  HoldsShare(n) <=> HasShare(requests[n], calls[n])
<1> DEFINE r == requests[n]
<1>1. CASE r.pc = "new"
  BY <1>1 DEF HoldsShare, HasShare
<1>2. CASE r.pc # "new"
  <2>1. r.sent \in Sent /\ r.id = CorrelationOf(r.sent, n)
    BY <1>2 DEF Staged, Stage, Identified
  <2>2. IsMetered(r.sent) <=>
          r.sent.endpoint \in Mutations /\ Refusal(r.sent) = None /\ r.id # Unavailable
    BY <2>1, MeteredMeans
  <2> HIDE DEF r
  <2>3. HasShare(r, calls[n]) <=>
          /\ r.pc \notin {"new", "metered"} /\ IsMetered(r.sent)
          /\ r.pc = "limiting" => calls[n].pc = "allowed"
          /\ r.status # 429
    BY <2>2 DEF HasShare
  <2> QED BY <2>3 DEF HoldsShare, r
<1> QED BY <1>1, <1>2

(* enforce_mutation_rate_limit stands between the metadata and the body's  *)
(* contract: a principal has spent exactly one admission for each of its   *)
(* metered mutations that the limiter let through, so that reads,          *)
(* strangers, bad metadata and bodies that do not parse spend none.  Only  *)
(* a mutation that spent one reaches the service, and each one that did    *)
(* gets there, but for a body that violates the contract: that one is      *)
(* answered 422 and its share is gone.                                     *)
THEOREM SharesAreKept == Spec => []SharesArePerRequest
<1>1. BoundaryInv /\ SharesInv /\ EndingInv => SharesArePerRequest
  <2> SUFFICES ASSUME BoundaryInv, SharesInv, EndingInv PROVE SharesArePerRequest
    OBVIOUS
  <2>1. \A n \in Handlers : HoldsShare(n) <=> HasShare(requests[n], calls[n])
    BY ShareMeans DEF BoundaryInv
  <2>2. ASSUME NEW s \in Subjects
        PROVE  Len(admitted[s]) =
                 Cardinality({n \in Handlers :
                                HoldsShare(n) /\ requests[n].sent.credential = s})
    <3>1. {n \in Handlers : HoldsShare(n) /\ requests[n].sent.credential = s} = Spent(s)
      BY <2>1 DEF Spent
    <3> QED BY <3>1 DEF SharesInv
  <2>3. ASSUME NEW n \in Handlers, requests[n].served,
               requests[n].sent.endpoint \in Mutations
        PROVE  HoldsShare(n)
    <3>1. Progress(requests[n]) /\ requests[n].status # 429
      BY <2>3 DEF BoundaryInv, Staged, Stage, SharesInv, MeteredInv, Metering
    <3> QED BY <2>1, <2>3, <3>1 DEF Progress, HasShare
  <2>4. ASSUME NEW n \in Handlers, HoldsShare(n),
               requests[n].pc \in {"answered", "done", "crashed"}
        PROVE  IF Misfits(requests[n].sent)
                 THEN ~requests[n].served /\ requests[n].status = 422
                 ELSE requests[n].served
    <3>1. Ending(requests[n]) /\ HasShare(requests[n], calls[n])
      BY <2>1, <2>4 DEF EndingInv
    <3> QED BY <2>4, <3>1 DEF Ending, HasShare
  <2> QED BY <2>2, <2>3, <2>4 DEF SharesArePerRequest
<1>2. BoundaryInv /\ SharesInv /\ Limiter!TypeOK /\ [Next]_vars => SharesInv'
  BY SharesStep
<1>3. BoundaryInv /\ EndingInv /\ [Next]_vars => EndingInv'
  BY EndingStep
<1> QED BY <1>1, <1>2, <1>3, SharesInit, EndingInit, BoundaryAlways, LimiterHolds, PTL
        DEF Spec

-----------------------------------------------------------------------------
(* What a reader saw.  A view is taken once, in the reader's last turn but *)
(* one, after the requests answered before the reader's own arrival.       *)

Finished == {n \in Handlers : requests[n].pc = "done"}

EarlierInv ==
  \A n \in Handlers : requests[n].before \subseteq Finished \ {n}

LEMMA ViewComesFromRead ==
  ASSUME BoundaryInv, [Next]_vars, NEW n \in Handlers
  PROVE  requests'[n].view = requests[n].view \/ Read(n)
<1> DEFINE r == requests[n]
           q == requests'[n]
<1>1. Shape /\ Staged
  BY DEF BoundaryInv
<1>2. CASE q = r
  BY <1>2
<1>3. ASSUME NEW m \in Handlers, Others(m), m = n => q.view = r.view
      PROVE  q.view = r.view
  BY <1>3 DEF Others
<1>4. ASSUME NEW m \in Handlers, Receive(m) PROVE q.view = r.view
  <2>1. requests[m] = NotReceived /\ Others(m) /\ Arrived(m, requests'[m])
    BY <1>1, <1>4, Arrival
  <2>2. requests[m].view = None /\ requests'[m].view = None
    BY <2>1 DEF NotReceived, Arrived
  <2> QED BY <1>3, <2>1, <2>2
<1>5. ASSUME NEW m \in Handlers,
             AskLimiter(m) \/ LeaveLimiter(m) \/ CallService(m) \/ Crash(m)
               \/ BeginRead(m) \/ Observe(m)
      PROVE  q.view = r.view
  <2>1. Others(m) /\ requests'[m].view = requests[m].view
    <3>1. CASE AskLimiter(m)
      BY <1>1, <3>1, AskTurn DEF Step
    <3>2. CASE LeaveLimiter(m)
      BY <1>1, <3>2, LeaveTurn DEF Step
    <3>3. CASE CallService(m)
      BY <1>1, <3>3, EndpointTurn
    <3>4. CASE Crash(m)
      BY <1>1, <3>4, EndpointTurn
    <3>5. CASE BeginRead(m)
      BY <1>1, <3>5, BeginTurn DEF Step
    <3>6. CASE Observe(m)
      BY <1>1, <3>6, ObserveTurn DEF Step
    <3> QED BY <1>5, <3>1, <3>2, <3>3, <3>4, <3>5, <3>6
  <2> QED BY <1>3, <2>1
<1>6. ASSUME NEW m \in Handlers, Read(m), m # n PROVE q.view = r.view
  <2>1. Others(m)
    BY <1>1, <1>6, ReadTurn DEF Step
  <2> QED BY <1>3, <1>6, <2>1
<1>7. ASSUME NEW m \in Handlers, Limiting(m) \/ ServiceAudit(m) PROVE q = r
  BY <1>7 DEF Limiting, ServiceAudit
<1>8. CASE Tick \/ UNCHANGED vars
  BY <1>8 DEF Tick, vars
<1> QED BY <1>2, <1>4, <1>5, <1>6, <1>7, <1>8 DEF Next

(* A finished request never changes, and the set only grows.               *)
LEMMA FinishedStays ==
  ASSUME BoundaryInv, [Next]_vars, NEW m \in Finished
  PROVE  requests'[m] = requests[m] /\ m \in Finished'
<1>1. requests[m].pc = "done" /\ m \in Handlers
  BY DEF Finished
<1>2. requests'[m] = requests[m]
  BY <1>1, Settling DEF BoundaryInv, Settles
<1> QED BY <1>1, <1>2 DEF Finished

LEMMA EarlierStep ==
  ASSUME BoundaryInv, EarlierInv, [Next]_vars
  PROVE  EarlierInv'
<1> SUFFICES ASSUME NEW n \in Handlers, NEW m \in requests'[n].before
             PROVE  m \in Finished' /\ m # n
  BY DEF EarlierInv
<1>1. Shape /\ Staged
  BY DEF BoundaryInv
<1>2. CASE requests'[n].before = requests[n].before
  BY <1>2, FinishedStays DEF EarlierInv
<1>3. CASE requests[n].pc = "new" /\ Receive(n)
  <2>1. m \in Handlers /\ requests[m].pc = "done"
    BY <1>1, <1>3, Arrival DEF Arrived
  <2>2. m \in Finished
    BY <2>1 DEF Finished
  <2> QED BY <1>3, <2>1, <2>2, FinishedStays
<1>4. requests[n].pc # "new" => requests'[n].before = requests[n].before
  BY <1>1, Settling DEF Settles, Keeps
<1>5. requests[n].pc = "new" => Receive(n) \/ requests'[n] = requests[n]
  <2>1. ASSUME NEW k \in Handlers, k # n, Others(k) PROVE requests'[n] = requests[n]
    BY <2>1 DEF Others
  <2>2. ASSUME requests[n].pc = "new", NEW k \in Handlers,
               \/ AskLimiter(k) \/ LeaveLimiter(k) \/ CallService(k) \/ Crash(k)
               \/ BeginRead(k) \/ Read(k) \/ Observe(k)
        PROVE  requests'[n] = requests[n]
    <3>1. requests[k].pc # "new" /\ Others(k)
      <4>1. CASE AskLimiter(k)
        BY <1>1, <4>1, AskTurn DEF Step
      <4>2. CASE LeaveLimiter(k)
        BY <1>1, <4>2, LeaveTurn DEF Step
      <4>3. CASE CallService(k)
        BY <1>1, <4>3, EndpointTurn
      <4>4. CASE Crash(k)
        BY <1>1, <4>4, EndpointTurn
      <4>5. CASE BeginRead(k)
        BY <1>1, <4>5, BeginTurn DEF Step
      <4>6. CASE Read(k)
        BY <1>1, <4>6, ReadTurn DEF Step
      <4>7. CASE Observe(k)
        BY <1>1, <4>7, ObserveTurn DEF Step
      <4> QED BY <2>2, <4>1, <4>2, <4>3, <4>4, <4>5, <4>6, <4>7
    <3> QED BY <2>1, <2>2, <3>1
  <2>3. ASSUME NEW k \in Handlers, Limiting(k) \/ ServiceAudit(k)
        PROVE  requests'[n] = requests[n]
    BY <2>3 DEF Limiting, ServiceAudit
  <2>4. ASSUME NEW k \in Handlers, Receive(k), k # n PROVE requests'[n] = requests[n]
    BY <1>1, <2>1, <2>4, Arrival
  <2>5. CASE Tick \/ UNCHANGED vars
    BY <2>5 DEF Tick, vars
  <2> QED BY <2>2, <2>3, <2>4, <2>5 DEF Next
<1> QED BY <1>2, <1>3, <1>4, <1>5

-----------------------------------------------------------------------------
(* The totals.  Telemetry counts the finished requests, and the failing    *)
(* observations are theirs.                                                *)

TotalsInv ==
  /\ Len(telemetry) = Cardinality(Finished)
  /\ Errors(telemetry) = Cardinality(Failed(Finished))

SnapshotsInv == TotalsInv /\ SnapshotIsCurrent

(* One more element is counted once.                                       *)
LEMMA OneMore ==
  ASSUME NEW S, IsFiniteSet(S), NEW x, x \notin S, NEW T, T = S \cup {x}
  PROVE  Cardinality(T) = Cardinality(S) + 1
  BY FS_AddElement

LEMMA TotalsStep ==
  ASSUME BoundaryInv, TotalsInv, [Next]_vars
  PROVE  TotalsInv'
<1>1. Shape /\ Staged /\ telemetry \in Seq(Observation)
  BY DEF BoundaryInv, Logged
<1>2. IsFiniteSet(Finished) /\ IsFiniteSet(Failed(Finished))
  BY HandlersAreFinite, FS_Subset DEF Finished, Failed
<1>3. CASE /\ UNCHANGED telemetry
           /\ \A n \in Handlers : requests'[n].pc = "done" <=> requests[n].pc = "done"
  <2>1. Finished' = Finished
    BY <1>3 DEF Finished
  <2>2. Failed(Finished)' = Failed(Finished)
    BY <2>1, FinishedStays DEF Failed
  <2> QED BY <1>3, <2>1, <2>2 DEF TotalsInv, Errors
<1>4. ASSUME NEW n \in Handlers, Observes(n) PROVE TotalsInv'
  <2> DEFINE o == ObservationOf(n)
             k == Len(telemetry) + 1
             bad == {i \in DOMAIN telemetry : telemetry[i].status >= 400}
             badNow == {i \in DOMAIN telemetry' : telemetry'[i].status >= 400}
  <2>1. /\ requests[n].pc = "answered" /\ requests'[n].pc = "done" /\ Others(n)
        /\ requests'[n].status = requests[n].status /\ telemetry' = Append(telemetry, o)
    BY <1>4 DEF Observes, Step
  <2>2. o.status = requests'[n].status
    BY <2>1 DEF ObservationOf
  <2>3. Finished' = Finished \cup {n} /\ n \notin Finished
    BY <2>1 DEF Finished, Others
  <2>4. Failed(Finished)' = IF o.status >= 400 THEN Failed(Finished) \cup {n}
                              ELSE Failed(Finished)
    <3>1. Failed(Finished)' = {m \in Finished' : requests'[m].status >= 400}
      BY DEF Failed
    <3> HIDE DEF o
    <3>2. \A m \in Finished : requests'[m] = requests[m]
      BY FinishedStays
    <3> QED BY <2>2, <2>3, <3>1, <3>2 DEF Failed
  <2>5. n \notin Failed(Finished)
    BY <2>3 DEF Failed
  <2> HIDE DEF o
  <2>6. /\ DOMAIN telemetry' = DOMAIN telemetry \cup {k} /\ k \notin DOMAIN telemetry
        /\ telemetry'[k] = o /\ \A i \in DOMAIN telemetry : telemetry'[i] = telemetry[i]
        /\ Len(telemetry') = Len(telemetry) + 1 /\ IsFiniteSet(DOMAIN telemetry)
    <3>1. Len(telemetry) \in Nat /\ DOMAIN telemetry = 1..Len(telemetry)
      BY <1>1
    <3>2. IsFiniteSet(DOMAIN telemetry)
      BY <3>1, FS_Interval
    <3> QED BY <1>1, <2>1, <3>2
  <2> HIDE DEF k
  <2>7. badNow = IF o.status >= 400 THEN bad \cup {k} ELSE bad
    BY <2>6
  <2>8. k \notin bad /\ IsFiniteSet(bad)
    BY <2>6, FS_Subset
  <2>9. Errors(telemetry) = Cardinality(bad) /\ Errors(telemetry)' = Cardinality(badNow)
    BY DEF Errors
  <2> HIDE DEF bad, badNow
  <2>10. Len(telemetry') = Cardinality(Finished')
    BY <1>2, <2>3, <2>6, OneMore DEF TotalsInv
  <2>11. Errors(telemetry)' = Cardinality(Failed(Finished)')
    <3>1. Cardinality(bad) = Cardinality(Failed(Finished))
      BY <2>9 DEF TotalsInv
    <3>2. CASE o.status >= 400
      <4>1. Cardinality(badNow) = Cardinality(bad) + 1
        BY <2>7, <2>8, <3>2, OneMore
      <4>2. Cardinality(Failed(Finished)') = Cardinality(Failed(Finished)) + 1
        BY <1>2, <2>4, <2>5, <3>2, OneMore
      <4> QED BY <2>9, <3>1, <4>1, <4>2
    <3>3. CASE ~(o.status >= 400)
      <4>1. badNow = bad /\ Failed(Finished)' = Failed(Finished)
        BY <2>4, <2>7, <3>3
      <4> QED BY <2>9, <3>1, <4>1
    <3> QED BY <3>2, <3>3
  <2> QED BY <2>10, <2>11 DEF TotalsInv
<1> QED BY <1>1, <1>3, <1>4, TelemetrySteps

FailedAt(group, table) == {m \in group : table[m].status >= 400}

LEMMA SnapshotStep ==
  ASSUME BoundaryInv, EarlierInv, SnapshotsInv, [Next]_vars
  PROVE  SnapshotIsCurrent'
<1> SUFFICES ASSUME NEW n \in Handlers, requests'[n].view # None,
                    requests'[n].sent.endpoint = "metrics"
             PROVE  LET self == requests'[n]
                        done == {m \in Handlers \ {n} : requests'[m].pc = "done"}
                    IN /\ self.view.total \in Cardinality(self.before)..Cardinality(done)
                       /\ self.view.errors \in
                            Cardinality(FailedAt(self.before, requests'))
                              ..Cardinality(FailedAt(done, requests'))
  BY DEF SnapshotIsCurrent, Failed, FailedAt
<1> DEFINE r == requests[n]
           q == requests'[n]
           done == Finished \ {n}
           doneNow == {m \in Handlers \ {n} : requests'[m].pc = "done"}
           Failing(group) == FailedAt(group, requests')
<1>1. Shape /\ Staged /\ TotalsInv /\ SnapshotIsCurrent
  BY DEF BoundaryInv, SnapshotsInv
<1>2. r.pc # "new" /\ q.sent = r.sent /\ q.before = r.before
  <2>1. r.pc # "new" => q.sent = r.sent /\ q.before = r.before
    BY <1>1, Settling DEF Settles, Keeps
  <2>2. q.view = r.view \/ Read(n)
    BY ViewComesFromRead
  <2>3. r.pc = "new" => r.view = None
    BY <1>1 DEF Staged, Stage, Identified, NotReceived
  <2> QED BY <2>1, <2>2, <2>3 DEF Read
<1>3. r.before \subseteq done /\ done \subseteq doneNow
  BY FinishedStays DEF EarlierInv, Finished
<1>4. /\ Failed(r.before) = Failing(r.before) /\ Failed(done) = Failing(done)
  BY <1>3, FinishedStays DEF Failed, FailedAt
<1>5. /\ IsFiniteSet(doneNow) /\ IsFiniteSet(done) /\ IsFiniteSet(r.before)
      /\ IsFiniteSet(Failing(doneNow)) /\ IsFiniteSet(Failing(done))
      /\ IsFiniteSet(Failing(r.before))
  <2>1. IsFiniteSet(doneNow)
    BY HandlersAreFinite, FS_Subset
  <2>2. done \subseteq doneNow /\ r.before \subseteq doneNow
    BY <1>3
  <2> HIDE DEF doneNow, done
  <2>3. IsFiniteSet(done) /\ IsFiniteSet(r.before)
    BY <2>1, <2>2, FS_Subset
  <2>4. \A group : Failing(group) \subseteq group
    BY DEF FailedAt
  <2> HIDE DEF Failing
  <2> QED BY <2>1, <2>3, <2>4, FS_Subset
<1>6. /\ Cardinality(r.before) <= Cardinality(done)
      /\ Cardinality(done) <= Cardinality(doneNow)
      /\ Cardinality(Failing(r.before)) <= Cardinality(Failing(done))
      /\ Cardinality(Failing(done)) <= Cardinality(Failing(doneNow))
  <2>1. Failing(r.before) \subseteq Failing(done) /\ Failing(done) \subseteq Failing(doneNow)
    BY <1>3 DEF FailedAt
  <2> HIDE DEF done, doneNow, Failing
  <2> QED BY <1>3, <1>5, <2>1, FS_Subset
<1>7. /\ Cardinality(r.before) \in Nat /\ Cardinality(done) \in Nat
      /\ Cardinality(doneNow) \in Nat /\ Cardinality(Failing(r.before)) \in Nat
      /\ Cardinality(Failing(done)) \in Nat /\ Cardinality(Failing(doneNow)) \in Nat
  BY <1>5, FS_CardinalityType
<1>8. /\ q.view.total \in Cardinality(r.before)..Cardinality(done)
      /\ q.view.errors \in Cardinality(Failing(r.before))..Cardinality(Failing(done))
  <2>1. CASE q.view = r.view
    <3>1. /\ r.view.total \in Cardinality(r.before)..Cardinality(done)
          /\ r.view.errors \in Cardinality(Failed(r.before))..Cardinality(Failed(done))
      <4>1. done = {m \in Handlers \ {n} : requests[m].pc = "done"}
        BY DEF Finished
      <4> QED BY <1>1, <1>2, <2>1, <4>1 DEF SnapshotIsCurrent
    <3> QED BY <1>4, <2>1, <3>1
  <2>2. CASE Read(n)
    <3>1. q.view = Snapshot /\ r.pc = "reading"
      BY <1>1, <1>2, <2>2, ReadTurn DEF Step
    <3>2. done = Finished
      BY <3>1 DEF Finished
    <3>3. q.view.total = Len(telemetry) /\ q.view.errors = Errors(telemetry)
      BY <3>1 DEF Snapshot
    <3>4. q.view.total = Cardinality(done) /\ q.view.errors = Cardinality(Failing(done))
      BY <1>1, <1>4, <3>2, <3>3 DEF TotalsInv
    <3> HIDE DEF done, doneNow, Failing, r, q
    <3> QED BY <1>6, <1>7, <3>4
  <2> QED BY <2>1, <2>2, ViewComesFromRead
<1> HIDE DEF done
<1>9. /\ q.view.total \in Cardinality(r.before)..Cardinality(doneNow)
       /\ q.view.errors \in Cardinality(Failing(r.before))..Cardinality(Failing(doneNow))
  <2> HIDE DEF doneNow, r, q, Failing
  <2> QED BY <1>6, <1>7, <1>8
<1> QED BY <1>2, <1>9

LEMMA SnapshotsAlways == Spec => [](BoundaryInv /\ EarlierInv /\ SnapshotsInv)
<1>1. Init => EarlierInv /\ SnapshotsInv
  <2> SUFFICES ASSUME Init PROVE EarlierInv /\ SnapshotsInv
    OBVIOUS
  <2>1. /\ \A n \in Handlers : requests[n] = NotReceived
        /\ telemetry = <<>> /\ Len(telemetry) = 0 /\ DOMAIN telemetry = {}
    BY DEF Init
  <2>2. Finished = {} /\ Failed(Finished) = {}
    BY <2>1 DEF Finished, Failed, NotReceived
  <2>3. {i \in DOMAIN telemetry : telemetry[i].status >= 400} = {}
    BY <2>1
  <2>4. TotalsInv
    BY <2>1, <2>2, <2>3, FS_EmptySet DEF TotalsInv, Errors
  <2>5. EarlierInv /\ SnapshotIsCurrent
    BY <2>1 DEF EarlierInv, SnapshotIsCurrent, NotReceived
  <2> QED BY <2>4, <2>5 DEF SnapshotsInv
<1>2. BoundaryInv /\ EarlierInv /\ SnapshotsInv /\ [Next]_vars => EarlierInv' /\ SnapshotsInv'
  BY EarlierStep, TotalsStep, SnapshotStep DEF SnapshotsInv
<1> QED BY <1>1, <1>2, BoundaryAlways, PTL DEF Spec

(* operational_metrics: the totals count every request answered before the *)
(* reader's arrived, in whatever order they were observed, and never the   *)
(* reader's own or an unanswered one.                                      *)
THEOREM SnapshotsAreCurrent == Spec => []SnapshotIsCurrent
  BY SnapshotsAlways, PTL DEF SnapshotsInv

-----------------------------------------------------------------------------
(* The audit view.  It holds the newest events of a prefix of the trail,   *)
(* and no event of the reader or of an earlier request was written later:  *)
(* those requests have left their endpoints.                               *)

Newest(limit) == (IF limit > AuditLimit THEN limit - AuditLimit + 1 ELSE 1)..limit

Elements(view) == {view[k] : k \in DOMAIN view}

ShowsPrefix(n, limit) ==
  /\ Elements(requests[n].view) = {audit[j] : j \in Newest(limit)}
  /\ \A i \in DOMAIN audit :
       audit[i].request \in requests[n].before \cup {n} => i <= limit

AuditViewInv ==
  \A n \in Handlers :
    requests[n].view # None /\ requests[n].sent.endpoint = "audit" =>
      \E limit \in 0..Len(audit) : ShowsPrefix(n, limit)

LEMMA LastElements ==
  ASSUME NEW S, NEW s \in Seq(S)
  PROVE  Elements(LastOf(s, AuditLimit)) = {s[j] : j \in Newest(Len(s))}
<1>1. AuditLimit \in Nat \ {0}
  BY BoundaryAssumption
<1> DEFINE len == Len(s)
           first == IF len > AuditLimit THEN len - AuditLimit + 1 ELSE 1
           last == LastOf(s, AuditLimit)
<1>2. len \in Nat /\ \A i \in 1..len : s[i] \in S
  OBVIOUS
<1>3. first \in 1..len+1 /\ first \in Int /\ len \in Int
  BY <1>1, <1>2
<1>4. last = SubSeq(s, first, len) /\ Newest(len) = first..len
  BY DEF LastOf, Newest
<1> HIDE DEF first, len, last
<1>5. /\ last \in Seq(S) /\ Len(last) = len - first + 1
      /\ \A i \in 1..len - first + 1 : last[i] = s[first + i - 1]
  <2>1. \A i \in first..len : s[i] \in S
    BY <1>2, <1>3
  <2>2. /\ last \in Seq(S)
        /\ Len(last) = IF first <= len THEN len - first + 1 ELSE 0
        /\ \A i \in 1..len - first + 1 : last[i] = s[first + i - 1]
    BY <1>3, <1>4, <2>1, SubSeqProperties
  <2> QED BY <1>3, <2>2
<1>6. DOMAIN last = 1..len - first + 1
  BY <1>5
<1>7. ASSUME NEW k \in DOMAIN last PROVE \E j \in first..len : last[k] = s[j]
  <2>1. first + k - 1 \in first..len
    BY <1>3, <1>6
  <2> QED BY <1>5, <1>6, <2>1
<1>8. ASSUME NEW j \in first..len PROVE \E k \in DOMAIN last : last[k] = s[j]
  <2>1. j - first + 1 \in 1..len - first + 1 /\ first + (j - first + 1) - 1 = j
    BY <1>3
  <2> QED BY <1>5, <1>6, <2>1
<1>9. Elements(last) = {s[j] : j \in first..len}
  BY <1>7, <1>8 DEF Elements
<1> QED BY <1>4, <1>9 DEF last, len

LEMMA AuditViewStep ==
  ASSUME BoundaryInv, EarlierInv, AuditViewInv, [Next]_vars
  PROVE  AuditViewInv'
<1> SUFFICES ASSUME NEW n \in Handlers, requests'[n].view # None,
                    requests'[n].sent.endpoint = "audit"
             PROVE  \E limit \in 0..Len(audit') : ShowsPrefix(n, limit)'
  BY DEF AuditViewInv
<1> DEFINE r == requests[n]
           q == requests'[n]
<1>1. Shape /\ Staged /\ audit \in Seq(Event)
  BY DEF BoundaryInv, Logged
<1>2. r.pc # "new" /\ q.sent = r.sent /\ q.before = r.before
  <2>1. r.pc # "new" => q.sent = r.sent /\ q.before = r.before
    BY <1>1, Settling DEF Settles, Keeps
  <2>2. q.view = r.view \/ Read(n)
    BY ViewComesFromRead
  <2>3. r.pc = "new" => r.view = None
    BY <1>1 DEF Staged, Stage, Identified, NotReceived
  <2> QED BY <2>1, <2>2, <2>3 DEF Read
<1>3. CASE Read(n)
  <2>1. UNCHANGED audit
    BY <1>3 DEF Read
  <2>2. q.view = LastOf(audit, AuditLimit)
    BY <1>1, <1>2, <1>3, ReadTurn DEF Step, AuditEvents
  <2>3. Elements(q.view) = {audit[j] : j \in Newest(Len(audit))}
    BY <1>1, <2>2, LastElements
  <2>4. Len(audit) \in 0..Len(audit) /\ \A i \in DOMAIN audit : i <= Len(audit)
    BY <1>1
  <2>5. ShowsPrefix(n, Len(audit))'
    BY <2>1, <2>3, <2>4 DEF ShowsPrefix
  <2> QED BY <2>1, <2>4, <2>5
<1>4. CASE q.view = r.view
  <2>1. PICK limit \in 0..Len(audit) : ShowsPrefix(n, limit)
    BY <1>2, <1>4 DEF AuditViewInv
  <2>2. r.pc \in {"answered", "done"}
    BY <1>1, <1>4 DEF Staged, Stage, Progress
  <2>3. CASE UNCHANGED audit
    <3>1. ShowsPrefix(n, limit)'
      BY <1>2, <1>4, <2>1, <2>3 DEF ShowsPrefix
    <3> QED BY <2>3, <3>1
  <2>4. ASSUME NEW m \in Handlers, NEW outcome, Audits(m, outcome)
        PROVE  \E l \in 0..Len(audit') : ShowsPrefix(n, l)'
    <3> DEFINE e == EventOf(m, outcome)
               k == Len(audit) + 1
    <3>1. e.request = m /\ audit' = Append(audit, e) /\ requests[m].pc = "endpoint"
      BY <2>4 DEF Audits, EventOf
    <3>2. m \notin r.before \cup {n}
      BY <2>2, <3>1 DEF EarlierInv, Finished
    <3> HIDE DEF e
    <3>3. /\ DOMAIN audit' = DOMAIN audit \cup {k} /\ audit'[k] = e
          /\ \A i \in DOMAIN audit : audit'[i] = audit[i]
          /\ limit \in 0..Len(audit') /\ DOMAIN audit = 1..Len(audit)
          /\ Len(audit) \in Nat
      BY <1>1, <3>1
    <3>4. Newest(limit) \subseteq DOMAIN audit
      BY <3>3, BoundaryAssumption DEF Newest
    <3>5. {audit'[j] : j \in Newest(limit)} = {audit[j] : j \in Newest(limit)}
      BY <3>3, <3>4
    <3>6. \A i \in DOMAIN audit' : audit'[i].request \in r.before \cup {n} => i <= limit
      BY <2>1, <3>1, <3>2, <3>3 DEF ShowsPrefix
    <3>7. ShowsPrefix(n, limit)'
      BY <1>2, <1>4, <2>1, <3>5, <3>6 DEF ShowsPrefix
    <3> QED BY <3>3, <3>7
  <2> QED BY <1>1, <2>3, <2>4, AuditSteps
<1> QED BY <1>3, <1>4, ViewComesFromRead

(* The newest events of a full view are AuditLimit different ones.         *)
LEMMA FullView ==
  ASSUME Sourced, audit \in Seq(Event), NEW limit \in 0..Len(audit), limit > AuditLimit
  PROVE  Cardinality({audit[j] : j \in Newest(limit)}) = AuditLimit
<1>1. AuditLimit \in Nat \ {0} /\ Len(audit) \in Nat
  BY BoundaryAssumption
<1> DEFINE shown == {audit[j] : j \in Newest(limit)}
           before == limit - AuditLimit
           f == [i \in 1..AuditLimit |-> audit[before + i]]
<1>2. /\ Newest(limit) = before + 1..limit /\ limit \in Nat /\ before \in Nat
      /\ limit = before + AuditLimit /\ limit <= Len(audit)
  BY <1>1 DEF Newest
<1> HIDE DEF before
<1>3. \A i \in 1..AuditLimit : before + i \in DOMAIN audit /\ before + i \in Newest(limit)
  BY <1>1, <1>2
<1>4. \A i \in 1..AuditLimit : f[i] = audit[before + i] /\ f[i] \in shown
  BY <1>3
<1>5. ASSUME NEW i \in 1..AuditLimit, NEW j \in 1..AuditLimit, f[i] = f[j]
      PROVE  i = j
  <2>1. before + i = before + j
    BY <1>3, <1>4, <1>5 DEF Sourced
  <2> QED BY <1>1, <1>2, <2>1
<1>6. ASSUME NEW x \in shown PROVE \E i \in 1..AuditLimit : f[i] = x
  <2>1. PICK j \in Newest(limit) : x = audit[j]
    BY <1>6
  <2>2. j - before \in 1..AuditLimit /\ before + (j - before) = j
    BY <1>1, <1>2
  <2> QED BY <1>4, <2>1, <2>2
<1>7. f \in [1..AuditLimit -> shown]
  BY <1>4
<1> HIDE DEF f, shown
<1>8. f \in Bijection(1..AuditLimit, shown)
  BY <1>5, <1>6, <1>7 DEF Bijection, Injection, IsInjective, Surjection
<1>9. ExistsBijection(1..AuditLimit, shown)
  BY <1>8 DEF ExistsBijection
<1>10. Cardinality(shown) = AuditLimit
  BY <1>1, <1>9, FS_CountingElements
<1> QED BY <1>10 DEF shown

(* audit_events: the view holds the event of the reader's own access and   *)
(* every event of an earlier request, but for those that AuditLimit later  *)
(* events push out.                                                        *)
THEOREM AuditViewsAreCurrent == Spec => []AuditViewIsCurrent
<1>1. BoundaryInv /\ Sourced /\ AuditViewInv => AuditViewIsCurrent
  <2> SUFFICES ASSUME BoundaryInv, Sourced, AuditViewInv, NEW n \in Handlers,
                      requests[n].view # None, requests[n].sent.endpoint = "audit",
                      NEW i \in DOMAIN audit,
                      audit[i].request \in requests[n].before \cup {n},
                      audit[i] \notin Elements(requests[n].view)
               PROVE  /\ Cardinality(Elements(requests[n].view)) = AuditLimit
                      /\ \A j \in DOMAIN audit :
                           audit[j] \in Elements(requests[n].view) => j > i
    BY DEF AuditViewIsCurrent, Elements
  <2>1. audit \in Seq(Event) /\ AuditLimit \in Nat \ {0}
    BY BoundaryAssumption DEF BoundaryInv, Logged
  <2>2. PICK limit \in 0..Len(audit) : ShowsPrefix(n, limit)
    BY DEF AuditViewInv
  <2>3. Elements(requests[n].view) = {audit[j] : j \in Newest(limit)} /\ i <= limit
    BY <2>2 DEF ShowsPrefix
  <2>4. i \notin Newest(limit) /\ i \in 1..Len(audit) /\ Len(audit) \in Nat
    BY <2>1, <2>3
  <2>5. limit > AuditLimit /\ i < limit - AuditLimit + 1
    BY <2>1, <2>3, <2>4 DEF Newest
  <2>6. ASSUME NEW j \in DOMAIN audit, audit[j] \in Elements(requests[n].view)
        PROVE  j > i
    <3>1. PICK k \in Newest(limit) : audit[j] = audit[k]
      BY <2>3, <2>6
    <3>2. k \in DOMAIN audit /\ k > i
      BY <2>1, <2>4, <2>5 DEF Newest
    <3>3. j = k
      BY <3>1, <3>2 DEF Sourced
    <3> QED BY <3>2, <3>3
  <2> QED BY <2>1, <2>3, <2>5, <2>6, FullView
<1>2. Init => AuditViewInv
  BY DEF Init, NotReceived, AuditViewInv
<1>3. BoundaryInv /\ EarlierInv /\ AuditViewInv /\ [Next]_vars => AuditViewInv'
  BY AuditViewStep
<1> QED BY <1>1, <1>2, <1>3, SnapshotsAlways, SourcedAlways, PTL DEF Spec

=============================================================================
