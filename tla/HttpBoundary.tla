---------------------------- MODULE HttpBoundary ----------------------------
(***************************************************************************)
(* The HTTP boundary: the middleware, dependencies, error handlers and     *)
(* endpoints of main.py with security.py, the telemetry of operational.py  *)
(* and the audit sink of adapters.py.  Requests are served concurrently;   *)
(* a step of a request here is the next access to shared state (limiter,   *)
(* audit sink, telemetry) with the local code around it.                   *)
(*                                                                         *)
(* The application service is seen as the boundary sees it: a call records *)
(* audit events while it works, and returns or raises.  The framework's    *)
(* order (body parsing, dependencies from left to right, validation of     *)
(* values, endpoint) is external and named in Refusal.                     *)
(***************************************************************************)
EXTENDS ApplicationErrors, Naturals, Sequences, FiniteSets

CONSTANTS
  Subjects, Roles,   \* verified principals and their roles
  Limit, WindowSeconds, MaxTime, MaxAdmitted, None,   \* as in RateLimiter
  Sent,              \* what clients may send
  SentIds,           \* well-formed correlation ids of clients
  Unavailable,       \* the id of a request with a malformed one
  ServiceErrors,     \* bound: the errors the service raises in this model
  RecentLimit,       \* recent_limit of a telemetry snapshot
  AuditLimit,        \* the limit a reader of the audit events asks for
  MaxRequests        \* bound: requests received

Handlers  == 1..MaxRequests
Mutations == {"create", "plan", "approval", "process"}
Endpoints == Mutations \cup {"health", "session", "workflow", "metrics", "audit"}
HasBody   == {"create", "approval"}

RequestShape ==
  [endpoint : Endpoints \cup {"<unmatched>"}, correlation : SentIds \cup {None, "bad"},
   credential : Subjects \cup {None}, key : {"good", "bad"},
   body : {"good", "invalid", "unparsable"}]

ASSUME BoundaryAssumption ==
  /\ Sent \subseteq RequestShape
  /\ ServiceErrors \subseteq DOMAIN StatusOf
  /\ Roles \in [Subjects -> SUBSET {"requester", "reviewer", "operator", "administrator"}]
  /\ Limit \in Nat \ {0} /\ WindowSeconds \in Nat \ {0}
  /\ MaxTime \in Nat /\ MaxAdmitted \in Nat
  /\ None \notin Subjects \cup Nat \cup [started : Nat, requests : Nat]
  /\ RecentLimit \in Nat \ {0} /\ AuditLimit \in Nat \ {0} /\ MaxRequests \in Nat
  /\ Unavailable # None /\ {None, Unavailable} \cap (SentIds \cup Handlers) = {}
  /\ SentIds \cap Handlers = {} /\ "bad" \notin SentIds \cup {None}

VARIABLES
  requests,    \* each request received: what was sent and what became of it
  audit,       \* audit sink (`request' is a history field)
  telemetry,   \* observations (`request' is a history field)
  windows, calls, clock, admitted   \* rate limiter

limiter == <<windows, calls, clock, admitted>>
vars    == <<requests, audit, telemetry, limiter>>

Limiter == INSTANCE RateLimiter WITH Threads <- Handlers

(* `before' is a history field: the requests answered before this arrived. *)
NotReceived ==
  [pc |-> "new", sent |-> None, id |-> None, route |-> None, status |-> 0,
   served |-> FALSE, view |-> None, before |-> {}]

Init ==
  /\ requests = [n \in Handlers |-> NotReceived]
  /\ audit = <<>> /\ telemetry = <<>>
  /\ Limiter!Init

Becomes(n, state) == requests' = [requests EXCEPT ![n] = state]

Answered(state, status) == [state EXCEPT !.pc = "answered", !.status = status]

-----------------------------------------------------------------------------
(* The middleware: a well-formed correlation id is kept, a missing one is  *)
(* drawn (the request's number stands for the uuid), a malformed one ends  *)
(* the request before any route is looked up.                              *)
CorrelationOf(sent, n) ==
  CASE sent.correlation = None       -> n
    [] sent.correlation \in SentIds  -> sent.correlation
    [] OTHER                         -> Unavailable

(* LocalIdentityProvider.verify knows the subject of a credential, or not. *)
IsAuthenticated(sent) == sent.credential # None

(* Mutant: the key is not looked at until after the limiter.               *)
RefusalUnkeyed(sent) ==
  IF sent.endpoint = "<unmatched>" THEN 404
  ELSE IF sent.endpoint \in HasBody /\ sent.body = "unparsable" THEN 422
  ELSE IF sent.endpoint # "health" /\ ~IsAuthenticated(sent) THEN 401
  ELSE None

(* The first refusal before any shared state is looked at: no route, a     *)
(* body that does not parse, authenticated_principal, idempotency_key, the *)
(* limit asked of the audit events.                                        *)
Refusal(sent) ==
  IF sent.endpoint = "<unmatched>" THEN 404
  ELSE IF sent.endpoint \in HasBody /\ sent.body = "unparsable" THEN 422
  ELSE IF sent.endpoint # "health" /\ ~IsAuthenticated(sent)
    THEN StatusOf["AuthenticationRequired"]
  ELSE IF sent.endpoint \in Mutations /\ sent.key = "bad"
    THEN StatusOf["InvalidRequestMetadata"]
  ELSE IF sent.endpoint = "audit" /\ sent.body = "invalid" THEN 422
  ELSE None

(* Where a request stands before it first touches shared state.            *)
Dispatch(state) ==
  LET endpoint == state.sent.endpoint
      refusal  == Refusal(state.sent)
  IN IF refusal # None THEN Answered(state, refusal)
     ELSE IF endpoint \in {"health", "session"} THEN Answered(state, 200)
     ELSE [state EXCEPT !.pc = IF endpoint \in Mutations THEN "metered" ELSE "endpoint"]

(* Mutant: a malformed id is answered without being observed.              *)
RejectUnobserved(state) == [state EXCEPT !.pc = "done", !.status = 400, !.route = "<rejected>"]

Reject(state) == Answered([state EXCEPT !.route = "<rejected>"], 400)

Receive(n) ==
  /\ requests[n] = NotReceived /\ \A m \in 1..n-1 : requests[m].pc # "new"
  /\ \E sent \in Sent :
       LET id    == CorrelationOf(sent, n)
           state == [NotReceived EXCEPT !.sent = sent, !.id = id,
                       !.before = {m \in Handlers : requests[m].pc = "done"}]
       IN Becomes(n, IF id = Unavailable
                       THEN Reject(state)
                       ELSE Dispatch([state EXCEPT !.route = sent.endpoint]))
  /\ UNCHANGED <<audit, telemetry, limiter>>

(* enforce_mutation_rate_limit: allow(principal.subject).                  *)
AskLimiter(n) ==
  /\ requests[n].pc = "metered"
  /\ Limiter!ReadClock(n) /\ calls'[n].subject = requests[n].sent.credential
  /\ Becomes(n, [requests[n] EXCEPT !.pc = "limiting"])
  /\ UNCHANGED <<audit, telemetry>>

Limiting(n) ==
  /\ Limiter!OpenWindow(n) \/ Limiter!CountRequest(n) \/ Limiter!Deny(n)
  /\ UNCHANGED <<requests, audit, telemetry>>

(* A body that parses but does not fit the contract is refused only now,   *)
(* after the share is spent.                                               *)
LeaveLimiter(n) ==
  LET self == requests[n]
  IN /\ self.pc = "limiting"
     /\ Limiter!Return(n)
     /\ Becomes(n, CASE calls[n].pc = "denied" ->
                          Answered(self, StatusOf["RequestRateExceeded"])
                     [] calls[n].pc = "allowed" /\ self.sent.endpoint \in HasBody
                          /\ self.sent.body = "invalid" -> Answered(self, 422)
                     [] OTHER -> [self EXCEPT !.pc = "endpoint"])
     /\ UNCHANGED <<audit, telemetry>>

-----------------------------------------------------------------------------
(* Endpoints.                                                              *)

(* Mutant: the endpoint draws an id of its own for a client that sent none.*)
OwnId(n) == IF requests[n].sent.correlation = None THEN MaxRequests + n ELSE requests[n].id

(* The correlation_id dependency: what the middleware left on the request. *)
EndpointId(n) == requests[n].id

(* The sink numbers its events.                                            *)
Record(n, action, outcome) ==
  audit' = Append(audit, [event |-> Len(audit) + 1, request |-> n,
                          action |-> action, outcome |-> outcome,
                          subject |-> requests[n].sent.credential,
                          correlation |-> EndpointId(n)])

IsServiceCall(n) ==
  requests[n].pc = "endpoint" /\ requests[n].sent.endpoint \in Mutations \cup {"workflow"}

(* create, plan and process-next record what policy says and later what    *)
(* became of the operation.                                                *)
MostEvents(endpoint) == IF endpoint \in {"create", "plan", "process"} THEN 2 ELSE 1

(* One record of a service call: other requests act before and after it.   *)
ServiceAudit(n) ==
  /\ IsServiceCall(n)
  /\ Cardinality({i \in DOMAIN audit : audit[i].request = n})
       < MostEvents(requests[n].sent.endpoint)
  /\ Record(n, requests[n].sent.endpoint, "service")
  /\ UNCHANGED <<requests, telemetry, limiter>>

(* Mutant: a created workflow is answered with 201.                        *)
SuccessCreated(endpoint) == IF endpoint = "create" THEN 201 ELSE 200

Success(endpoint) == IF endpoint = "create" THEN 202 ELSE 200

(* The service ends; handle_application_error gives an error its status.   *)
CallService(n) ==
  LET self == [requests[n] EXCEPT !.served = TRUE]
  IN /\ IsServiceCall(n)
     /\ \/ Becomes(n, Answered(self, Success(self.sent.endpoint)))
        \/ \E error \in ErrorsOf[self.sent.endpoint] \cap ServiceErrors :
             Becomes(n, Answered(self, StatusOf[error]))
     /\ UNCHANGED <<audit, telemetry, limiter>>

(* An exception that is no application error passes through the            *)
(* middleware: the server answers 500 and nothing is observed.             *)
Crash(n) ==
  /\ IsServiceCall(n)
  /\ Becomes(n, [requests[n] EXCEPT !.served = TRUE, !.pc = "crashed", !.status = 500])
  /\ UNCHANGED <<audit, telemetry, limiter>>

Readers(endpoint) ==
  IF endpoint = "metrics" THEN {"operator", "administrator"} ELSE {"administrator"}

(* Mutant: only a denied read is audited.                                  *)
AuditDenial(n, may) == IF may THEN UNCHANGED audit ELSE Record(n, requests[n].sent.endpoint, "denied")

AuditRead(n, may) ==
  Record(n, requests[n].sent.endpoint, IF may THEN "allowed" ELSE "denied")

(* operational_metrics and audit_events record the read before it happens. *)
BeginRead(n) ==
  LET self == requests[n]
      may  == Roles[self.sent.credential] \cap Readers(self.sent.endpoint) # {}
  IN /\ self.pc = "endpoint" /\ self.sent.endpoint \in {"metrics", "audit"}
     /\ AuditRead(n, may)
     /\ Becomes(n, IF may THEN [self EXCEPT !.pc = "reading"]
                          ELSE Answered(self, StatusOf["PermissionDenied"]))
     /\ UNCHANGED <<telemetry, limiter>>

LastOf(s, limit) == SubSeq(s, IF Len(s) > limit THEN Len(s) - limit + 1 ELSE 1, Len(s))

Errors(s) == Cardinality({i \in DOMAIN s : s[i].status >= 400})

(* Mutant: totals over the recent requests only.                           *)
SnapshotOfRecent ==
  LET recent == LastOf(telemetry, RecentLimit)
  IN [total |-> Len(recent), errors |-> Errors(recent), recent |-> recent]

Snapshot ==
  [total  |-> Len(telemetry), errors |-> Errors(telemetry),
   recent |-> LastOf(telemetry, RecentLimit)]

(* Mutant: the oldest events.                                              *)
OldestEvents == SubSeq(audit, 1, IF Len(audit) > AuditLimit THEN AuditLimit ELSE Len(audit))

AuditEvents == LastOf(audit, AuditLimit)

Read(n) ==
  LET self == requests[n]
      seen == IF self.sent.endpoint = "metrics" THEN Snapshot ELSE AuditEvents
  IN /\ self.pc = "reading"
     /\ Becomes(n, Answered([self EXCEPT !.view = seen], 200))
     /\ UNCHANGED <<audit, telemetry, limiter>>

ObservationOf(n) ==
  [request |-> n, route |-> requests[n].route, status |-> requests[n].status,
   correlation |-> requests[n].id]

(* The middleware observes the response, then sends it with the id.        *)
Observe(n) ==
  /\ requests[n].pc = "answered"
  /\ telemetry' = Append(telemetry, ObservationOf(n))
  /\ Becomes(n, [requests[n] EXCEPT !.pc = "done"])
  /\ UNCHANGED <<audit, limiter>>

Tick == Limiter!Tick /\ UNCHANGED <<requests, audit, telemetry>>

Next ==
  \/ Tick
  \/ \E n \in Handlers :
       \/ Receive(n) \/ AskLimiter(n) \/ Limiting(n) \/ LeaveLimiter(n)
       \/ ServiceAudit(n) \/ CallService(n) \/ Crash(n) \/ BeginRead(n) \/ Read(n) \/ Observe(n)

Spec == Init /\ [][Next]_vars

=============================================================================
