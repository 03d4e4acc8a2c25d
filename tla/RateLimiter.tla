----------------------------- MODULE RateLimiter -----------------------------
(***************************************************************************)
(* InMemoryRateLimiter (operational.py): a fixed window for each verified  *)
(* principal, asked by every mutable endpoint.  A call reads the clock     *)
(* before it takes the lock, so the reading may be old when the window is  *)
(* looked at, and calls may reach the window in another order than that of *)
(* their readings.                                                         *)
(*                                                                         *)
(* `admitted' is a history variable: the code keeps only the last window.  *)
(***************************************************************************)
EXTENDS Naturals, Sequences, FiniteSets

CONSTANTS
  Subjects,       \* verified principals
  Threads,        \* handlers that may run at the same time
  Limit,          \* admitted requests per window (at least 1 in config.py)
  WindowSeconds,  \* length of a window (at least 1 in config.py)
  MaxTime,        \* bound: the clock stops here
  MaxAdmitted,    \* bound: admissions of one subject
  None

ASSUME LimiterAssumption ==
  /\ Limit \in Nat \ {0} /\ WindowSeconds \in Nat \ {0}
  /\ MaxTime \in Nat /\ MaxAdmitted \in Nat
  /\ None \notin Subjects /\ None \notin [started : Nat, requests : Nat]

VARIABLES
  windows,   \* the present window of each subject
  calls,     \* the local variables of each handler in allow()
  clock,     \* time.monotonic()
  admitted   \* history: when each admitted call read the clock and the lock

vars == <<windows, calls, clock, admitted>>

Window == [started : Nat, requests : Nat]
Idle   == [pc |-> "idle", subject |-> None, now |-> 0]

Init ==
  /\ windows  = [s \in Subjects |-> None]
  /\ calls    = [t \in Threads |-> Idle]
  /\ clock    = 0
  /\ admitted = [s \in Subjects |-> <<>>]

(* now = self._clock(), outside the lock.                                  *)
ReadClock(t) ==
  /\ calls[t].pc = "idle"
  /\ \E s \in Subjects :
       calls' = [calls EXCEPT ![t] = [pc |-> "waiting", subject |-> s, now |-> clock]]
  /\ UNCHANGED <<windows, clock, admitted>>

(* Mutant: all principals share one window.                                *)
SharedWindow(s) ==
  IF \E x \in Subjects : windows[x] # None
    THEN windows[CHOOSE x \in Subjects : windows[x] # None]
    ELSE None

WindowOf(s) == windows[s]

(* now - started >= window_seconds; a reading older than the window is not *)
(* a new window.                                                           *)
Ended(w, now) == now >= w.started + WindowSeconds

(* Mutant: one request too many.                                           *)
IsOver(w) == w.requests > Limit
IsFull(w) == w.requests >= Limit

Admit(t, window) ==
  LET s == calls[t].subject
  IN /\ Len(admitted[s]) < MaxAdmitted
     /\ windows'  = [windows EXCEPT ![s] = window]
     /\ calls'    = [calls EXCEPT ![t].pc = "allowed"]
     /\ admitted' = [admitted EXCEPT ![s] =
                       Append(@, [read |-> calls[t].now, at |-> clock])]

(* The critical section of allow().                                        *)
OpenWindow(t) ==
  LET self == calls[t]
      w    == WindowOf(self.subject)
  IN /\ self.pc = "waiting"
     /\ w = None \/ (w # None /\ Ended(w, self.now))
     /\ Admit(t, [started |-> self.now, requests |-> 1])
     /\ UNCHANGED clock

CountRequest(t) ==
  LET self == calls[t]
      w    == WindowOf(self.subject)
  IN /\ self.pc = "waiting"
     /\ w # None /\ ~Ended(w, self.now) /\ ~IsFull(w)
     /\ Admit(t, [w EXCEPT !.requests = @ + 1])
     /\ UNCHANGED clock

Deny(t) ==
  LET self == calls[t]
      w    == WindowOf(self.subject)
  IN /\ self.pc = "waiting"
     /\ w # None /\ ~Ended(w, self.now) /\ IsFull(w)
     /\ calls' = [calls EXCEPT ![t].pc = "denied"]
     /\ UNCHANGED <<windows, clock, admitted>>

(* enforce_mutation_rate_limit goes on to the endpoint or raises (429).    *)
Return(t) ==
  /\ calls[t].pc \in {"allowed", "denied"}
  /\ calls' = [calls EXCEPT ![t] = Idle]
  /\ UNCHANGED <<windows, clock, admitted>>

Tick ==
  /\ clock < MaxTime
  /\ clock' = clock + 1
  /\ UNCHANGED <<windows, calls, admitted>>

Next ==
  \/ Tick
  \/ \E t \in Threads :
       ReadClock(t) \/ OpenWindow(t) \/ CountRequest(t) \/ Deny(t) \/ Return(t)

Spec == Init /\ [][Next]_vars

-----------------------------------------------------------------------------
(* Every variable holds a value of its type; no clock reading comes from   *)
(* the future, and a window is opened by a reading.                        *)
TypeOK ==
  /\ clock \in Nat
  /\ calls \in [Threads -> [pc : {"idle", "waiting", "allowed", "denied"},
                            subject : Subjects \cup {None}, now : 0..clock]]
  /\ windows \in [Subjects -> [started : 0..clock, requests : 1..Limit] \cup {None}]
  /\ admitted \in [Subjects -> Seq([read : 0..clock, at : 0..clock])]

Admissions(s, From(_)) == Cardinality({i \in DOMAIN admitted[s] : From(admitted[s][i])})

(* AC6-006: whatever the windows' boundaries and however late the calls    *)
(* reach the lock, a principal gets at most 2 * Limit - 1 calls through    *)
(* that both began and were admitted in one stretch of a window's length.  *)
BurstIsBounded ==
  \A s \in Subjects, start \in 0..clock :
    LET Within(a) == a.read >= start /\ a.at < start + WindowSeconds
    IN Admissions(s, Within) <= 2 * Limit - 1

(* A principal is refused only after Limit admissions of its own later     *)
(* than a window's length before the refused call read the clock: other    *)
(* principals, older windows and late calls never use up its share.        *)
DenialIsEarned ==
  \A t \in Threads :
    calls[t].pc = "denied" =>
      LET Recent(a) == a.at + WindowSeconds > calls[t].now
      IN Admissions(calls[t].subject, Recent) >= Limit

=============================================================================
