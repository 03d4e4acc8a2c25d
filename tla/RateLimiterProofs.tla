-------------------------- MODULE RateLimiterProofs --------------------------
(***************************************************************************)
(* Theorems about the rate limiter for any limit, any window, any number   *)
(* of principals and handlers, and however old a clock reading is when it  *)
(* reaches the lock.                                                       *)
(***************************************************************************)
EXTENDS RateLimiter, TLAPS, FiniteSetTheorems, SequenceTheorems

-----------------------------------------------------------------------------
(* Types.  TypeOK is not inductive by itself: a handler past its clock     *)
(* reading has a principal.                                                *)

Asking == \A t \in Threads : calls[t].pc # "idle" => calls[t].subject \in Subjects

LimiterInv == TypeOK /\ Asking

Call == [pc : {"idle", "waiting", "allowed", "denied"},
         subject : Subjects \cup {None}, now : 0..clock]
Admission == [read : 0..clock, at : 0..clock]

LEMMA AdmitType ==
  ASSUME LimiterInv, NEW t \in Threads, calls[t].pc = "waiting",
         NEW w \in [started : 0..clock, requests : 1..Limit], Admit(t, w),
         UNCHANGED clock
  PROVE  LimiterInv'
<1> DEFINE self == calls[t]
           s == self.subject
           a == [read |-> self.now, at |-> clock]
<1>1. /\ s \in Subjects /\ self \in Call /\ clock \in Nat
      /\ calls \in [Threads -> Call]
  BY DEF LimiterInv, TypeOK, Asking, Call
<1>2. a \in Admission /\ [self EXCEPT !.pc = "allowed"] \in Call
  BY <1>1 DEF Call, Admission
<1>3. calls' \in [Threads -> Call]
  BY <1>1, <1>2 DEF Admit
<1>4. windows' \in [Subjects -> [started : 0..clock, requests : 1..Limit] \cup {None}]
  BY <1>1 DEF Admit, LimiterInv, TypeOK
<1>5. admitted' \in [Subjects -> Seq(Admission)]
  <2>1. admitted \in [Subjects -> Seq(Admission)]
    BY DEF LimiterInv, TypeOK, Admission
  <2>2. Append(admitted[s], a) \in Seq(Admission)
    BY <1>1, <1>2, <2>1
  <2> QED BY <1>1, <2>1, <2>2 DEF Admit
<1>6. Asking'
  BY <1>1 DEF Admit, LimiterInv, Asking, Call
<1> QED BY <1>1, <1>3, <1>4, <1>5, <1>6 DEF LimiterInv, TypeOK, Call, Admission

LEMMA LimiterStep == LimiterInv /\ [Next]_vars => LimiterInv'
<1> SUFFICES ASSUME LimiterInv, [Next]_vars PROVE LimiterInv'
  OBVIOUS
<1>1. CASE UNCHANGED vars
  BY <1>1 DEF vars, LimiterInv, TypeOK, Asking
<1>2. CASE Tick
  <2>1. clock \in Nat /\ clock' = clock + 1 /\ UNCHANGED <<windows, calls, admitted>>
    BY <1>2 DEF Tick, LimiterInv, TypeOK
  <2>2. clock' \in Nat /\ 0..clock \subseteq 0..clock'
    BY <2>1
  <2>3. calls' \in [Threads -> [pc : {"idle", "waiting", "allowed", "denied"},
                                subject : Subjects \cup {None}, now : 0..clock']]
    <3>1. ASSUME NEW t \in Threads
          PROVE  calls[t] \in [pc : {"idle", "waiting", "allowed", "denied"},
                               subject : Subjects \cup {None}, now : 0..clock']
      BY <2>2 DEF LimiterInv, TypeOK
    <3> QED BY <2>1, <3>1 DEF LimiterInv, TypeOK
  <2>4. windows' \in [Subjects -> [started : 0..clock', requests : 1..Limit]
                                    \cup {None}]
    <3>1. ASSUME NEW s \in Subjects, windows[s] # None
          PROVE  windows[s] \in [started : 0..clock', requests : 1..Limit]
      BY <2>2, <3>1 DEF LimiterInv, TypeOK
    <3> QED BY <2>1, <3>1 DEF LimiterInv, TypeOK
  <2>5. admitted' \in [Subjects -> Seq([read : 0..clock', at : 0..clock'])]
    <3>1. ASSUME NEW s \in Subjects
          PROVE  admitted[s] \in Seq([read : 0..clock', at : 0..clock'])
      <4>1. admitted[s] \in Seq([read : 0..clock, at : 0..clock])
        BY DEF LimiterInv, TypeOK
      <4>2. [read : 0..clock, at : 0..clock] \subseteq [read : 0..clock', at : 0..clock']
        BY <2>2
      <4> QED BY <4>1, <4>2, SeqMonotonic
    <3> QED BY <2>1, <3>1 DEF LimiterInv, TypeOK
  <2> QED BY <2>1, <2>2, <2>3, <2>4, <2>5 DEF LimiterInv, TypeOK, Asking
<1>3. ASSUME NEW t \in Threads, ReadClock(t) \/ Return(t) \/ Deny(t)
      PROVE  LimiterInv'
  <2>1. clock \in Nat /\ UNCHANGED <<windows, clock, admitted>>
    BY <1>3 DEF ReadClock, Return, Deny, LimiterInv, TypeOK
  <2>2. calls' \in [Threads -> Call] /\ Asking'
    <3>1. calls \in [Threads -> Call] /\ Asking
      BY DEF LimiterInv, TypeOK, Call
    <3>2. CASE ReadClock(t)
      <4>1. PICK s \in Subjects :
              calls' = [calls EXCEPT ![t] =
                          [pc |-> "waiting", subject |-> s, now |-> clock]]
        BY <3>2 DEF ReadClock
      <4>2. [pc |-> "waiting", subject |-> s, now |-> clock] \in Call
        BY <2>1 DEF Call
      <4> QED BY <3>1, <4>1, <4>2 DEF Asking
    <3>3. CASE Return(t)
      BY <2>1, <3>1, <3>3 DEF Return, Idle, Call, Asking
    <3>4. CASE Deny(t)
      <4>1. calls' = [calls EXCEPT ![t].pc = "denied"] /\ calls[t].pc = "waiting"
        BY <3>4 DEF Deny
      <4> QED BY <3>1, <4>1 DEF Call, Asking
    <3> QED BY <1>3, <3>2, <3>3, <3>4
  <2> QED BY <2>1, <2>2 DEF LimiterInv, TypeOK, Call
<1>4. ASSUME NEW t \in Threads, OpenWindow(t) PROVE LimiterInv'
  <2>1. /\ calls[t].pc = "waiting" /\ UNCHANGED clock
        /\ Admit(t, [started |-> calls[t].now, requests |-> 1])
    BY <1>4 DEF OpenWindow
  <2>2. [started |-> calls[t].now, requests |-> 1]
          \in [started : 0..clock, requests : 1..Limit]
    BY LimiterAssumption DEF LimiterInv, TypeOK
  <2> QED BY <2>1, <2>2, AdmitType
<1>5. ASSUME NEW t \in Threads, CountRequest(t) PROVE LimiterInv'
  <2> DEFINE w == windows[calls[t].subject]
             new == [w EXCEPT !.requests = @ + 1]
  <2>1. /\ calls[t].pc = "waiting" /\ UNCHANGED clock /\ w # None
        /\ ~(w.requests >= Limit) /\ Admit(t, new)
    BY <1>5 DEF CountRequest, WindowOf, IsFull
  <2>2. w \in [started : 0..clock, requests : 1..Limit]
    BY <2>1 DEF LimiterInv, TypeOK, Asking
  <2>3. new \in [started : 0..clock, requests : 1..Limit]
    BY <2>1, <2>2, LimiterAssumption
  <2> HIDE DEF new
  <2> QED BY <2>1, <2>3, AdmitType
<1> QED BY <1>1, <1>2, <1>3, <1>4, <1>5 DEF Next

(* Every variable of the limiter keeps its type, no reading comes from the *)
(* future and no window counts past the limit.                             *)
THEOREM TypeCorrect == Spec => []TypeOK
<1>1. Init => LimiterInv
  BY LimiterAssumption DEF Init, LimiterInv, TypeOK, Asking, Idle
<1>2. LimiterInv => TypeOK
  BY DEF LimiterInv
<1> QED BY <1>1, <1>2, LimiterStep, PTL DEF Spec

-----------------------------------------------------------------------------
(* The windows.  A history of admissions falls into runs of consecutive    *)
(* admissions counted in one window: f[i] is the admission that opened the *)
(* window the i-th was counted in.  Windows of one principal start at      *)
(* least a window's length apart, and the present window is the last run.  *)

Opens(a, i) == a[i].read

Counted(a, f) ==
  \A i \in 1..Len(a) :
    /\ f[i] <= i /\ i < f[i] + Limit
    /\ Opens(a, f[i]) <= a[i].at
    /\ a[i].read < Opens(a, f[i]) + WindowSeconds

Apart(a, f) ==
  \A i, j \in 1..Len(a) :
    i <= j => f[i] = f[j] \/ Opens(a, f[i]) + WindowSeconds <= Opens(a, f[j])

Present(a, w, f) ==
  LET n == Len(a)
  IN IF n = 0
       THEN w = None
       ELSE /\ w # None
            /\ w.started = Opens(a, f[n]) /\ w.requests = n + 1 - f[n]

Grouped(a, w, f) == Counted(a, f) /\ Apart(a, f) /\ Present(a, w, f)

WindowsInv ==
  \A s \in Subjects :
    \E f \in [1..Len(admitted[s]) -> 1..Len(admitted[s])] :
      Grouped(admitted[s], windows[s], f)

Recorded == [read : Nat, at : Nat]

(* The facts about a longer history the two lemmas below use.              *)
LEMMA Longer ==
  ASSUME NEW a \in Seq(Recorded), NEW x \in Recorded
  PROVE  /\ Len(a) \in Nat /\ Len(Append(a, x)) = Len(a) + 1
         /\ Append(a, x)[Len(a) + 1] = x
         /\ \A i \in 1..Len(a) : Append(a, x)[i] = a[i]
         /\ \A i \in 1..Len(a) : a[i].read \in Nat /\ a[i].at \in Nat
         /\ x.read \in Nat /\ x.at \in Nat
<1>1. /\ Len(a) \in Nat /\ Len(Append(a, x)) = Len(a) + 1
      /\ Append(a, x)[Len(a) + 1] = x
      /\ \A i \in 1..Len(a) : Append(a, x)[i] = a[i]
  OBVIOUS
<1>2. \A i \in 1..Len(a) : a[i] \in Recorded
  BY ElementOfSeq
<1>3. \A r \in Recorded : r.read \in Nat /\ r.at \in Nat
  BY DEF Recorded
<1> QED BY <1>1, <1>2, <1>3

(* A first request, or one past the window's end, opens a run of its own.  *)
LEMMA RunOpens ==
  ASSUME NEW a \in Seq(Recorded), NEW w \in Window \cup {None},
         NEW f \in [1..Len(a) -> 1..Len(a)], Grouped(a, w, f),
         NEW x \in Recorded, x.read <= x.at,
         w = None \/ Ended(w, x.read)
  PROVE  \E g \in [1..Len(Append(a, x)) -> 1..Len(Append(a, x))] :
           Grouped(Append(a, x), [started |-> x.read, requests |-> 1], g)
<1> DEFINE n == Len(a)
           b == Append(a, x)
           g == [i \in 1..n+1 |-> IF i = n+1 THEN n+1 ELSE f[i]]
           v == [started |-> x.read, requests |-> 1]
<1>1. /\ n \in Nat /\ Len(b) = n+1 /\ b[n+1] = x
      /\ \A i \in 1..n : b[i] = a[i]
      /\ \A i \in 1..n : a[i].read \in Nat /\ a[i].at \in Nat
      /\ x.read \in Nat /\ x.at \in Nat
  BY Longer
<1>2. /\ \A i \in 1..n : g[i] = f[i] /\ f[i] \in 1..n
      /\ g[n+1] = n+1 /\ g \in [1..n+1 -> 1..n+1]
  <2>1. n \in Nat
    BY <1>1
  <2> HIDE DEF n
  <2> QED BY <2>1 DEF n
<1>3. n > 0 => Opens(a, f[n]) + WindowSeconds <= x.read
  BY <1>1, LimiterAssumption DEF Grouped, Present, Ended, Window
<1>4. v # None /\ v.started = x.read /\ v.requests = 1
  BY <1>1, LimiterAssumption
<1> HIDE DEF b, g, n, v
<1>5. Counted(b, g)
  <2> SUFFICES ASSUME NEW i \in 1..n+1
               PROVE  /\ g[i] <= i /\ i < g[i] + Limit
                      /\ Opens(b, g[i]) <= b[i].at
                      /\ b[i].read < Opens(b, g[i]) + WindowSeconds
    BY <1>1 DEF Counted
  <2>1. CASE i \in 1..n
    BY <1>1, <1>2, <2>1 DEF Counted, Grouped, Opens, n
  <2>2. CASE i = n+1
    <3>1. g[i] = n+1 /\ b[i] = x /\ b[g[i]] = x
      BY <1>1, <1>2, <2>2
    <3> QED BY <1>1, <2>2, <3>1, LimiterAssumption DEF Opens
  <2> QED BY <1>1, <2>1, <2>2
<1>6. Apart(b, g)
  <2> SUFFICES ASSUME NEW i \in 1..n+1, NEW j \in 1..n+1, i <= j
               PROVE  g[i] = g[j] \/ Opens(b, g[i]) + WindowSeconds <= Opens(b, g[j])
    BY <1>1 DEF Apart
  <2>1. CASE j \in 1..n
    <3>1. i \in 1..n
      BY <1>1, <2>1
    <3>2. f[i] = f[j] \/ Opens(a, f[i]) + WindowSeconds <= Opens(a, f[j])
      BY <2>1, <3>1 DEF Grouped, Apart, n
    <3> QED BY <1>1, <1>2, <2>1, <3>1, <3>2 DEF Opens
  <2>2. CASE j = n+1 /\ i \in 1..n
    <3>1. /\ f[i] = f[n] \/ Opens(a, f[i]) + WindowSeconds <= Opens(a, f[n])
          /\ n > 0 /\ n \in 1..n /\ f[i] \in 1..n /\ f[n] \in 1..n
      BY <1>1, <1>2, <2>2, SMTT(30) DEF Grouped, Apart, n
    <3>2. Opens(a, f[i]) \in Nat /\ Opens(a, f[n]) \in Nat
      BY <1>1, <3>1 DEF Opens
    <3>3. Opens(a, f[i]) + WindowSeconds <= x.read
      BY <1>1, <1>3, <3>1, <3>2, LimiterAssumption, SMTT(30)
    <3> QED BY <1>1, <1>2, <2>2, <3>1, <3>3 DEF Opens
  <2>3. CASE j = n+1 /\ i = n+1
    BY <2>3
  <2> QED BY <1>1, <2>1, <2>2, <2>3
<1>7. Present(b, v, g)
  BY <1>1, <1>2, <1>4 DEF Present, Opens
<1> QED BY <1>1, <1>2, <1>5, <1>6, <1>7 DEF Grouped, b, v

(* A request counted in the present window extends the last run.           *)
LEMMA RunGrows ==
  ASSUME NEW a \in Seq(Recorded), NEW w \in Window, w # None,
         NEW f \in [1..Len(a) -> 1..Len(a)], Grouped(a, w, f),
         NEW x \in Recorded, w.started <= x.at,
         ~Ended(w, x.read), w.requests < Limit
  PROVE  \E g \in [1..Len(Append(a, x)) -> 1..Len(Append(a, x))] :
           Grouped(Append(a, x), [w EXCEPT !.requests = @ + 1], g)
<1> DEFINE n == Len(a)
           b == Append(a, x)
           g == [i \in 1..n+1 |-> IF i = n+1 THEN f[n] ELSE f[i]]
           v == [w EXCEPT !.requests = @ + 1]
<1>1. /\ n \in Nat /\ Len(b) = n+1 /\ b[n+1] = x
      /\ \A i \in 1..n : b[i] = a[i]
      /\ \A i \in 1..n : a[i].read \in Nat /\ a[i].at \in Nat
      /\ x.read \in Nat /\ x.at \in Nat
  BY Longer
<1>2. /\ n > 0 /\ n \in 1..n
      /\ w.started = Opens(a, f[n]) /\ w.requests = n + 1 - f[n]
  BY <1>1 DEF Grouped, Present
<1>3. /\ \A i \in 1..n : g[i] = f[i] /\ f[i] \in 1..n
      /\ g[n+1] = f[n] /\ g \in [1..n+1 -> 1..n+1]
  <2> HIDE DEF n
  <2>1. \A i \in 1..n : f[i] \in 1..n
    BY DEF n
  <2>2. \A i \in 1..n+1 : g[i] = IF i = n+1 THEN f[n] ELSE f[i]
    OBVIOUS
  <2>3. \A i \in 1..n : i \in 1..n+1 /\ i # n+1
    BY <1>1
  <2>4. n+1 \in 1..n+1
    BY <1>1
  <2>5. \A i \in 1..n+1 : g[i] \in 1..n+1
    BY <1>1, <1>2, <2>1, <2>2, SMTT(30)
  <2> QED BY <1>2, <2>1, <2>2, <2>3, <2>4, <2>5
<1>4. v # None /\ v.started = w.started /\ v.requests = w.requests + 1
  BY LimiterAssumption DEF Window
<1>5. x.read < w.started + WindowSeconds /\ w.started \in Nat
  BY <1>1, LimiterAssumption DEF Ended, Window
<1> HIDE DEF b, g, n, v
<1>6. Counted(b, g)
  <2> SUFFICES ASSUME NEW i \in 1..n+1
               PROVE  /\ g[i] <= i /\ i < g[i] + Limit
                      /\ Opens(b, g[i]) <= b[i].at
                      /\ b[i].read < Opens(b, g[i]) + WindowSeconds
    BY <1>1 DEF Counted
  <2>1. CASE i \in 1..n
    BY <1>1, <1>3, <2>1, ZenonT(40) DEF Counted, Grouped, Opens, n
  <2>2. CASE i = n+1
    <3>1. f[n] \in 1..n /\ n + 1 - f[n] < Limit
      BY <1>2, <1>3
    <3>2. g[i] = f[n] /\ b[i] = x /\ Opens(b, g[i]) = w.started
      BY <1>1, <1>2, <1>3, <2>2 DEF Opens
    <3> QED BY <1>1, <1>5, <2>2, <3>1, <3>2, LimiterAssumption, SMTT(30)
  <2> QED BY <1>1, <2>1, <2>2
<1>7. Apart(b, g)
  <2> SUFFICES ASSUME NEW i \in 1..n+1, NEW j \in 1..n+1, i <= j
               PROVE  g[i] = g[j] \/ Opens(b, g[i]) + WindowSeconds <= Opens(b, g[j])
    BY <1>1 DEF Apart
  <2> DEFINE k == IF j = n+1 THEN n ELSE j
             h == IF i = n+1 THEN n ELSE i
  <2>1. /\ h \in 1..n /\ k \in 1..n /\ h <= k
        /\ g[i] = f[h] /\ g[j] = f[k] /\ f[h] \in 1..n /\ f[k] \in 1..n
    <3>1. h \in 1..n /\ k \in 1..n /\ h <= k
      BY <1>1, <1>2
    <3>2. g[i] = f[h]
      BY <1>1, <1>2, <1>3, SMTT(30)
    <3>3. g[j] = f[k]
      BY <1>1, <1>2, <1>3, SMTT(30)
    <3> QED BY <1>3, <3>1, <3>2, <3>3
  <2> HIDE DEF h, k
  <2>2. f[h] = f[k] \/ Opens(a, f[h]) + WindowSeconds <= Opens(a, f[k])
    BY <2>1 DEF Grouped, Apart, n
  <2> QED BY <1>1, <2>1, <2>2 DEF Opens
<1>8. Present(b, v, g)
  <2>1. f[n] \in 1..n /\ Opens(b, g[n+1]) = w.started
    BY <1>1, <1>2, <1>3, SMTT(30) DEF Opens
  <2>2. Len(b) # 0 /\ g[Len(b)] = f[n] /\ Len(b) = n+1
    BY <1>1, <1>3
  <2>3. v.requests = n + 2 - f[n]
    BY <1>1, <1>2, <1>4, <2>1
  <2> QED BY <1>1, <1>3, <1>4, <2>1, <2>2, <2>3 DEF Present
<1> QED BY <1>1, <1>3, <1>6, <1>7, <1>8 DEF Grouped, b, v

LEMMA WindowsStep == LimiterInv /\ WindowsInv /\ [Next]_vars => WindowsInv'
<1> SUFFICES ASSUME LimiterInv, WindowsInv, [Next]_vars PROVE WindowsInv'
  OBVIOUS
<1>1. CASE UNCHANGED <<windows, admitted>>
  BY <1>1 DEF WindowsInv
<1>2. ASSUME NEW t \in Threads, OpenWindow(t) \/ CountRequest(t)
      PROVE  WindowsInv'
  <2> DEFINE s == calls[t].subject
             x == [read |-> calls[t].now, at |-> clock]
             old == admitted[s]
             w == windows[s]
             v == windows'[s]
  <2>1. /\ s \in Subjects /\ calls[t].now \in 0..clock /\ clock \in Nat
        /\ w \in [started : 0..clock, requests : 1..Limit] \cup {None}
    BY <1>2 DEF LimiterInv, TypeOK, Asking, OpenWindow, CountRequest
  <2>2. /\ windows \in [Subjects -> [started : 0..clock, requests : 1..Limit]
                                         \cup {None}]
        /\ admitted \in [Subjects -> Seq(Admission)]
    BY DEF LimiterInv, TypeOK, Admission
  <2>3. /\ v = windows'[s] /\ admitted'[s] = Append(old, x)
        /\ \A r \in Subjects \ {s} :
             windows'[r] = windows[r] /\ admitted'[r] = admitted[r]
    BY <1>2, <2>1, <2>2 DEF OpenWindow, CountRequest, Admit
  <2>4. /\ x \in Recorded /\ x.read = calls[t].now /\ x.at = clock
        /\ x.read <= x.at
    BY <2>1 DEF Recorded
  <2>5. old \in Seq(Recorded)
    <3>1. Admission \subseteq Recorded
      BY <2>1 DEF Admission, Recorded
    <3> QED BY <2>1, <2>2, <3>1, SeqMonotonic
  <2>6. w \in Window \cup {None}
    BY <2>1, LimiterAssumption DEF Window
  <2>7. PICK runs \in [1..Len(old) -> 1..Len(old)] : Grouped(old, w, runs)
    BY <2>1 DEF WindowsInv
  <2>8. \E g \in [1..Len(Append(old, x)) -> 1..Len(Append(old, x))] :
          Grouped(Append(old, x), v, g)
    <3>1. CASE OpenWindow(t)
      <4>1. v = [started |-> x.read, requests |-> 1] /\ (w = None \/ Ended(w, x.read))
        BY <2>1, <2>2, <3>1 DEF OpenWindow, Admit, WindowOf
      <4> HIDE DEF x, old, w, v
      <4> QED BY <2>4, <2>5, <2>6, <2>7, <4>1, RunOpens
    <3>2. CASE CountRequest(t)
      <4>1. /\ v = [w EXCEPT !.requests = @ + 1] /\ w # None
            /\ ~Ended(w, x.read) /\ ~(w.requests >= Limit)
        BY <2>1, <2>2, <3>2 DEF CountRequest, Admit, WindowOf, IsFull
      <4>2. w \in Window /\ w.requests < Limit /\ w.started <= x.at
        BY <2>1, <2>6, <4>1, LimiterAssumption, SMTT(30)
      <4> HIDE DEF x, old, w, v
      <4> QED BY <2>4, <2>5, <2>7, <4>1, <4>2, RunGrows
    <3> QED BY <1>2, <3>1, <3>2
  <2> HIDE DEF x, old, w, v, s
  <2>9. ASSUME NEW r \in Subjects
        PROVE  \E f \in [1..Len(admitted'[r]) -> 1..Len(admitted'[r])] :
                 Grouped(admitted'[r], windows'[r], f)
    <3>1. CASE r = s
      BY <2>3, <2>8, <3>1
    <3>2. CASE r # s
      BY <2>3, <2>9, <3>2 DEF WindowsInv
    <3> QED BY <3>1, <3>2
  <2> QED BY <2>9 DEF WindowsInv
<1> QED BY <1>1, <1>2 DEF Next, vars, Tick, ReadClock, Deny, Return

-----------------------------------------------------------------------------
(* Counting.  A run, and any set of admissions inside one, has at most     *)
(* Limit members.                                                          *)

Recent(a, now) == {i \in DOMAIN a : a[i].at + WindowSeconds > now}

Earned ==
  \A t \in Threads :
    calls[t].pc = "denied" =>
      Cardinality(Recent(admitted[calls[t].subject], calls[t].now)) >= Limit

LEMMA EarnedIsDenialIsEarned == Earned <=> DenialIsEarned
  BY DEF Earned, DenialIsEarned, Admissions, Recent

LEMMA RecentIsFinite ==
  ASSUME NEW a \in Seq(Recorded), NEW now
  PROVE  IsFiniteSet(Recent(a, now))
<1>1. Recent(a, now) \subseteq 1..Len(a) /\ Len(a) \in Nat
  BY DEF Recent
<1>2. IsFiniteSet(1..Len(a))
  BY <1>1, FS_Interval
<1> QED BY <1>1, <1>2, FS_Subset

(* A full window refuses: every admission of its run is recent.            *)
LEMMA FullWindow ==
  ASSUME NEW a \in Seq(Recorded), NEW w \in Window, w # None,
         NEW f \in [1..Len(a) -> 1..Len(a)], Grouped(a, w, f),
         NEW now \in Nat, ~Ended(w, now), w.requests >= Limit
  PROVE  Cardinality(Recent(a, now)) >= Limit
<1> DEFINE n == Len(a)
           run == f[n]..n
<1>1. n \in Nat /\ \A i \in 1..n : a[i].read \in Nat /\ a[i].at \in Nat
  <2>1. \A i \in 1..n : a[i] \in Recorded
    BY ElementOfSeq
  <2> QED BY <2>1 DEF Recorded
<1>2. /\ n > 0 /\ n \in 1..n /\ f[n] \in 1..n
      /\ w.started = Opens(a, f[n]) /\ w.requests = n + 1 - f[n]
  BY <1>1 DEF Grouped, Present
<1>3. now < w.started + WindowSeconds /\ w.started \in Nat
  BY LimiterAssumption DEF Ended, Window
<1>4. ASSUME NEW i \in run
      PROVE  i \in Recent(a, now)
  <2>1. i \in 1..n /\ f[i] \in 1..n /\ f[n] <= i
    BY <1>1, <1>2
  <2>2. /\ f[i] <= i /\ Opens(a, f[i]) <= a[i].at
        /\ a[i].read < Opens(a, f[i]) + WindowSeconds
    BY <2>1 DEF Grouped, Counted
  <2>3. Opens(a, f[i]) >= w.started
    <3>1. a[f[n]].read < Opens(a, f[f[n]]) + WindowSeconds
      BY <1>2 DEF Grouped, Counted
    <3>2. f[f[n]] \in 1..n
      BY <1>2
    <3>3. f[f[n]] = f[i] \/ Opens(a, f[f[n]]) + WindowSeconds <= Opens(a, f[i])
      BY <1>2, <2>1 DEF Grouped, Apart
    <3>4. f[i] = f[n] \/ Opens(a, f[i]) + WindowSeconds <= Opens(a, f[n])
      BY <1>2, <2>1 DEF Grouped, Apart
    <3>5. f[f[n]] = f[n] \/ Opens(a, f[f[n]]) + WindowSeconds <= Opens(a, f[n])
      BY <1>2 DEF Grouped, Apart
    <3>6. /\ Opens(a, f[f[n]]) \in Nat /\ Opens(a, f[i]) \in Nat
          /\ Opens(a, f[n]) \in Nat /\ a[f[n]].read = Opens(a, f[n])
      BY <1>1, <1>2, <2>1, <3>2 DEF Opens
    <3> QED BY <1>2, <3>1, <3>3, <3>4, <3>5, <3>6, LimiterAssumption, SMTT(30)
  <2>4. Opens(a, f[i]) \in Nat /\ a[i].at \in Nat
    BY <1>1, <2>1 DEF Opens
  <2>5. a[i].at + WindowSeconds > now
    BY <1>3, <2>2, <2>3, <2>4, LimiterAssumption, SMTT(30)
  <2> QED BY <2>1, <2>5 DEF Recent
<1>5. IsFiniteSet(run) /\ Cardinality(run) = n - f[n] + 1
  BY <1>1, <1>2, FS_Interval
<1>6. Cardinality(run) >= Limit
  BY <1>1, <1>2, <1>5
<1>7. run \in SUBSET Recent(a, now)
  BY <1>4
<1>8. IsFiniteSet(Recent(a, now))
  BY RecentIsFinite
<1>9. Cardinality(run) <= Cardinality(Recent(a, now))
  BY <1>7, <1>8, FS_Subset
<1> HIDE DEF run
<1>10. Cardinality(Recent(a, now)) \in Nat /\ Cardinality(run) \in Nat
  BY <1>5, <1>8, FS_CardinalityType
<1> QED BY <1>6, <1>9, <1>10, LimiterAssumption

(* An admission never takes another one away.                              *)
LEMMA RecentGrows ==
  ASSUME NEW a \in Seq(Recorded), NEW x \in Recorded, NEW now,
         Cardinality(Recent(a, now)) >= Limit
  PROVE  Cardinality(Recent(Append(a, x), now)) >= Limit
<1>1. Append(a, x) \in Seq(Recorded)
  OBVIOUS
<1>2. IsFiniteSet(Recent(Append(a, x), now)) /\ IsFiniteSet(Recent(a, now))
  BY <1>1, RecentIsFinite
<1>3. Recent(a, now) \in SUBSET Recent(Append(a, x), now)
  BY Longer DEF Recent
<1>4. /\ Cardinality(Recent(a, now)) <= Cardinality(Recent(Append(a, x), now))
      /\ Cardinality(Recent(a, now)) \in Nat
      /\ Cardinality(Recent(Append(a, x), now)) \in Nat
  BY <1>2, <1>3, FS_Subset, FS_CardinalityType
<1> QED BY <1>4, LimiterAssumption

LEMMA HistoryIsRecorded ==
  ASSUME LimiterInv, NEW s \in Subjects
  PROVE  admitted[s] \in Seq(Recorded)
<1>1. admitted[s] \in Seq(Admission) /\ clock \in Nat
  BY DEF LimiterInv, TypeOK, Admission
<1>2. Admission \subseteq Recorded
  BY <1>1 DEF Admission, Recorded
<1> QED BY <1>1, <1>2, SeqMonotonic

LEMMA EarnedStep ==
  LimiterInv /\ WindowsInv /\ Earned /\ [Next]_vars => Earned'
<1> SUFFICES ASSUME LimiterInv, WindowsInv, Earned, [Next]_vars,
                    NEW t \in Threads, calls'[t].pc = "denied"
             PROVE  Cardinality(Recent(admitted'[calls'[t].subject], calls'[t].now))
                      >= Limit
  BY DEF Earned
<1>1. calls \in [Threads -> Call] /\ Asking /\ clock \in Nat
  BY DEF LimiterInv, TypeOK, Call
<1>2. CASE calls'[t] = calls[t] /\ UNCHANGED admitted
  BY <1>2 DEF Earned
<1>3. CASE Deny(t)
  <2> DEFINE s == calls[t].subject
             w == windows[s]
             a == admitted[s]
             now == calls[t].now
  <2>1. /\ s \in Subjects /\ w # None /\ ~Ended(w, now) /\ w.requests >= Limit
        /\ UNCHANGED admitted
        /\ calls' = [calls EXCEPT ![t].pc = "denied"]
    BY <1>1, <1>3 DEF Deny, WindowOf, IsFull, Asking
  <2>2. calls'[t].subject = s /\ calls'[t].now = now /\ now \in Nat
    BY <1>1, <2>1 DEF Call
  <2>3. w \in Window /\ a \in Seq(Recorded)
    <3>1. w \in [started : 0..clock, requests : 1..Limit]
      BY <2>1 DEF LimiterInv, TypeOK
    <3> QED BY <1>1, <2>1, <3>1, HistoryIsRecorded, LimiterAssumption DEF Window
  <2>4. PICK f \in [1..Len(a) -> 1..Len(a)] : Grouped(a, w, f)
    BY <2>1 DEF WindowsInv
  <2>5. admitted'[calls'[t].subject] = a
    BY <2>1, <2>2
  <2> HIDE DEF s, w, a, now
  <2>6. Cardinality(Recent(a, now)) >= Limit
    BY <2>1, <2>2, <2>3, <2>4, FullWindow
  <2> QED BY <2>2, <2>5, <2>6
<1>4. ASSUME NEW u \in Threads, OpenWindow(u) \/ CountRequest(u)
      PROVE  Cardinality(Recent(admitted'[calls'[t].subject], calls'[t].now)) >= Limit
  <2> DEFINE s == calls[u].subject
             x == [read |-> calls[u].now, at |-> clock]
             r == calls[t].subject
  <2>1. /\ s \in Subjects /\ calls[u].now \in Nat
        /\ calls' = [calls EXCEPT ![u].pc = "allowed"]
        /\ admitted' = [admitted EXCEPT ![s] = Append(@, x)]
    BY <1>1, <1>4 DEF OpenWindow, CountRequest, Admit, Asking, Call
  <2>2. t # u /\ calls'[t] = calls[t] /\ r \in Subjects
    BY <1>1, <2>1 DEF Asking, Call
  <2>3. Cardinality(Recent(admitted[r], calls[t].now)) >= Limit
    BY <2>2 DEF Earned
  <2>4. x \in Recorded /\ admitted[r] \in Seq(Recorded)
    BY <1>1, <2>1, <2>2, HistoryIsRecorded DEF Recorded
  <2>5. admitted'[r] = admitted[r] \/ admitted'[r] = Append(admitted[r], x)
    BY <2>1, <2>2 DEF LimiterInv, TypeOK
  <2> HIDE DEF x, r
  <2>6. Cardinality(Recent(Append(admitted[r], x), calls[t].now)) >= Limit
    BY <2>3, <2>4, RecentGrows
  <2> QED BY <2>2, <2>3, <2>5, <2>6 DEF r
<1>5. ASSUME NEW u \in Threads, ReadClock(u) \/ Return(u)
      PROVE  calls'[t] = calls[t] /\ UNCHANGED admitted
  BY <1>1, <1>5 DEF ReadClock, Return, Idle, Call
<1>6. ASSUME NEW u \in Threads, Deny(u), u # t
      PROVE  calls'[t] = calls[t] /\ UNCHANGED admitted
  BY <1>1, <1>6 DEF Deny, Call
<1>7. CASE Tick \/ UNCHANGED vars
  BY <1>2, <1>7 DEF Tick, vars
<1> QED BY <1>2, <1>3, <1>4, <1>5, <1>6, <1>7 DEF Next

LEMMA WindowsAlways == Spec => [](LimiterInv /\ WindowsInv /\ Earned)
<1>1. Init => LimiterInv /\ WindowsInv /\ Earned
  <2> SUFFICES ASSUME Init PROVE LimiterInv /\ WindowsInv /\ Earned
    OBVIOUS
  <2>1. LimiterInv
    BY LimiterAssumption DEF Init, LimiterInv, TypeOK, Asking, Idle
  <2>2. ASSUME NEW s \in Subjects
        PROVE  \E f \in [1..Len(admitted[s]) -> 1..Len(admitted[s])] :
                 Grouped(admitted[s], windows[s], f)
    <3>1. admitted[s] = <<>> /\ windows[s] = None
      BY DEF Init
    <3>2. Len(admitted[s]) = 0 /\ 1..0 = {}
      BY <3>1
    <3>3. [i \in 1..0 |-> 1] \in [1..Len(admitted[s]) -> 1..Len(admitted[s])]
      BY <3>2
    <3>4. Grouped(admitted[s], windows[s], [i \in 1..0 |-> 1])
      BY <3>1, <3>2 DEF Grouped, Counted, Apart, Present
    <3> QED BY <3>3, <3>4
  <2>3. Earned
    BY DEF Init, Earned, Idle
  <2> QED BY <2>1, <2>2, <2>3 DEF WindowsInv
<1> QED BY <1>1, LimiterStep, WindowsStep, EarnedStep, PTL DEF Spec

(* A principal is refused only after Limit admissions of its own later     *)
(* than a window's length before the refused call read the clock: however  *)
(* handlers interleave, no share is used up by another principal, an older *)
(* window or a late call.                                                  *)
THEOREM DenialsAreEarned == Spec => []DenialIsEarned
<1>1. LimiterInv /\ WindowsInv /\ Earned => DenialIsEarned
  BY EarnedIsDenialIsEarned
<1> QED BY <1>1, WindowsAlways, PTL

-----------------------------------------------------------------------------
(* The burst bound.  The admissions of one stretch come from at most two   *)
(* runs; if from two, the first opened before the stretch, so its opening  *)
(* admission is not one of them.                                           *)

Stretch(a, start) ==
  {i \in DOMAIN a : a[i].read >= start /\ a[i].at < start + WindowSeconds}

LEMMA StretchIsShort ==
  ASSUME NEW a \in Seq(Recorded), NEW start \in Nat,
         NEW f \in [1..Len(a) -> 1..Len(a)], Counted(a, f), Apart(a, f)
  PROVE  Cardinality(Stretch(a, start)) <= 2 * Limit - 1
<1> DEFINE n == Len(a)
           T == Stretch(a, start)
           o(i) == a[f[i]].read
<1>1. n \in Nat /\ \A i \in 1..n : a[i].read \in Nat /\ a[i].at \in Nat
  <2>1. \A i \in 1..n : a[i] \in Recorded
    BY ElementOfSeq
  <2> QED BY <2>1, SMTT(30) DEF Recorded
<1>2. /\ T \subseteq 1..n
      /\ \A i \in T : a[i].read >= start /\ a[i].at < start + WindowSeconds
  BY DEF Stretch
<1>3. \A i \in 1..n : f[i] \in 1..n /\ o(i) \in Nat
  BY <1>1
<1>4. \A i \in T : /\ f[i] <= i /\ i < f[i] + Limit
                   /\ start < o(i) + WindowSeconds /\ o(i) < start + WindowSeconds
  <2> SUFFICES ASSUME NEW i \in T
               PROVE  /\ f[i] <= i /\ i < f[i] + Limit
                      /\ start < o(i) + WindowSeconds /\ o(i) < start + WindowSeconds
    OBVIOUS
  <2>1. i \in 1..n /\ a[i].read >= start /\ a[i].at < start + WindowSeconds
    BY <1>2
  <2>2. /\ f[i] <= i /\ i < f[i] + Limit /\ o(i) <= a[i].at
        /\ a[i].read < o(i) + WindowSeconds
    BY <2>1 DEF Counted, Opens
  <2>3. /\ o(i) \in Nat /\ a[i].read \in Nat /\ a[i].at \in Nat
    BY <1>1, <1>3, <2>1
  <2> HIDE DEF o
  <2> QED BY <2>1, <2>2, <2>3, LimiterAssumption, SMTT(30)
<1>5. \A i, j \in T : \/ f[i] = f[j] \/ o(i) + WindowSeconds <= o(j)
                      \/ o(j) + WindowSeconds <= o(i)
  BY <1>1, <1>2, SMTT(30) DEF Apart, Opens
<1>6. ASSUME NEW S, NEW b \in Int, NEW c \in Int, NEW k \in Nat,
             S \in SUBSET (b..c), c - b + 1 <= k
      PROVE  IsFiniteSet(S) /\ Cardinality(S) \in Nat /\ Cardinality(S) <= k
  <2>1. IsFiniteSet(b..c) /\ Cardinality(b..c) <= k
    <3>1. /\ IsFiniteSet(b..c)
          /\ Cardinality(b..c) = IF b > c THEN 0 ELSE c - b + 1
      BY FS_Interval
    <3> QED BY <1>6, <3>1
  <2>2. IsFiniteSet(S) /\ Cardinality(S) <= Cardinality(b..c)
    BY <1>6, <2>1, FS_Subset
  <2> QED BY <2>1, <2>2, FS_CardinalityType
<1>7. CASE \E p, q \in T : o(p) + WindowSeconds <= o(q)
  <2>1. PICK p \in T, q \in T : o(p) + WindowSeconds <= o(q)
    BY <1>7
  <2> DEFINE A == (f[p] + 1)..(f[p] + Limit - 1)
             B == f[q]..(f[q] + Limit - 1)
  <2>2. /\ f[p] \in 1..n /\ f[q] \in 1..n /\ o(p) \in Nat /\ o(q) \in Nat
        /\ o(q) < start + WindowSeconds /\ start < o(p) + WindowSeconds
    BY <1>2, <1>3, <1>4
  <2>3. o(p) < start
    <3> HIDE DEF o
    <3> QED BY <2>1, <2>2, LimiterAssumption
  <2>4. f[p] \notin T
    BY <1>2, <2>2, <2>3
  <2>5. ASSUME NEW i \in T
        PROVE  i \in A \cup B
    <3>1. /\ i \in 1..n /\ f[i] \in 1..n /\ o(i) \in Nat
          /\ f[i] <= i /\ i < f[i] + Limit
          /\ start < o(i) + WindowSeconds /\ o(i) < start + WindowSeconds
      BY <1>2, <1>3, <1>4
    <3>2. /\ f[i] = f[p] \/ o(i) + WindowSeconds <= o(p) \/ o(p) + WindowSeconds <= o(i)
          /\ f[i] = f[q] \/ o(i) + WindowSeconds <= o(q) \/ o(q) + WindowSeconds <= o(i)
      BY <1>5
    <3>3. f[i] = f[p] \/ f[i] = f[q]
      <4> HIDE DEF o
      <4> QED BY <2>1, <2>2, <2>3, <3>1, <3>2, LimiterAssumption, SMTT(30)
    <3>4. CASE f[i] = f[p]
      <4>1. i # f[p]
        BY <2>4
      <4> QED BY <2>2, <3>1, <3>4, <4>1, LimiterAssumption, SMTT(30)
    <3>5. CASE f[i] = f[q]
      BY <2>2, <3>1, <3>5, LimiterAssumption
    <3> QED BY <3>3, <3>4, <3>5
  <2> DEFINE TA == T \cap A
             TB == T \cap B
  <2>6. /\ IsFiniteSet(TA) /\ Cardinality(TA) \in Nat
        /\ Cardinality(TA) <= Limit - 1
    <3>1. TA \in SUBSET A /\ f[p] + 1 \in Int /\ f[p] + Limit - 1 \in Int
          /\ Limit - 1 \in Nat /\ (f[p] + Limit - 1) - (f[p] + 1) + 1 <= Limit - 1
      BY <2>2, LimiterAssumption, SMTT(30)
    <3> HIDE DEF TA, T
    <3> QED BY <1>6, <3>1
  <2>7. /\ IsFiniteSet(TB) /\ Cardinality(TB) \in Nat
        /\ Cardinality(TB) <= Limit
    <3>1. TB \in SUBSET B /\ f[q] \in Int /\ f[q] + Limit - 1 \in Int
          /\ Limit \in Nat /\ (f[q] + Limit - 1) - f[q] + 1 <= Limit
      BY <2>2, LimiterAssumption, SMTT(30)
    <3> HIDE DEF TB, T
    <3> QED BY <1>6, <3>1
  <2>8. T = TA \cup TB
    BY <2>5
  <2> HIDE DEF T, TA, TB
  <2>9. /\ Cardinality(T) = Cardinality(TA) + Cardinality(TB) - Cardinality(TA \cap TB)
        /\ IsFiniteSet(TA \cap TB)
    BY <2>6, <2>7, <2>8, FS_Union, FS_Intersection
  <2>10. Cardinality(TA \cap TB) \in Nat
    BY <2>9, FS_CardinalityType
  <2>11. Cardinality(T) <= 2 * Limit - 1
    BY <2>6, <2>7, <2>9, <2>10, LimiterAssumption
  <2> QED BY <2>11 DEF T
<1>8. CASE T # {} /\ ~ \E p, q \in T : o(p) + WindowSeconds <= o(q)
  <2>1. PICK p : p \in T
    BY <1>8
  <2>2. f[p] \in 1..n
    BY <1>2, <1>3, <2>1
  <2>3. ASSUME NEW i \in T PROVE i \in f[p]..(f[p] + Limit - 1)
    <3>1. f[i] = f[p]
      BY <1>5, <1>8, <2>1
    <3>2. i \in Nat /\ f[i] <= i /\ i < f[i] + Limit
      BY <1>2, <1>4
    <3> QED BY <2>2, <3>1, <3>2, LimiterAssumption
  <2>4. /\ T \in SUBSET (f[p]..(f[p] + Limit - 1))
        /\ f[p] \in Int /\ f[p] + Limit - 1 \in Int
        /\ Limit \in Nat /\ (f[p] + Limit - 1) - f[p] + 1 <= Limit
    BY <2>2, <2>3, LimiterAssumption
  <2> HIDE DEF T
  <2>5. Cardinality(T) \in Nat /\ Cardinality(T) <= Limit
    BY <1>6, <2>4
  <2>6. Cardinality(T) <= 2 * Limit - 1
    BY <2>5, LimiterAssumption
  <2> QED BY <2>6 DEF T
<1>9. CASE T = {}
  <2>1. Cardinality(Stretch(a, start)) = 0
    BY <1>9, FS_EmptySet
  <2> QED BY <2>1, LimiterAssumption
<1> QED BY <1>7, <1>8, <1>9

(* AC6-006: whatever the windows' boundaries and however late the calls    *)
(* reach the lock, a principal gets at most 2 * Limit - 1 calls through    *)
(* that both began and were admitted in one stretch of a window's length.  *)
THEOREM BurstsAreBounded == Spec => []BurstIsBounded
<1>1. LimiterInv /\ WindowsInv => BurstIsBounded
  <2> SUFFICES ASSUME LimiterInv, WindowsInv, NEW s \in Subjects,
                      NEW start \in 0..clock
               PROVE  Cardinality(Stretch(admitted[s], start)) <= 2 * Limit - 1
    BY DEF BurstIsBounded, Admissions, Stretch
  <2>1. admitted[s] \in Seq(Recorded)
    BY HistoryIsRecorded
  <2>2. start \in Nat
    BY DEF LimiterInv, TypeOK
  <2>3. PICK f \in [1..Len(admitted[s]) -> 1..Len(admitted[s])] :
           Grouped(admitted[s], windows[s], f)
    BY DEF WindowsInv
  <2> QED BY <2>1, <2>2, <2>3, StretchIsShort DEF Grouped
<1> QED BY <1>1, WindowsAlways, PTL

=============================================================================
