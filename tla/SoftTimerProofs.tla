-------------------------- MODULE SoftTimerProofs ---------------------------
(***************************************************************************)
(* Proofs about the soft timers, for every number of timers, every timeout *)
(* and every width of clock().                                             *)
(***************************************************************************)
EXTENDS SoftTimer, TLAPS

(***************************************************************************)
(* What clock() and the count of a timer that is on say about the time     *)
(* since the count was taken: clock() has wrapped at most once in it.      *)
(***************************************************************************)
TimeOf(t) ==
  on[t] = 1 => /\ elapsed[t] <= Timeout[t] + MaxLag
               /\ wrapped[t] = 0 => clock - count[t] = elapsed[t]
               /\ wrapped[t] = 1 => clock - count[t] = elapsed[t] - 2 * Half

TimeRight == \A t \in Timer : TimeOf(t)

AtTimer == pc \in {"callback", "called"} => i \in Timer

Inv == TypeOK /\ AtTimer /\ OnWhileArmed /\ TimeRight

LEMMA TimerFacts ==
  /\ MAX_TIMER \in Nat \ {0} /\ Half \in Nat \ {0} /\ MaxLag \in Nat
  /\ \A t \in Timer : Timeout[t] \in Nat /\ Timeout[t] + MaxLag < 2 * Half
  BY SoftTimerAssumption

LEMMA InitInv == Init => Inv
  BY TimerFacts DEF Init, Inv, TypeOK, AtTimer, OnWhileArmed, TimeRight, TimeOf, Timer

(***************************************************************************)
(* A count that is taken now is right.                                     *)
(***************************************************************************)
LEMMA RestartRight ==
  ASSUME Inv, NEW t \in Timer, Restart(t), UNCHANGED clock,
         \A u \in Timer \ {t} : on'[u] = 1 => on[u] = 1
  PROVE  /\ count' \in [Timer -> -Half .. Half - 1]
         /\ elapsed' \in [Timer -> Nat] /\ wrapped' \in [Timer -> {0, 1}]
         /\ TimeRight'
<1>1. /\ count' \in [Timer -> -Half .. Half - 1]
      /\ elapsed' \in [Timer -> Nat] /\ wrapped' \in [Timer -> {0, 1}]
  BY DEF Inv, TypeOK, Restart
<1>2. ASSUME NEW u \in Timer
      PROVE  TimeOf(u)'
  <2>1. CASE u = t
    <3>1. count'[u] = clock' /\ elapsed'[u] = 0 /\ wrapped'[u] = 0 /\ clock' \in Int
      BY <2>1 DEF Inv, TypeOK, Restart
    <3> QED
      BY <3>1, TimerFacts DEF TimeOf
  <2>2. CASE u # t
    <3>1. count'[u] = count[u] /\ elapsed'[u] = elapsed[u] /\ wrapped'[u] = wrapped[u]
      BY <2>2 DEF Inv, TypeOK, Restart
    <3>2. on'[u] = 1 => on[u] = 1
      BY <2>2
    <3> QED
      BY <3>1, <3>2 DEF TimeOf, Inv, TimeRight
  <2> QED
    BY <2>1, <2>2
<1> QED
  BY <1>1, <1>2 DEF TimeRight

LEMMA CreateRight ==
  ASSUME Inv, NEW t \in Timer, NEW c \in {0, 1}, soft_timer_create(t, c),
         UNCHANGED clock, pc' \in {"user", "proc", "callback", "called"},
         i' \in 0 .. MAX_TIMER, AtTimer'
  PROVE  Inv'
<1>1. \A u \in Timer \ {t} : on'[u] = 1 => on[u] = 1
  BY DEF Inv, TypeOK, soft_timer_create
<1>2. Restart(t)
  BY DEF soft_timer_create
<1>3. /\ on' \in [Timer -> {0, 1}] /\ armed' \in [Timer -> {0, 1}]
      /\ is_circle' \in [Timer -> {0, 1}] /\ on' = armed'
  BY DEF Inv, TypeOK, OnWhileArmed, soft_timer_create
<1> QED
  BY <1>1, <1>2, <1>3, RestartRight DEF Inv, TypeOK, OnWhileArmed

LEMMA DeleteRight ==
  ASSUME Inv, NEW t \in Timer, soft_timer_delete(t),
         UNCHANGED clock, pc' \in {"user", "proc", "callback", "called"},
         i' \in 0 .. MAX_TIMER, AtTimer'
  PROVE  Inv'
<1>1. \A u \in Timer : on'[u] = 1 => on[u] = 1
  BY DEF Inv, TypeOK, soft_timer_delete
<1>2. TimeRight'
  BY <1>1 DEF Inv, TimeRight, TimeOf, soft_timer_delete
<1>3. /\ on' \in [Timer -> {0, 1}] /\ armed' \in [Timer -> {0, 1}] /\ on' = armed'
  BY DEF Inv, TypeOK, OnWhileArmed, soft_timer_delete
<1> QED
  BY <1>2, <1>3 DEF Inv, TypeOK, OnWhileArmed, soft_timer_delete

LEMMA TickRight ==
  ASSUME Inv, Tick
  PROVE  Inv'
<1>1. clock \in -Half .. Half - 1 /\ clock' \in -Half .. Half - 1
  BY TimerFacts DEF Inv, TypeOK, Tick
<1>2. elapsed' \in [Timer -> Nat] /\ wrapped' \in [Timer -> {0, 1}]
  BY DEF Inv, TypeOK, Tick
<1>3. ASSUME NEW t \in Timer
      PROVE  TimeOf(t)'
  <2>1. SUFFICES ASSUME on[t] = 1 PROVE TimeOf(t)'
    BY DEF TimeOf, Tick
  <2>2. /\ elapsed[t] \in Nat /\ count[t] \in -Half .. Half - 1 /\ wrapped[t] \in {0, 1}
        /\ count'[t] = count[t] /\ elapsed'[t] = elapsed[t] + 1
        /\ elapsed[t] < Timeout[t] + MaxLag
        /\ wrapped'[t] = IF clock = Half - 1 THEN 1 ELSE wrapped[t]
    BY <2>1 DEF Inv, TypeOK, Tick
  <2>3. clock' = IF clock = Half - 1 THEN -Half ELSE clock + 1
    BY DEF Tick
  <2>4. TimeOf(t)
    BY DEF Inv, TimeRight
  <2>5. Timeout[t] \in Nat /\ Timeout[t] + MaxLag < 2 * Half /\ Half \in Nat /\ MaxLag \in Nat
    BY TimerFacts
  <2>6. CASE clock = Half - 1
    <3>1. wrapped[t] = 0
      BY <2>1, <2>2, <2>4, <2>5, <2>6 DEF TimeOf
    <3> QED
      BY <1>1, <2>1, <2>2, <2>3, <2>4, <2>5, <2>6, <3>1 DEF TimeOf
  <2>7. CASE clock # Half - 1
    BY <1>1, <2>1, <2>2, <2>3, <2>4, <2>5, <2>7 DEF TimeOf
  <2> QED
    BY <2>6, <2>7
<1> QED
  BY <1>1, <1>2, <1>3 DEF Inv, TypeOK, AtTimer, OnWhileArmed, TimeRight, Tick

LEMMA CallRight ==
  ASSUME Inv, Call
  PROVE  Inv'
<1>1. i \in Timer /\ is_circle[i] \in {0, 1} /\ on[i] = 1
  BY DEF Inv, TypeOK, Call, Visit
<1>2. /\ on' \in [Timer -> {0, 1}] /\ armed' \in [Timer -> {0, 1}] /\ on' = armed'
  BY <1>1 DEF Inv, TypeOK, OnWhileArmed, Call
<1>3. \A u \in Timer : on'[u] = 1 => on[u] = 1
  BY <1>1 DEF Inv, TypeOK, Call
<1>4. TimeRight'
  BY <1>3 DEF Inv, TimeRight, TimeOf, Call
<1> QED
  BY <1>1, <1>2, <1>4 DEF Inv, TypeOK, AtTimer, OnWhileArmed, Call

LEMMA StepInv ==
  ASSUME Inv, [Next]_vars
  PROVE  Inv'
<1>1. ASSUME NEW t \in Timer, UserDelete(t) PROVE Inv'
  <2>1. AtTimer' /\ pc' = "user" /\ i' \in 0 .. MAX_TIMER /\ UNCHANGED clock
    BY <1>1 DEF Inv, TypeOK, AtTimer, UserDelete
  <2> QED
    BY <1>1, <2>1, DeleteRight DEF UserDelete
<1>2. ASSUME NEW t \in Timer, NEW c \in {0, 1}, UserCreate(t, c) PROVE Inv'
  <2>1. AtTimer' /\ pc' = "user" /\ i' \in 0 .. MAX_TIMER /\ UNCHANGED clock
    BY <1>2 DEF Inv, TypeOK, AtTimer, UserCreate
  <2> QED
    BY <1>2, <2>1, CreateRight DEF UserCreate
<1>3. CASE Tick
  BY <1>3, TickRight
<1>4. CASE Call
  BY <1>4, CallRight
<1>5. CASE Callback
  <2>1. AtTimer' /\ pc' = "called" /\ i' \in 0 .. MAX_TIMER /\ UNCHANGED clock
    BY <1>5 DEF Inv, TypeOK, AtTimer, Callback
  <2>2. ASSUME NEW t \in Timer, NEW c \in {0, 1}, soft_timer_create(t, c) PROVE Inv'
    BY <2>1, <2>2, CreateRight
  <2>3. ASSUME NEW t \in Timer, soft_timer_delete(t) PROVE Inv'
    BY <2>1, <2>3, DeleteRight
  <2>4. CASE UNCHANGED timerVars
    BY <2>1, <2>4 DEF Inv, TypeOK, OnWhileArmed, TimeRight, TimeOf, timerVars
  <2> QED
    BY <1>5, <2>2, <2>3, <2>4 DEF Callback
<1>6. CASE Called
  <2>1. i \in Timer /\ Restart(i) /\ UNCHANGED <<clock, on, is_circle, armed>>
    BY <1>6 DEF Inv, AtTimer, Called
  <2>2. pc' = "proc" /\ i' \in 0 .. MAX_TIMER
    BY <1>6, <2>1, TimerFacts DEF Called, Timer
  <2>3. /\ count' \in [Timer -> -Half .. Half - 1]
        /\ elapsed' \in [Timer -> Nat] /\ wrapped' \in [Timer -> {0, 1}]
        /\ TimeRight'
    BY <2>1, RestartRight
  <2> QED
    BY <2>1, <2>2, <2>3 DEF Inv, TypeOK, AtTimer, OnWhileArmed
<1>7. CASE soft_timer_proc \/ NotExpired \/ ProcReturns \/ UNCHANGED vars
  <2>1. UNCHANGED <<clock, timerVars>>
    BY <1>7 DEF soft_timer_proc, NotExpired, ProcReturns, vars
  <2>2. i' \in 0 .. MAX_TIMER /\ pc' \in {"user", "proc", "callback", "called"} /\ AtTimer'
    BY <1>7, TimerFacts
    DEF Inv, TypeOK, AtTimer, soft_timer_proc, NotExpired, Visit, ProcReturns, vars, Timer
  <2> QED
    BY <2>1, <2>2 DEF Inv, TypeOK, OnWhileArmed, TimeRight, TimeOf, timerVars
<1> QED
  BY <1>1, <1>2, <1>3, <1>4, <1>5, <1>6, <1>7 DEF Next, ProcStep

LEMMA AlwaysInv == Spec => []Inv
  BY InitInv, StepInv, PTL DEF Spec

(***************************************************************************)
(* Whatever the callbacks create and delete, a timer is on exactly while   *)
(* somebody is waiting for it: soft_timer_proc never switches off a timer  *)
(* that its own callback has created again.                                *)
(***************************************************************************)
THEOREM TimersOnWhileArmed == Spec => [](TypeOK /\ OnWhileArmed)
<1>1. Inv => TypeOK /\ OnWhileArmed
  BY DEF Inv
<1> QED
  BY <1>1, AlwaysInv, PTL

(***************************************************************************)
(* No timer is overlooked: when its time has come the unsigned subtraction *)
(* of soft_timer.c:55 says so, whether or not clock() has wrapped since.   *)
(***************************************************************************)
THEOREM TimersNeverLate == Spec => []NeverLate
<1>1. ASSUME Inv PROVE NeverLate
  <2>1. SUFFICES ASSUME NEW t \in Timer, on[t] = 1, elapsed[t] >= Timeout[t]
                 PROVE  Expired(t)
    BY DEF NeverLate
  <2>2. /\ TimeOf(t) /\ wrapped[t] \in {0, 1} /\ elapsed[t] \in Nat
        /\ clock \in Int /\ count[t] \in Int
    BY <1>1 DEF Inv, TypeOK, TimeRight
  <2> QED
    BY <2>1, <2>2, TimerFacts DEF TimeOf, Expired
<1> QED
  BY <1>1, AlwaysInv, PTL

(***************************************************************************)
(* The time of the timer whose callback runs: it goes on in the callback.  *)
(***************************************************************************)
InTime == pc = "callback" => elapsed[i] >= Timeout[i] \/ wrapped[i] = 1

LEMMA InTimeStep ==
  ASSUME Inv, InTime, [Next]_vars
  PROVE  InTime'
<1>1. CASE Call
  <2>1. i \in Timer /\ on[i] = 1 /\ Expired(i)
    BY <1>1 DEF Call, Visit
  <2>2. /\ TimeOf(i) /\ wrapped[i] \in {0, 1} /\ elapsed[i] \in Nat
        /\ clock \in Int /\ count[i] \in Int
    BY <2>1 DEF Inv, TypeOK, TimeRight
  <2>3. elapsed[i] >= Timeout[i] \/ wrapped[i] = 1
    BY <2>1, <2>2, TimerFacts DEF TimeOf, Expired
  <2> QED
    BY <1>1, <2>3 DEF InTime, Call
<1>2. CASE Tick
  <2>1. SUFFICES ASSUME pc = "callback"
                 PROVE  elapsed'[i] >= Timeout[i] \/ wrapped'[i] = 1
    BY <1>2 DEF InTime, Tick
  <2>2. i \in Timer /\ elapsed[i] \in Nat /\ Timeout[i] \in Nat
    BY <2>1, TimerFacts DEF Inv, TypeOK, AtTimer
  <2>3. elapsed'[i] >= elapsed[i] /\ (wrapped[i] = 1 => wrapped'[i] = 1)
    BY <1>2, <2>2 DEF Tick
  <2>4. elapsed'[i] \in Nat
    BY <1>2, <2>2 DEF Tick
  <2> QED
    BY <2>1, <2>2, <2>3, <2>4 DEF InTime
<1>3. CASE UNCHANGED vars
  BY <1>3 DEF InTime, vars, timerVars
<1>4. ASSUME NEW t \in Timer, UserDelete(t) \/ \E c \in {0, 1} : UserCreate(t, c)
      PROVE  InTime'
  BY <1>4 DEF InTime, UserDelete, UserCreate
<1>5. CASE soft_timer_proc \/ NotExpired \/ Callback \/ Called \/ ProcReturns
  BY <1>5 DEF InTime, soft_timer_proc, NotExpired, Visit, Callback, Called, ProcReturns
<1> QED
  BY <1>1, <1>2, <1>3, <1>4, <1>5 DEF Next, ProcStep

(***************************************************************************)
(* No callback comes early, unless clock() has wrapped since the timer's   *)
(* count was taken.                                                        *)
(***************************************************************************)
THEOREM TimersNeverEarly == Spec => NeverEarly
<1>1. Init => InTime
  BY DEF Init, InTime
<1>2. ASSUME Inv, InTime, [Next]_vars
      PROVE  [pc' = "callback" => elapsed[i] >= Timeout[i] \/ wrapped[i] = 1]_vars
  <2>1. SUFFICES ASSUME pc' = "callback"
                 PROVE  elapsed[i] >= Timeout[i] \/ wrapped[i] = 1
    OBVIOUS
  <2>2. CASE Call
    <3>1. i \in Timer /\ on[i] = 1 /\ Expired(i)
      BY <2>2 DEF Call, Visit
    <3>2. /\ TimeOf(i) /\ wrapped[i] \in {0, 1} /\ elapsed[i] \in Nat
          /\ clock \in Int /\ count[i] \in Int
      BY <1>2, <3>1 DEF Inv, TypeOK, TimeRight
    <3> QED
      BY <3>1, <3>2, TimerFacts DEF TimeOf, Expired
  <2>3. CASE pc = "callback"
    BY <1>2, <2>3 DEF InTime
  <2>4. Call \/ pc = "callback"
    BY <1>2, <2>1
    DEF Next, ProcStep, vars, Tick, UserDelete, UserCreate, soft_timer_proc,
        NotExpired, Visit, Callback, Called, ProcReturns
  <2> QED
    BY <2>2, <2>3, <2>4
<1> QED
  BY <1>1, <1>2, InTimeStep, AlwaysInv, PTL DEF Spec, NeverEarly
=============================================================================
