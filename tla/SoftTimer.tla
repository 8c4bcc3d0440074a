----------------------------- MODULE SoftTimer ------------------------------
(***************************************************************************)
(* The soft timers of ethoslip_lwip (soft_timer.c).  main's loop calls     *)
(* soft_timer_proc, which visits the timers one by one and calls those     *)
(* that have expired; a callback may create and delete timers, its own     *)
(* too.  Ticks are read from clock(), which is signed and wraps where it   *)
(* is 32 bits wide, and are subtracted as 64-bit unsigned numbers.         *)
(*                                                                         *)
(* elapsed and wrapped are the true time since a timer's count was taken,  *)
(* and whether clock() has wrapped since; the code knows neither.          *)
(***************************************************************************)
EXTENDS Integers

CONSTANTS MAX_TIMER,
          Timeout,    \* timeout[i]: the timeout the program gives timer i
          Half,       \* clock() runs from -Half to Half - 1
          MaxLag      \* longest delay between two visits of a timer

Timer == 0 .. MAX_TIMER - 1

ASSUME SoftTimerAssumption ==
  /\ MAX_TIMER \in Nat \ {0} /\ Half \in Nat \ {0} /\ MaxLag \in Nat
  /\ Timeout \in [Timer -> Nat]
  /\ \A i \in Timer : Timeout[i] + MaxLag < 2 * Half

VARIABLES pc,         \* "user", "proc", "callback", "called"
          i,          \* the timer soft_timer_proc is at
          clock,      \* SOFT_TIMER_GET_TICK_COUNT()
          on, is_circle, count,
          elapsed, wrapped,
          armed       \* what the callers have asked for: created with on = 1,
                      \* not deleted, and if not circular not called since

timerVars == <<on, is_circle, count, elapsed, wrapped, armed>>
vars == <<pc, i, clock, timerVars>>
-----------------------------------------------------------------------------
\* The count of a timer is taken.
Restart(t) == /\ count' = [count EXCEPT ![t] = clock]
              /\ elapsed' = [elapsed EXCEPT ![t] = 0]
              /\ wrapped' = [wrapped EXCEPT ![t] = 0]

soft_timer_create(t, circle) ==
  /\ is_circle' = [is_circle EXCEPT ![t] = circle]
  /\ on' = [on EXCEPT ![t] = 1]
  /\ armed' = [armed EXCEPT ![t] = 1]
  /\ Restart(t)

soft_timer_delete(t) ==
  /\ on' = [on EXCEPT ![t] = 0]
  /\ armed' = [armed EXCEPT ![t] = 0]
  /\ UNCHANGED <<is_circle, count, elapsed, wrapped>>

\* A caller outside of the callbacks: it does not create a timer that is on.
UserCreate(t, circle) ==
  /\ pc = "user" /\ on[t] = 0
  /\ soft_timer_create(t, circle)
  /\ UNCHANGED <<pc, i, clock>>

UserDelete(t) ==
  /\ pc = "user"
  /\ soft_timer_delete(t)
  /\ UNCHANGED <<pc, i, clock>>

\* Time passes, in and between the callbacks.
Tick ==
  /\ \A t \in Timer : on[t] = 1 => elapsed[t] < Timeout[t] + MaxLag
  /\ clock' = IF clock = Half - 1 THEN -Half ELSE clock + 1
  /\ elapsed' = [t \in Timer |-> IF on[t] = 1 THEN elapsed[t] + 1 ELSE elapsed[t]]
  /\ wrapped' = [t \in Timer |-> IF on[t] = 1 /\ clock = Half - 1 THEN 1 ELSE wrapped[t]]
  /\ UNCHANGED <<pc, i, on, is_circle, count, armed>>
-----------------------------------------------------------------------------
\* Variant: the loop starts at timer 1.
procMutant ==
  /\ pc = "user"
  /\ pc' = "proc" /\ i' = 1
  /\ UNCHANGED <<clock, timerVars>>

soft_timer_proc ==
  /\ pc = "user"
  /\ pc' = "proc" /\ i' = 0
  /\ UNCHANGED <<clock, timerVars>>

\* Variant: strictly later.
ExpiredMutant(t) == clock < count[t] \/ clock - count[t] > Timeout[t]

\* Variant: one tick early.
ExpiredEarlyMutant(t) == clock < count[t] \/ clock - count[t] >= Timeout[t] - 1

\* A negative difference is a huge number of 64 bits.
Expired(t) == clock < count[t] \/ clock - count[t] >= Timeout[t]

Visit(t) == pc = "proc" /\ i = t /\ t \in Timer

NotExpired ==
  /\ Visit(i)
  /\ ~(on[i] = 1 /\ Expired(i))
  /\ i' = i + 1
  /\ UNCHANGED <<pc, clock, timerVars>>

Call ==
  /\ Visit(i)
  /\ on[i] = 1 /\ Expired(i)
  /\ on' = [on EXCEPT ![i] = is_circle[i]]
  /\ armed' = [armed EXCEPT ![i] = is_circle[i]]
  /\ pc' = "callback"
  /\ UNCHANGED <<i, clock, is_circle, count, elapsed, wrapped>>

\* timer_cb(): it creates a timer, deletes one, or does neither.
Callback ==
  /\ pc = "callback"
  /\ pc' = "called"
  /\ \/ \E t \in Timer, c \in {0, 1} : soft_timer_create(t, c)
     \/ \E t \in Timer : soft_timer_delete(t)
     \/ UNCHANGED timerVars
  /\ UNCHANGED <<i, clock>>

\* Variant: the timer is switched off only now.
CalledMutant ==
  /\ pc = "called"
  /\ Restart(i)
  /\ on' = [on EXCEPT ![i] = is_circle[i]]
  /\ pc' = "proc" /\ i' = i + 1
  /\ UNCHANGED <<clock, is_circle, armed>>

\* The count is taken again when the callback has returned.
Called ==
  /\ pc = "called"
  /\ Restart(i)
  /\ pc' = "proc" /\ i' = i + 1
  /\ UNCHANGED <<clock, on, is_circle, armed>>

ProcReturns ==
  /\ pc = "proc" /\ i = MAX_TIMER
  /\ pc' = "user"
  /\ UNCHANGED <<i, clock, timerVars>>

\* soft_timer_init.  main has used up to Half - 1 ticks by then.
Init ==
  /\ pc = "user" /\ i = 0 /\ clock \in 0 .. Half - 1
  /\ on = [t \in Timer |-> 0] /\ is_circle = [t \in Timer |-> 0]
  /\ count = [t \in Timer |-> 0] /\ elapsed = [t \in Timer |-> 0]
  /\ wrapped = [t \in Timer |-> 0] /\ armed = [t \in Timer |-> 0]

ProcStep == \/ soft_timer_proc \/ NotExpired \/ Call \/ Callback \/ Called
            \/ ProcReturns

Next == \/ ProcStep \/ Tick
        \/ \E t \in Timer : UserDelete(t) \/ \E c \in {0, 1} : UserCreate(t, c)

\* main's loop spins and the clock runs.
Fairness == WF_vars(ProcStep) /\ WF_vars(Tick)

Spec == Init /\ [][Next]_vars /\ Fairness
-----------------------------------------------------------------------------
TypeOK ==
  /\ pc \in {"user", "proc", "callback", "called"} /\ i \in 0 .. MAX_TIMER
  /\ clock \in -Half .. Half - 1 /\ count \in [Timer -> -Half .. Half - 1]
  /\ on \in [Timer -> {0, 1}] /\ is_circle \in [Timer -> {0, 1}]
  /\ wrapped \in [Timer -> {0, 1}] /\ armed \in [Timer -> {0, 1}]
  /\ elapsed \in [Timer -> Nat]

(***************************************************************************)
(* A timer is on exactly while somebody is waiting for it.  In particular  *)
(* a timer that its own callback creates again, as the retry for the       *)
(* hardware address does, is not switched off by the end of                *)
(* soft_timer_proc, and one that is not circular is called once.           *)
(***************************************************************************)
OnWhileArmed == on = armed

(***************************************************************************)
(* A callback is called no earlier than its timeout after the timer was    *)
(* created or last called, unless clock() has wrapped in between           *)
(* (soft_timer.c:55).                                                      *)
(***************************************************************************)
NeverEarly ==
  [][pc' = "callback" => elapsed[i] >= Timeout[i] \/ wrapped[i] = 1]_vars

(***************************************************************************)
(* A timer whose time has come is seen to have expired at its next visit,  *)
(* wrapped clock or not: a wrap makes timers early and never late.         *)
(***************************************************************************)
NeverLate ==
  \A t \in Timer : on[t] = 1 /\ elapsed[t] >= Timeout[t] => Expired(t)

\* A timer that is on is called in the end, or deleted, or created anew: its
\* time does not run on for ever.
EventuallyCalled ==
  \A t \in Timer : (on[t] = 1 /\ elapsed[t] > 0) ~> (on[t] = 0 \/ elapsed[t] = 0)
=============================================================================
