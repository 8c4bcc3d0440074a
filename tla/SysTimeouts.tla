---------------------------- MODULE SysTimeouts -----------------------------
(***************************************************************************)
(* The timeouts of lwIP as ethoslip_lwip runs them: sys_check_timeouts is  *)
(* called from main's loop, the stack's own timers schedule themselves     *)
(* again, and the TCP timer runs only while there are connections.         *)
(*                                                                         *)
(* Times are u32_t and wrap.  Here they wrap at Mod, and each timeout also *)
(* carries "left", the true time until it is due (negative when it is      *)
(* overdue), which the code does not have.  The clock itself is kept only  *)
(* as the code sees it, so that behaviours may be as long as they like.    *)
(*                                                                         *)
(* sys_now() is clock()/(CLOCKS_PER_SEC/1000), converted to u32_t.  Where  *)
(* clock_t has 64 bits, this counts on to 2^32 and wraps there.  Where it  *)
(* has 32 (the ELF files in the repository are of this kind), clock()      *)
(* overflows first, from its largest to its smallest value, and sys_now()  *)
(* jumps from ClockMax to the u32_t of -ClockMax.                          *)
(***************************************************************************)
EXTENDS Integers, Sequences, FiniteSets, SequencesExt, FiniteSetsExt

CONSTANTS Mod,        \* times wrap here: 2^32
          ClockMax,   \* clock() in milliseconds before it overflows: 2147483 for
                      \* a clock_t of 32 bits, out of reach (Mod or more) for 64
          Cyclic,     \* the timers of lwip_cyclic_timers, without TCP's
          Interval,   \* interval of each timer, and of "tcp"
          PoolSize,   \* MEMP_NUM_SYS_TIMEOUT
          MaxLag      \* longest delay of sys_check_timeouts

Timer == Cyclic \cup {"tcp"}

ASSUME TimeoutsAssumption ==
  /\ Mod \in Nat /\ ClockMax \in Nat /\ PoolSize \in Nat /\ MaxLag \in Nat
  /\ Interval \in [Timer -> Nat \ {0}]
  /\ {"tcp", "none"} \cap Cyclic = {}
  \* lwipopts.h:83, opt.h:508: the pool has room for every timer of the stack
  /\ IsFiniteSet(Cyclic) /\ Cardinality(Timer) <= PoolSize
  \* sys_timeout asserts the first, TIME_LESS_THAN needs the second
  /\ \A i \in Timer : Interval[i] <= (Mod - 1) \div 4
  /\ \A i \in Timer : 2 * (MaxLag + Interval[i]) < Mod

VARIABLES pc,             \* "init", then "idle" outside of sys_check_timeouts,
                          \* "check" and "call" in it
          clock,          \* sys_now()
          overflowed,     \* history: clock() has overflowed
          next_timeout,   \* the list
          now,            \* sys_now() when sys_check_timeouts was entered
          due, lag,       \* current_timeout_due_time, and how long ago it was
          current,        \* the timer whose handler runs
          tcpip_tcp_timer_active,
          pcbs            \* tcp_active_pcbs || tcp_tw_pcbs

vars == <<pc, clock, overflowed, next_timeout, now, due, lag, current,
          tcpip_tcp_timer_active, pcbs>>

\* (u32_t)(t - compare_to) > LWIP_MAX_TIMEOUT
TIME_LESS_THAN(t, compare_to) == (t - compare_to) % Mod > (Mod - 1) \div 2

Pending == ToSet([k \in DOMAIN next_timeout |-> next_timeout[k].id])
-----------------------------------------------------------------------------
(***************************************************************************)
(* sys_timeout_abs inserts in front of the first timeout that is later.    *)
(* Nothing happens when the pool is empty.                                 *)
(***************************************************************************)
\* Variant: times are compared as numbers.
InsertMutant(list, t) ==
  LET later == {k \in DOMAIN list : t.time < list[k].time}
  IN  IF later = {} THEN Append(list, t) ELSE InsertAt(list, Min(later), t)

Insert(list, t) ==
  LET later == {k \in DOMAIN list : TIME_LESS_THAN(t.time, list[k].time)}
  IN  IF later = {} THEN Append(list, t) ELSE InsertAt(list, Min(later), t)

sys_timeout_abs(id, time, left) ==
  next_timeout' = IF Len(next_timeout) < PoolSize
                  THEN Insert(next_timeout, [id |-> id, time |-> time, left |-> left])
                  ELSE next_timeout

sys_timeout(id) == sys_timeout_abs(id, (clock + Interval[id]) % Mod, Interval[id])

\* Variant: the timer that is already running is not looked at.
tcp_timer_neededMutant == sys_timeout("tcp") /\ tcpip_tcp_timer_active' = TRUE

tcp_timer_needed ==
  IF tcpip_tcp_timer_active
  THEN UNCHANGED <<next_timeout, tcpip_tcp_timer_active>>
  ELSE sys_timeout("tcp") /\ tcpip_tcp_timer_active' = TRUE
-----------------------------------------------------------------------------
\* sys_now(), a millisecond of processor time after it was t.
sys_now(t) == IF t = ClockMax THEN (-ClockMax) % Mod ELSE (t + 1) % Mod

Reading == {t \in 0 .. Mod - 1 : t <= ClockMax \/ Mod - t <= ClockMax}

Overdue(t) == ~TIME_LESS_THAN(clock, t.time)

\* Time passes, in and between the handlers.  main is not kept from
\* sys_check_timeouts for more than MaxLag once a timeout can be seen to be
\* due; how much more than MaxLag one is late that cannot is not counted.
Tick ==
  /\ \A k \in DOMAIN next_timeout :
       Overdue(next_timeout[k]) => next_timeout[k].left > -MaxLag
  /\ pc = "call" => lag < MaxLag
  /\ clock' = sys_now(clock)
  /\ overflowed' = (overflowed \/ clock = ClockMax)
  /\ next_timeout' = [k \in DOMAIN next_timeout |->
                        [next_timeout[k] EXCEPT
                           !.left = IF @ > -MaxLag THEN @ - 1 ELSE @]]
  /\ lag' = IF pc = "call" THEN lag + 1 ELSE lag
  /\ UNCHANGED <<pc, now, due, current, tcpip_tcp_timer_active, pcbs>>

sys_check_timeouts ==
  /\ pc = "idle"
  /\ pc' = "check"
  /\ now' = clock
  /\ UNCHANGED <<clock, overflowed, next_timeout, due, lag, current, tcpip_tcp_timer_active, pcbs>>

\* Variant: time is read anew for each timeout.
ExpiredMutant == /\ next_timeout # << >>
                 /\ ~TIME_LESS_THAN(clock, Head(next_timeout).time)

\* Variant: times are compared as numbers.
ExpiredPlainMutant == next_timeout # << >> /\ now >= Head(next_timeout).time

\* Variant: a timeout is due at its time and not after it.
ExpiredEqualMutant == next_timeout # << >> /\ now = Head(next_timeout).time

Expired == /\ next_timeout # << >>
           /\ ~TIME_LESS_THAN(now, Head(next_timeout).time)

CallHandler ==
  /\ pc = "check" /\ Expired
  /\ pc' = "call"
  /\ current' = Head(next_timeout).id
  /\ due' = Head(next_timeout).time /\ lag' = -Head(next_timeout).left
  /\ next_timeout' = Tail(next_timeout)
  /\ UNCHANGED <<clock, overflowed, now, tcpip_tcp_timer_active, pcbs>>

CheckReturns ==
  /\ pc = "check" /\ ~Expired
  /\ pc' = "idle"
  /\ now' = 0
  /\ UNCHANGED <<clock, overflowed, next_timeout, due, lag, current, tcpip_tcp_timer_active, pcbs>>

\* The rest of lwip_cyclic_timer, after its handler.
lwip_cyclic_timer ==
  /\ pc = "call" /\ current \in Cyclic
  /\ pc' = "check" /\ current' = "none" /\ due' = 0 /\ lag' = 0
  /\ LET next == (due + Interval[current]) % Mod
     IN  IF TIME_LESS_THAN(next, clock)
         THEN sys_timeout(current)
         ELSE sys_timeout_abs(current, next, Interval[current] - lag)
  /\ UNCHANGED <<clock, overflowed, now, tcpip_tcp_timer_active, pcbs>>

\* tcp_tmr may close connections.
tcpip_tcp_timer ==
  /\ pc = "call" /\ current = "tcp"
  /\ pc' = "check" /\ current' = "none" /\ due' = 0 /\ lag' = 0
  /\ pcbs' \in {FALSE, pcbs}
  /\ IF pcbs' THEN sys_timeout("tcp") /\ UNCHANGED tcpip_tcp_timer_active
     ELSE tcpip_tcp_timer_active' = FALSE /\ UNCHANGED next_timeout
  /\ UNCHANGED <<clock, overflowed, now>>

\* TCP_REG and TCP_RMV, called for a frame or from user_loop.
TcpReg ==
  /\ pc = "idle"
  /\ pcbs' = TRUE
  /\ tcp_timer_needed
  /\ UNCHANGED <<pc, clock, overflowed, now, due, lag, current>>

TcpRmv ==
  /\ pc = "idle" /\ pcbs
  /\ pcbs' = FALSE
  /\ UNCHANGED <<pc, clock, overflowed, next_timeout, now, due, lag, current,
                 tcpip_tcp_timer_active>>

\* sys_timeouts_init, at any reading of the clock: one call of sys_timeout for
\* each timer but TCP's.
InitTimer ==
  /\ pc = "init"
  /\ \E i \in Cyclic \ Pending : sys_timeout(i)
  /\ UNCHANGED <<pc, clock, overflowed, now, due, lag, current, tcpip_tcp_timer_active, pcbs>>

InitReturns ==
  /\ pc = "init" /\ Cyclic \subseteq Pending
  /\ pc' = "idle"
  /\ UNCHANGED <<clock, overflowed, next_timeout, now, due, lag, current,
                 tcpip_tcp_timer_active, pcbs>>

Init ==
  /\ pc = "init" /\ clock \in Reading /\ overflowed = FALSE
  /\ next_timeout = << >>
  /\ now = 0 /\ due = 0 /\ lag = 0 /\ current = "none"
  /\ tcpip_tcp_timer_active = FALSE /\ pcbs = FALSE

MainStep == \/ InitTimer \/ InitReturns
            \/ sys_check_timeouts \/ CallHandler \/ CheckReturns
            \/ lwip_cyclic_timer \/ tcpip_tcp_timer

Next == Tick \/ MainStep \/ TcpReg \/ TcpRmv

\* main's loop spins and the clock runs.
Fairness == WF_vars(MainStep) /\ WF_vars(Tick)

Spec == Init /\ [][Next]_vars /\ Fairness
-----------------------------------------------------------------------------
Timeout == [id : Timer, time : 0 .. Mod - 1, left : Int]

TypeOK ==
  /\ pc \in {"init", "idle", "check", "call"}
  /\ {clock, now, due} \subseteq 0 .. Mod - 1 /\ overflowed \in BOOLEAN
  /\ next_timeout \in Seq(Timeout) /\ Len(next_timeout) <= PoolSize
  /\ lag \in Int /\ current \in Timer \cup {"none"}
  /\ tcpip_tcp_timer_active \in BOOLEAN /\ pcbs \in BOOLEAN

(***************************************************************************)
(* No handler is called before its time, although the times compared have  *)
(* wrapped (TIME_LESS_THAN).  This is so until clock() overflows; if it    *)
(* does in a handler, what the handler schedules looks due to              *)
(* sys_check_timeouts, which still has the time from before.               *)
(***************************************************************************)
NeverEarly == ~overflowed /\ pc = "call" => lag >= 0

(***************************************************************************)
(* The list is in the order of the true times: the first one is due first, *)
(* wherever u32_t wraps between its members.  This is so until clock()     *)
(* overflows; a timeout that is set after that goes in front of the ones   *)
(* that were set before.                                                   *)
(***************************************************************************)
InOrder == \A k \in 1 .. Len(next_timeout) - 1 :
             next_timeout[k].left <= next_timeout[k + 1].left
Sorted == ~overflowed => InOrder

(***************************************************************************)
(* Each timer of the stack is in the list once, or its handler is running: *)
(* none is lost to an empty pool and none is scheduled twice.  The TCP     *)
(* timer is there exactly while it is marked active, and that as long as   *)
(* there are connections.                                                  *)
(***************************************************************************)
EachTimerOnce ==
  /\ IsInjective([k \in DOMAIN next_timeout |-> next_timeout[k].id])
  /\ current \notin Pending
  /\ pc # "init" => Cyclic \subseteq Pending \cup {current}
  /\ tcpip_tcp_timer_active <=> "tcp" \in Pending \cup {current}
  /\ pcbs => tcpip_tcp_timer_active

(***************************************************************************)
(* sys_check_timeouts comes back, also when the handlers take longer than  *)
(* the intervals of the timers ("Process only timers expired at the start  *)
(* of the function").  Only when clock() overflows under it, in a handler, *)
(* does it find everything due that the handlers schedule.                 *)
(***************************************************************************)
Jumped == pc \in {"check", "call"} /\ TIME_LESS_THAN(clock, now)
CheckEnds == (pc = "check") ~> (pc = "idle" \/ Jumped)

(***************************************************************************)
(* Every timer is served again and again, over any number of wraps and     *)
(* overflows: "Uses sys_now() to call timeout handler functions when       *)
(* timeouts expire" (timeouts.c:346).  The one that is not is a timer that *)
(* waits for a time sys_now() never shows, because clock() overflows       *)
(* before it gets there.                                                   *)
(***************************************************************************)
Stranded(i) ==
  \E k \in DOMAIN next_timeout : /\ next_timeout[k].id = i
                                /\ next_timeout[k].time \notin Reading
AllServed == \A i \in Cyclic : []<>(current = i \/ Stranded(i))
=============================================================================
