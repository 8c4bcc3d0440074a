----------------------------- MODULE DhcpProofs -----------------------------
(***************************************************************************)
(* Proofs about the DHCP client, for every set of leases, every width of   *)
(* its counters and any number of faults.                                  *)
(***************************************************************************)
EXTENDS Dhcp, TLAPS

Tick16 == 0 .. U16 - 1

Struct == [state : State, tries : 0 .. MaxTries, request_timeout : 0 .. 1,
           xid : 0 .. 1, offered_ip_addr : Addr \cup {NoAddr},
           offered_t0_lease : Time, offered_t1_renew : Time,
           offered_t2_rebind : Time,
           t0_timeout : Tick16, t2_timeout : Tick16,
           t1_renew_time : Tick16, t2_rebind_time : Tick16,
           lease_used : Tick16]

(***************************************************************************)
(* The acknowledgements and offers under way carry an address.             *)
(***************************************************************************)
Carries(n) == \A m \in n : /\ m \in Message
                           /\ m.type = "ACK" => m.addr \in Addr /\ m.lease \in Lease
                           /\ m.type = "OFFER" => m.addr \in Addr

Exchange == {"SELECTING", "REQUESTING", "CHECKING", "BACKING_OFF"}

(***************************************************************************)
(* struct dhcp by itself: the fine timer runs in an exchange, the lease    *)
(* clock is short of its end, and an address is on offer where one is      *)
(* checked or used.                                                        *)
(***************************************************************************)
Sound(d) == /\ d \in Struct
            /\ d.state \in Exchange => d.request_timeout = 1
            /\ d.t0_timeout > 0 => d.lease_used < d.t0_timeout
            /\ d.state \in {"CHECKING", "BOUND"} => d.offered_ip_addr \in Addr

(***************************************************************************)
(* The interface and struct dhcp: the clock of the lease in use is the     *)
(* time the address has been held.                                         *)
(***************************************************************************)
InUse == /\ addr \in Addr \cup {NoAddr} /\ held \in Nat
         /\ dhcp.state = "BOUND" => addr = dhcp.offered_ip_addr
         /\ addr # NoAddr => dhcp.state \in Supplied
         /\ addr # NoAddr /\ dhcp.offered_t0_lease # Forever
              => /\ dhcp.t0_timeout = Ticks(dhcp.offered_t0_lease)
                 /\ held = dhcp.lease_used

Inv == Sound(dhcp) /\ InUse /\ Carries(net)

LEMMA Facts ==
  /\ NoAddr \notin Addr
  /\ TICK \in Nat \ {0} /\ U16 \in Nat \ {0, 1} /\ U32 \in Nat \ {0}
  /\ SelectTries \in Nat /\ MaxTries \in Nat /\ MaxTries >= 2
  /\ 0 \in Time /\ Forever \in Time
  BY DhcpAssumption DEF Time, Forever

LEMMA TicksType == \A t \in Time : Ticks(t) \in 1 .. U16 - 1
<1> SUFFICES ASSUME NEW t \in Time PROVE Ticks(t) \in 1 .. U16 - 1
  OBVIOUS
<1> DEFINE x == (t + TICK \div 2) % U32
           n == x \div TICK
<1>1. t \in Nat /\ U32 \in Nat \ {0} /\ TICK \in Nat \ {0} /\ U16 \in Nat \ {0, 1}
  BY Facts DEF Time, Forever
<1>2. TICK \div 2 \in Nat
  BY <1>1
<1>3. x \in Nat
  BY <1>1, <1>2
<1>4. n \in Nat
  BY <1>1, <1>3
<1>5. Ticks(t) = IF n = 0 THEN 1 ELSE IF n < U16 THEN n ELSE U16 - 1
  BY DEF Ticks
<1> HIDE DEF n
<1> QED
  BY <1>1, <1>4, <1>5

(***************************************************************************)
(* What the functions on struct dhcp return.                               *)
(***************************************************************************)
LEMMA SetState ==
  ASSUME NEW d \in Struct, NEW s \in State
  PROVE  LET e == dhcp_set_state(d, s)
         IN  /\ e \in Struct /\ e.state = s
             /\ e.offered_ip_addr = d.offered_ip_addr
             /\ e.offered_t0_lease = d.offered_t0_lease
             /\ e.t0_timeout = d.t0_timeout /\ e.lease_used = d.lease_used
<1>1. 0 \in 0 .. MaxTries /\ 0 \in 0 .. 1
  BY Facts
<1>2. CASE s = d.state
  BY <1>2 DEF dhcp_set_state
<1>3. CASE s # d.state
  <2>1. dhcp_set_state(d, s) = [d EXCEPT !.state = s, !.tries = 0, !.request_timeout = 0]
    BY <1>3 DEF dhcp_set_state
  <2> QED
    BY <1>1, <2>1 DEF Struct
<1> QED
  BY <1>2, <1>3

LEMMA TriedIs ==
  ASSUME NEW d \in Struct
  PROVE  LET e == Tried(d)
         IN  /\ e \in Struct /\ e.state = d.state /\ e.request_timeout = 1
             /\ e.offered_ip_addr = d.offered_ip_addr
             /\ e.offered_t0_lease = d.offered_t0_lease
             /\ e.t0_timeout = d.t0_timeout /\ e.lease_used = d.lease_used
<1> DEFINE n == IF d.tries < MaxTries THEN d.tries + 1 ELSE d.tries
<1>1. n \in 0 .. MaxTries /\ 1 \in 0 .. 1
  BY Facts DEF Struct
<1>2. Tried(d) = [d EXCEPT !.tries = n, !.request_timeout = 1]
  BY DEF Tried
<1> HIDE DEF n
<1> QED
  BY <1>1, <1>2 DEF Struct

\* A function that enters state s, sends and waits.
LEMMA Waiting ==
  ASSUME NEW d \in Struct, NEW s \in State
  PROVE  LET e == Tried(dhcp_set_state(d, s))
         IN  /\ e \in Struct /\ e.state = s /\ e.request_timeout = 1
             /\ e.offered_ip_addr = d.offered_ip_addr
             /\ e.offered_t0_lease = d.offered_t0_lease
             /\ e.t0_timeout = d.t0_timeout /\ e.lease_used = d.lease_used
  BY SetState, TriedIs

LEMMA CreateMsg ==
  ASSUME NEW d \in Struct, NEW type, NEW ok \in BOOLEAN
  PROVE  LET e == dhcp_create_msg(d, type, ok)
         IN  /\ e \in Struct /\ e.state = d.state
             /\ e.offered_ip_addr = d.offered_ip_addr
             /\ e.offered_t0_lease = d.offered_t0_lease
             /\ e.t0_timeout = d.t0_timeout /\ e.lease_used = d.lease_used
  BY Facts DEF Struct, dhcp_create_msg

LEMMA Discovers ==
  ASSUME NEW d \in Struct, NEW ok \in BOOLEAN
  PROVE  LET e == dhcp_discover(d, ok)
         IN  /\ e \in Struct /\ e.state = "SELECTING" /\ e.request_timeout = 1
             /\ e.t0_timeout = d.t0_timeout /\ e.lease_used = d.lease_used
<1> DEFINE c == [d EXCEPT !.offered_ip_addr = NoAddr]
<1>1. c \in Struct /\ c.t0_timeout = d.t0_timeout /\ c.lease_used = d.lease_used
  BY DEF Struct
<1>2. "SELECTING" \in State
  BY DEF State
<1> HIDE DEF c
<1>3. LET e == dhcp_set_state(c, "SELECTING")
      IN  /\ e \in Struct /\ e.state = "SELECTING"
          /\ e.t0_timeout = d.t0_timeout /\ e.lease_used = d.lease_used
  BY <1>1, <1>2, SetState
<1>4. Selecting(d) = dhcp_set_state(c, "SELECTING")
  BY DEF Selecting, c
<1> QED
  BY <1>3, <1>4, CreateMsg, TriedIs DEF dhcp_discover

LEMMA Binds ==
  ASSUME NEW d \in Struct
  PROVE  LET e == dhcp_bind(d)
         IN  /\ e \in Struct /\ e.state = "BOUND"
             /\ e.offered_ip_addr = d.offered_ip_addr
             /\ e.offered_t0_lease = d.offered_t0_lease
             /\ e.lease_used = 0
             /\ e.t0_timeout = IF d.offered_t0_lease = Forever THEN d.t0_timeout
                               ELSE Ticks(d.offered_t0_lease)
<1> DEFINE t2 == IF d.offered_t2_rebind = Forever THEN d.t2_timeout
                                                  ELSE Ticks(d.offered_t2_rebind)
           t0 == IF d.offered_t0_lease = Forever THEN d.t0_timeout
                 ELSE Ticks(d.offered_t0_lease)
           t1 == IF d.offered_t1_renew = Forever THEN d.t1_renew_time
                 ELSE Ticks(d.offered_t1_renew)
           t3 == IF d.offered_t2_rebind = Forever THEN d.t2_rebind_time ELSE t2
           c == [d EXCEPT !.lease_used = 0, !.t0_timeout = t0, !.t1_renew_time = t1,
                          !.t2_timeout = t2, !.t2_rebind_time = t3]
<1>1. t0 \in Tick16 /\ t1 \in Tick16 /\ t2 \in Tick16 /\ t3 \in Tick16 /\ 0 \in Tick16
  BY TicksType, Facts DEF Struct, Tick16
<1>2. dhcp_bind(d) = dhcp_set_state(c, "BOUND")
  BY DEF dhcp_bind
<1> HIDE DEF t0, t1, t2, t3
<1>3. /\ c \in Struct /\ c.offered_ip_addr = d.offered_ip_addr
      /\ c.offered_t0_lease = d.offered_t0_lease
      /\ c.lease_used = 0 /\ c.t0_timeout = t0
  BY <1>1 DEF Struct
<1>4. "BOUND" \in State
  BY DEF State, Supplied
<1> HIDE DEF c
<1> QED
  BY <1>2, <1>3, <1>4, SetState DEF t0

LEMMA HandlesAck ==
  ASSUME NEW d \in Struct, NEW m \in Message, m.addr \in Addr, m.lease \in Lease
  PROVE  LET e == dhcp_handle_ack(d, m)
         IN  /\ e \in Struct /\ e.state = d.state /\ e.offered_ip_addr = m.addr
             /\ e.t0_timeout = d.t0_timeout /\ e.lease_used = d.lease_used
<1> DEFINE t0 == GivenOr(m.lease.t0, d.offered_t0_lease)
           t1 == GivenOr(m.lease.t1, Half(t0))
           t2 == GivenOr(m.lease.t2, SevenEighths(t0))
<1>1. t0 \in Time
  BY DhcpAssumption DEF Struct, GivenOr, Time
<1> HIDE DEF t0
<1>2. Half(t0) \in Time
  BY <1>1, Facts DEF Half, Time, Forever
<1>3. SevenEighths(t0) \in Time
  <2>1. t0 \in Nat /\ U32 \in Nat \ {0}
    BY <1>1, Facts DEF Time, Forever
  <2>2. t0 * 7 \in Nat
    BY <2>1
  <2>3. (t0 * 7) % U32 \in 0 .. U32 - 1
    BY <2>1, <2>2
  <2> QED
    BY <2>1, <2>3 DEF SevenEighths, Time, Forever
<1>4. t1 \in Time /\ t2 \in Time
  BY <1>2, <1>3, DhcpAssumption DEF GivenOr, Time
<1>5. dhcp_handle_ack(d, m) = [d EXCEPT !.offered_t0_lease = t0, !.offered_t1_renew = t1,
                                        !.offered_t2_rebind = t2,
                                        !.offered_ip_addr = m.addr]
  BY DEF dhcp_handle_ack, t0
<1> HIDE DEF t1, t2
<1> QED
  BY <1>1, <1>4, <1>5 DEF Struct

(***************************************************************************)
(* What is sent carries what it should.                                    *)
(***************************************************************************)
LEMMA SendCarries ==
  ASSUME NEW n, Carries(n), NEW d \in Struct, NEW type \in {"DISCOVER", "REQUEST"},
         NEW a \in Addr \cup {NoAddr}, NEW ok \in BOOLEAN
  PROVE  Carries(Sent(n, d, Msg(type, a, Absent), ok))
<1>1. Msg(type, a, Absent) \in Message
  BY DEF Msg, Message
<1>2. Msg(type, a, Absent).type = type
  BY DEF Msg
<1>3. Carries({}) /\ Carries(n)
  BY DEF Carries
<1>4. Carries(NewXid(n, d, type, ok))
  BY <1>3 DEF NewXid
<1> QED
  BY <1>1, <1>2, <1>4 DEF Sent, Carries

LEMMA NewXidCarries ==
  ASSUME NEW n, Carries(n), NEW d, NEW type, NEW ok \in BOOLEAN
  PROVE  Carries(NewXid(n, d, type, ok))
  BY DEF Carries, NewXid

\* An interface without an address asks nothing of struct dhcp but not to be bound.
LEMMA NotInUse ==
  ASSUME addr' = NoAddr, held' \in Nat, dhcp'.state # "BOUND"
  PROVE  InUse'
  BY DEF InUse

LEMMA ClearedIs == Cleared \in Struct /\ Selecting(Cleared) \in Struct
<1>1. Cleared \in Struct
  BY Facts DEF Cleared, Struct, State, Tick16
<1>2. "SELECTING" \in State
  BY DEF State
<1>3. [Cleared EXCEPT !.offered_ip_addr = NoAddr] \in Struct
  BY <1>1 DEF Struct
<1> QED
  BY <1>1, <1>2, <1>3, SetState DEF Selecting

LEMMA SelectingIs ==
  ASSUME NEW d \in Struct
  PROVE  Selecting(d) \in Struct
<1>1. "SELECTING" \in State
  BY DEF State
<1>2. [d EXCEPT !.offered_ip_addr = NoAddr] \in Struct
  BY DEF Struct
<1> QED
  BY <1>1, <1>2, SetState DEF Selecting

\* A client that starts discovering keeps its clock.
LEMMA DiscoverSound ==
  ASSUME NEW d \in Struct, d.t0_timeout > 0 => d.lease_used < d.t0_timeout,
         NEW ok \in BOOLEAN
  PROVE  Sound(dhcp_discover(d, ok)) /\ dhcp_discover(d, ok).state = "SELECTING"
  BY Discovers DEF Sound

LEMMA RestartInv ==
  ASSUME Inv, NEW okRelease \in BOOLEAN, NEW ok \in BOOLEAN, Restart(okRelease, ok)
  PROVE  Inv'
<1>1. Sound(dhcp') /\ dhcp'.state = "SELECTING"
  <2>1. Cleared.t0_timeout = 0
    BY DEF Cleared
  <2> QED
    BY <2>1, ClearedIs, DiscoverSound DEF Restart
<1>2. InUse'
  BY <1>1, NotInUse DEF Restart
<1>3. Carries(net')
  BY ClearedIs, SendCarries, NewXidCarries DEF Inv, Restart
<1> QED
  BY <1>1, <1>2, <1>3 DEF Inv

LEMMA FineTimerInv ==
  ASSUME Inv, dhcp_fine_tmr
  PROVE  Inv'
<1>1. dhcp \in Struct /\ addr \in Addr \cup {NoAddr} /\ held \in Nat /\ Carries(net)
  BY DEF Inv, Sound, InUse
<1>2. /\ Waited \in Struct /\ Waited.state = dhcp.state
      /\ Waited.offered_ip_addr = dhcp.offered_ip_addr
      /\ Waited.offered_t0_lease = dhcp.offered_t0_lease
      /\ Waited.t0_timeout = dhcp.t0_timeout /\ Waited.lease_used = dhcp.lease_used
  BY <1>1 DEF Waited, Struct
<1>3. dhcp.t0_timeout > 0 => dhcp.lease_used < dhcp.t0_timeout
  BY DEF Inv, Sound
<1>4. ASSUME NEW ok \in BOOLEAN, DiscoverAgain(ok) PROVE Inv'
  <2>1. Sound(dhcp') /\ dhcp'.state = "SELECTING"
    BY <1>2, <1>3, <1>4, DiscoverSound DEF DiscoverAgain
  <2>2. InUse'
    <3>1. addr = NoAddr
      BY <1>4 DEF DiscoverAgain, Inv, InUse, Supplied
    <3> QED
      BY <1>1, <1>4, <2>1, <3>1, NotInUse DEF DiscoverAgain
  <2>3. Carries(net')
    BY <1>1, <1>4, SelectingIs, SendCarries DEF DiscoverAgain
  <2> QED
    BY <2>1, <2>2, <2>3 DEF Inv
<1>5. ASSUME NEW ok \in BOOLEAN, SelectAgain(ok) PROVE Inv'
  <2>1. "REQUESTING" \in State
    BY DEF State
  <2>2. Sound(dhcp') /\ dhcp'.state = "REQUESTING"
    BY <1>2, <1>3, <1>5, <2>1, Waiting DEF SelectAgain, dhcp_select, Sound
  <2>3. InUse'
    <3>1. addr = NoAddr
      BY <1>5 DEF SelectAgain, Inv, InUse, Supplied
    <3> QED
      BY <1>1, <1>5, <2>2, <3>1, NotInUse DEF SelectAgain
  <2>4. Carries(net')
    <3>1. dhcp.offered_ip_addr \in Addr \cup {NoAddr}
      BY <1>1 DEF Struct
    <3> QED
      BY <1>1, <1>5, <3>1, SendCarries DEF SelectAgain
  <2> QED
    BY <2>2, <2>3, <2>4 DEF Inv
<1>6. ASSUME NEW okRelease \in BOOLEAN, NEW ok \in BOOLEAN, SelectFails(okRelease, ok)
      PROVE  Inv'
  BY <1>6, RestartInv DEF SelectFails
<1>7. CASE CheckAgain
  <2>1. "CHECKING" \in State
    BY DEF State
  <2>2. Sound(dhcp') /\ dhcp'.state = "CHECKING"
    BY <1>2, <1>3, <1>7, <2>1, Waiting DEF CheckAgain, dhcp_check, Sound, Inv
  <2>3. InUse'
    <3>1. addr = NoAddr
      BY <1>7 DEF CheckAgain, Inv, InUse, Supplied
    <3> QED
      BY <1>1, <1>7, <2>2, <3>1, NotInUse DEF CheckAgain
  <2> QED
    BY <1>1, <1>7, <2>2, <2>3 DEF Inv, CheckAgain
<1>8. CASE CheckPassed
  <2>1. dhcp.offered_ip_addr \in Addr
    BY <1>8 DEF Inv, Sound, CheckPassed
  <2>2. dhcp' = dhcp_bind(Waited) /\ addr' = dhcp.offered_ip_addr /\ held' = 0
    BY <1>8 DEF CheckPassed
  <2>3. Sound(dhcp')
    BY <1>2, <2>1, <2>2, Binds DEF Sound, Exchange, Struct, Tick16
  <2>4. InUse'
    BY <1>2, <2>1, <2>2, Binds DEF InUse, Supplied
  <2> QED
    BY <1>1, <1>8, <2>3, <2>4 DEF Inv, CheckPassed
<1>9. CASE NobodyWaits
  <2>1. dhcp' = Waited /\ dhcp.state \in Supplied /\ UNCHANGED <<addr, held, net>>
    BY <1>9 DEF NobodyWaits
  <2>2. Sound(dhcp')
    BY <1>2, <1>3, <2>1 DEF Inv, Sound, Exchange, Supplied
  <2>3. InUse'
    BY <1>2, <2>1 DEF Inv, InUse
  <2> QED
    BY <1>1, <2>1, <2>2, <2>3 DEF Inv
<1> QED
  BY <1>4, <1>5, <1>6, <1>7, <1>8, <1>9 DEF dhcp_fine_tmr

(***************************************************************************)
(* A coarse tick that is not the lease's last: e is struct dhcp after it,  *)
(* whatever state and retry timers it ends with.                           *)
(***************************************************************************)
LEMMA TickInUse ==
  ASSUME Inv, ~LeaseOver, Ticked, UNCHANGED addr, dhcp' \in Struct,
         dhcp'.offered_t0_lease = dhcp.offered_t0_lease,
         dhcp'.offered_ip_addr = dhcp.offered_ip_addr,
         dhcp'.t0_timeout = dhcp.t0_timeout,
         dhcp'.lease_used = Used(dhcp).lease_used,
         dhcp'.state \in {"RENEWING", "REBINDING"} \/ dhcp'.state = dhcp.state
  PROVE  /\ InUse'
         /\ dhcp'.t0_timeout > 0 => dhcp'.lease_used < dhcp'.t0_timeout
<1>1. /\ dhcp \in Struct /\ dhcp.t0_timeout \in Nat /\ dhcp.lease_used \in Nat
      /\ dhcp.offered_t0_lease \in Time
  BY Facts DEF Inv, Sound, Struct, Tick16
<1>2. dhcp'.lease_used = IF dhcp.t0_timeout > 0 THEN dhcp.lease_used + 1 ELSE dhcp.lease_used
  BY <1>1 DEF Used, Struct
<1>3. dhcp'.t0_timeout > 0 => dhcp'.lease_used < dhcp'.t0_timeout
  BY <1>1, <1>2 DEF Inv, Sound, LeaseOver
<1>4. held' \in Nat
  BY DEF Inv, InUse, Ticked
<1>5. ASSUME addr # NoAddr, dhcp.offered_t0_lease # Forever
      PROVE  held' = dhcp'.lease_used /\ dhcp'.t0_timeout = Ticks(dhcp.offered_t0_lease)
  <2>1. dhcp.t0_timeout = Ticks(dhcp.offered_t0_lease) /\ held = dhcp.lease_used
    BY <1>5 DEF Inv, InUse
  <2>2. dhcp.t0_timeout > 0
    BY <1>1, <2>1, TicksType, Facts
  <2> QED
    BY <1>2, <1>5, <2>1, <2>2 DEF Ticked
<1> QED
  BY <1>3, <1>4, <1>5 DEF Inv, InUse, Supplied

LEMMA UsedIs ==
  ASSUME Inv, ~LeaseOver
  PROVE  LET e == Used(dhcp)
         IN  /\ e \in Struct /\ e.state = dhcp.state
             /\ e.request_timeout = dhcp.request_timeout
             /\ e.offered_ip_addr = dhcp.offered_ip_addr
             /\ e.offered_t0_lease = dhcp.offered_t0_lease
             /\ e.t0_timeout = dhcp.t0_timeout
<1> DEFINE u == IF dhcp.t0_timeout > 0 THEN dhcp.lease_used + 1 ELSE dhcp.lease_used
<1>1. dhcp \in Struct /\ U16 \in Nat
  BY Facts DEF Inv, Sound
<1>2. u \in Tick16
  BY <1>1 DEF Inv, Sound, LeaseOver, Struct, Tick16
<1>3. Used(dhcp) = [dhcp EXCEPT !.lease_used = u]
  BY DEF Used
<1> HIDE DEF u
<1> QED
  BY <1>1, <1>2, <1>3 DEF Struct

LEMMA DownType == \A t \in Tick16 : Down(t) \in Tick16
  BY Facts DEF Tick16, Down

LEMMA NextTryType ==
  ASSUME NEW a \in Tick16, NEW b \in Tick16
  PROVE  NextTry(a - b) \in Tick16
  BY Facts DEF Tick16, NextTry

LEMMA CoarseTimerInv ==
  ASSUME Inv, dhcp_coarse_tmr
  PROVE  Inv'
<1>1. dhcp \in Struct /\ addr \in Addr \cup {NoAddr} /\ Carries(net)
  BY DEF Inv, Sound, InUse
<1>2. ASSUME NEW okRelease \in BOOLEAN, NEW ok \in BOOLEAN, LeaseExpires(okRelease, ok)
      PROVE  Inv'
  BY <1>2, RestartInv DEF LeaseExpires
<1>3. ASSUME NEW ok \in BOOLEAN, dhcp_t2_timeout(ok) PROVE Inv'
  <2> DEFINE d == Used(dhcp)
             n == NextTry(d.t0_timeout - d.lease_used)
             e == [d EXCEPT !.t2_rebind_time = n]
  <2>1. ~LeaseOver /\ Ticked /\ UNCHANGED addr /\ "REBINDING" \in State
    BY <1>3 DEF dhcp_t2_timeout, State, Supplied
  <2>2. /\ d \in Struct /\ d.offered_ip_addr = dhcp.offered_ip_addr
        /\ d.offered_t0_lease = dhcp.offered_t0_lease /\ d.t0_timeout = dhcp.t0_timeout
    BY <2>1, UsedIs
  <2>3. dhcp' = Tried(dhcp_set_state(e, "REBINDING"))
    BY <1>3 DEF dhcp_t2_timeout, dhcp_rebind
  <2> HIDE DEF d
  <2>4. n \in Tick16
    BY <2>2, NextTryType DEF Struct
  <2> HIDE DEF n
  <2>5. /\ e \in Struct /\ e.offered_ip_addr = d.offered_ip_addr
        /\ e.offered_t0_lease = d.offered_t0_lease
        /\ e.t0_timeout = d.t0_timeout /\ e.lease_used = d.lease_used
    BY <2>2, <2>4 DEF Struct
  <2> HIDE DEF e
  <2>6. /\ dhcp' \in Struct /\ dhcp'.state = "REBINDING"
        /\ dhcp'.offered_ip_addr = dhcp.offered_ip_addr
        /\ dhcp'.offered_t0_lease = dhcp.offered_t0_lease
        /\ dhcp'.t0_timeout = dhcp.t0_timeout /\ dhcp'.lease_used = d.lease_used
    BY <2>1, <2>2, <2>3, <2>5, Waiting
  <2>7. InUse' /\ (dhcp'.t0_timeout > 0 => dhcp'.lease_used < dhcp'.t0_timeout)
    BY <2>1, <2>6, TickInUse DEF d
  <2>8. Carries(net')
    BY <1>1, <1>3, SendCarries DEF dhcp_t2_timeout
  <2> QED
    BY <2>6, <2>7, <2>8 DEF Inv, Sound, Exchange
<1>4. ASSUME NEW ok \in BOOLEAN, dhcp_t1_timeout(ok) PROVE Inv'
  <2> DEFINE d == Used(dhcp)
             n == NextTry(d.t2_timeout - d.lease_used)
             r == Down(d.t2_rebind_time)
             e == [d EXCEPT !.t2_rebind_time = r, !.t1_renew_time = n]
  <2>1. ~LeaseOver /\ Ticked /\ UNCHANGED addr /\ "RENEWING" \in State
    BY <1>4 DEF dhcp_t1_timeout, State, Supplied
  <2>2. /\ d \in Struct /\ d.offered_ip_addr = dhcp.offered_ip_addr
        /\ d.offered_t0_lease = dhcp.offered_t0_lease /\ d.t0_timeout = dhcp.t0_timeout
    BY <2>1, UsedIs
  <2>3. dhcp' = Tried(dhcp_set_state(e, "RENEWING"))
    BY <1>4 DEF dhcp_t1_timeout, dhcp_renew
  <2> HIDE DEF d
  <2>4. n \in Tick16 /\ r \in Tick16
    BY <2>2, NextTryType, DownType DEF Struct
  <2> HIDE DEF n, r
  <2>5. /\ e \in Struct /\ e.offered_ip_addr = d.offered_ip_addr
        /\ e.offered_t0_lease = d.offered_t0_lease
        /\ e.t0_timeout = d.t0_timeout /\ e.lease_used = d.lease_used
    BY <2>2, <2>4 DEF Struct
  <2> HIDE DEF e
  <2>6. /\ dhcp' \in Struct /\ dhcp'.state = "RENEWING"
        /\ dhcp'.offered_ip_addr = dhcp.offered_ip_addr
        /\ dhcp'.offered_t0_lease = dhcp.offered_t0_lease
        /\ dhcp'.t0_timeout = dhcp.t0_timeout /\ dhcp'.lease_used = d.lease_used
    BY <2>1, <2>2, <2>3, <2>5, Waiting
  <2>7. InUse' /\ (dhcp'.t0_timeout > 0 => dhcp'.lease_used < dhcp'.t0_timeout)
    BY <2>1, <2>6, TickInUse DEF d
  <2>8. Carries(net')
    BY <1>1, <1>4, SendCarries DEF dhcp_t1_timeout
  <2> QED
    BY <2>6, <2>7, <2>8 DEF Inv, Sound, Exchange
<1>5. CASE CoarseTick
  <2> DEFINE d == Used(dhcp)
             r == Down(d.t2_rebind_time)
             n == IF T2Over THEN d.t1_renew_time ELSE Down(d.t1_renew_time)
  <2>1. ~LeaseOver /\ Ticked /\ UNCHANGED <<addr, net>>
    BY <1>5 DEF CoarseTick
  <2>2. /\ d \in Struct /\ d.offered_ip_addr = dhcp.offered_ip_addr
        /\ d.state = dhcp.state /\ d.request_timeout = dhcp.request_timeout
        /\ d.offered_t0_lease = dhcp.offered_t0_lease /\ d.t0_timeout = dhcp.t0_timeout
    BY <2>1, UsedIs
  <2>3. dhcp' = [d EXCEPT !.t2_rebind_time = r, !.t1_renew_time = n]
    BY <1>5 DEF CoarseTick
  <2> HIDE DEF d
  <2>4. n \in Tick16 /\ r \in Tick16
    BY <2>2, DownType DEF Struct
  <2> HIDE DEF n, r
  <2>5. /\ dhcp' \in Struct /\ dhcp'.state = dhcp.state
        /\ dhcp'.request_timeout = dhcp.request_timeout
        /\ dhcp'.offered_ip_addr = dhcp.offered_ip_addr
        /\ dhcp'.offered_t0_lease = dhcp.offered_t0_lease
        /\ dhcp'.t0_timeout = dhcp.t0_timeout /\ dhcp'.lease_used = d.lease_used
    BY <2>2, <2>3, <2>4 DEF Struct
  <2>6. InUse' /\ (dhcp'.t0_timeout > 0 => dhcp'.lease_used < dhcp'.t0_timeout)
    BY <2>1, <2>5, TickInUse DEF d
  <2> QED
    BY <1>1, <2>1, <2>5, <2>6 DEF Inv, Sound
<1> QED
  BY <1>2, <1>3, <1>4, <1>5 DEF dhcp_coarse_tmr

(***************************************************************************)
(* Messages and the remaining steps.                                       *)
(***************************************************************************)
LEMMA RecvInv ==
  ASSUME Inv, dhcp_recv
  PROVE  Inv'
<1>1. dhcp \in Struct /\ addr \in Addr \cup {NoAddr} /\ held \in Nat /\ Carries(net)
  BY DEF Inv, Sound, InUse
<1>2. dhcp.t0_timeout > 0 => dhcp.lease_used < dhcp.t0_timeout
  BY DEF Inv, Sound
<1>3. PICK m \in net : \E rest \in {net, net \ {m}} :
        \/ \E ok \in BOOLEAN : RecvOffer(m, rest, ok) \/ RecvNak(m, rest, ok)
        \/ RecvAckRequesting(m, rest) \/ RecvAckRenewed(m, rest) \/ RecvIgnored(m, rest)
  BY DEF dhcp_recv
<1>4. PICK rest \in {net, net \ {m}} :
        \/ \E ok \in BOOLEAN : RecvOffer(m, rest, ok) \/ RecvNak(m, rest, ok)
        \/ RecvAckRequesting(m, rest) \/ RecvAckRenewed(m, rest) \/ RecvIgnored(m, rest)
  BY <1>3
<1>5. Carries(rest) /\ m \in Message
  BY <1>1 DEF Carries
<1>6. ASSUME NEW ok \in BOOLEAN, RecvOffer(m, rest, ok) PROVE Inv'
  <2> DEFINE a == m.addr
             c == [dhcp EXCEPT !.request_timeout = 0, !.offered_ip_addr = a]
  <2>1. m.addr \in Addr /\ dhcp.state = "SELECTING"
    BY <1>1, <1>6 DEF RecvOffer, Handles, Carries
  <2>2. c \in Struct /\ c.t0_timeout = dhcp.t0_timeout /\ c.lease_used = dhcp.lease_used
    <3>1. a \in Addr \cup {NoAddr} /\ 0 \in 0 .. 1
      BY <2>1
    <3> HIDE DEF a
    <3> QED
      BY <1>1, <3>1 DEF Struct
  <2>3. dhcp' = Tried(dhcp_set_state(c, "REQUESTING")) /\ "REQUESTING" \in State
    BY <1>6 DEF RecvOffer, dhcp_select, State
  <2> HIDE DEF c
  <2>4. Sound(dhcp') /\ dhcp'.state = "REQUESTING"
    BY <1>2, <2>2, <2>3, Waiting DEF Sound
  <2>5. InUse'
    <3>1. addr = NoAddr
      BY <2>1 DEF Inv, InUse, Supplied
    <3> QED
      BY <1>1, <1>6, <2>4, <3>1, NotInUse DEF RecvOffer
  <2>6. Carries(net')
    BY <1>1, <1>5, <1>6, <2>1, SendCarries DEF RecvOffer
  <2> QED
    BY <2>4, <2>5, <2>6 DEF Inv
<1>7. ASSUME NEW ok \in BOOLEAN, RecvNak(m, rest, ok) PROVE Inv'
  <2>1. "BACKING_OFF" \in State
    BY DEF State
  <2>2. /\ BackingOff(dhcp) \in Struct
        /\ BackingOff(dhcp).t0_timeout = dhcp.t0_timeout
        /\ BackingOff(dhcp).lease_used = dhcp.lease_used
    BY <1>1, <2>1, SetState DEF BackingOff
  <2>3. Sound(dhcp') /\ dhcp'.state = "SELECTING"
    BY <1>2, <1>7, <2>2, DiscoverSound DEF RecvNak
  <2>4. InUse'
    BY <1>7, <2>3, NotInUse DEF RecvNak
  <2>5. Carries(net')
    BY <1>1, <1>5, <1>7, SelectingIs, SendCarries DEF RecvNak
  <2> QED
    BY <2>3, <2>4, <2>5 DEF Inv
<1>8. CASE RecvAckRequesting(m, rest)
  <2> DEFINE c == dhcp_handle_ack(dhcp, m)
  <2>1. m.addr \in Addr /\ m.lease \in Lease /\ dhcp.state = "REQUESTING"
    BY <1>1, <1>8 DEF RecvAckRequesting, Carries
  <2>2. /\ c \in Struct /\ c.offered_ip_addr = m.addr
        /\ c.t0_timeout = dhcp.t0_timeout /\ c.lease_used = dhcp.lease_used
    BY <1>1, <1>5, <2>1, HandlesAck
  <2>3. dhcp' = Tried(dhcp_set_state(c, "CHECKING")) /\ "CHECKING" \in State
    BY <1>8 DEF RecvAckRequesting, dhcp_check, State
  <2> HIDE DEF c
  <2>4. Sound(dhcp') /\ dhcp'.state = "CHECKING"
    BY <1>2, <2>1, <2>2, <2>3, Waiting DEF Sound
  <2>5. InUse'
    <3>1. addr = NoAddr
      BY <2>1 DEF Inv, InUse, Supplied
    <3> QED
      BY <1>1, <1>8, <2>4, <3>1, NotInUse DEF RecvAckRequesting
  <2> QED
    BY <1>5, <1>8, <2>4, <2>5 DEF Inv, RecvAckRequesting
<1>9. CASE RecvAckRenewed(m, rest)
  <2> DEFINE c == dhcp_handle_ack(dhcp, m)
  <2>1. m.addr \in Addr /\ m.lease \in Lease
    BY <1>1, <1>9 DEF RecvAckRenewed, Carries
  <2>2. c \in Struct /\ c.offered_ip_addr = m.addr
    BY <1>1, <1>5, <2>1, HandlesAck
  <2>3. dhcp' = dhcp_bind(c) /\ addr' = m.addr /\ held' = 0 /\ net' = rest
    BY <1>9 DEF RecvAckRenewed
  <2> HIDE DEF c
  <2>4. Sound(dhcp')
    BY <2>1, <2>2, <2>3, Binds DEF Sound, Exchange, Struct, Tick16
  <2>5. InUse'
    BY <2>1, <2>2, <2>3, Binds DEF InUse, Supplied
  <2> QED
    BY <1>5, <2>3, <2>4, <2>5 DEF Inv
<1>10. CASE RecvIgnored(m, rest)
  BY <1>5, <1>10 DEF RecvIgnored, Inv, InUse
<1> QED
  BY <1>4, <1>6, <1>7, <1>8, <1>9, <1>10

LEMMA StartInv ==
  ASSUME Inv, NEW ok \in BOOLEAN, dhcp_start(ok)
  PROVE  Inv'
<1>1. addr \in Addr \cup {NoAddr} /\ held \in Nat /\ Carries(net) /\ addr = NoAddr
  BY DEF Inv, InUse, dhcp_start, Supplied
<1>2. Sound(dhcp') /\ dhcp'.state = "SELECTING"
  <2>1. Cleared.t0_timeout = 0
    BY DEF Cleared
  <2> QED
    BY <2>1, ClearedIs, DiscoverSound DEF dhcp_start
<1>3. InUse'
  BY <1>1, <1>2, NotInUse DEF dhcp_start
<1>4. Carries(net')
  BY <1>1, ClearedIs, SendCarries DEF dhcp_start
<1> QED
  BY <1>2, <1>3, <1>4 DEF Inv

LEMMA ArpReplyInv ==
  ASSUME Inv, NEW ok \in BOOLEAN, dhcp_arp_reply(ok)
  PROVE  Inv'
<1>1. /\ dhcp \in Struct /\ held \in Nat /\ Carries(net) /\ addr = NoAddr
      /\ dhcp.t0_timeout > 0 => dhcp.lease_used < dhcp.t0_timeout
  BY DEF Inv, Sound, InUse, dhcp_arp_reply, Supplied
<1>2. "BACKING_OFF" \in State
  BY DEF State
<1>3. /\ BackingOff(dhcp) \in Struct /\ BackingOff(dhcp).state = "BACKING_OFF"
      /\ BackingOff(dhcp).t0_timeout = dhcp.t0_timeout
      /\ BackingOff(dhcp).lease_used = dhcp.lease_used
  BY <1>1, <1>2, SetState DEF BackingOff
<1> DEFINE c == dhcp_create_msg(BackingOff(dhcp), "DECLINE", ok)
<1>4. /\ c \in Struct /\ c.state = "BACKING_OFF"
      /\ c.t0_timeout = dhcp.t0_timeout /\ c.lease_used = dhcp.lease_used
  BY <1>3, CreateMsg
<1>5. dhcp' = Tried(c)
  BY DEF dhcp_arp_reply, dhcp_decline
<1> HIDE DEF c
<1>6. Sound(dhcp') /\ dhcp'.state = "BACKING_OFF"
  BY <1>1, <1>4, <1>5, TriedIs DEF Sound
<1>7. InUse'
  BY <1>1, <1>6, NotInUse DEF dhcp_arp_reply
<1>8. Carries(net')
  BY <1>1, NewXidCarries DEF dhcp_arp_reply
<1> QED
  BY <1>6, <1>7, <1>8 DEF Inv

LEMMA NetworkInv ==
  ASSUME Inv, ServerAnswers \/ Lose
  PROVE  Inv'
<1>1. UNCHANGED <<dhcp, addr, held>>
  BY DEF ServerAnswers, Lose
<1>2. Carries(net)
  BY DEF Inv
<1>3. ASSUME Lose PROVE Carries(net')
  BY <1>2, <1>3 DEF Lose, Carries
<1>4. ASSUME ServerAnswers PROVE Carries(net')
  <2>1. PICK m \in net :
          \/ \E a \in Addr : net' = (net \ {m}) \cup {Msg("OFFER", a, Absent)}
          \/ m.addr # NoAddr /\ \E l \in Lease :
                                  net' = (net \ {m}) \cup {Msg("ACK", m.addr, l)}
          \/ net' = net \ {m}
          \/ net' = (net \ {m}) \cup {Msg("NAK", NoAddr, Absent)}
    BY <1>4 DEF ServerAnswers
  <2>2. Carries(net \ {m}) /\ m.addr \in Addr \cup {NoAddr}
    BY <1>2 DEF Carries, Message
  <2>3. ASSUME NEW a \in Addr PROVE Carries({Msg("OFFER", a, Absent)})
    BY DEF Carries, Msg, Message
  <2>4. ASSUME m.addr # NoAddr, NEW l \in Lease PROVE Carries({Msg("ACK", m.addr, l)})
    BY <2>2, <2>4 DEF Carries, Msg, Message
  <2>5. Carries({Msg("NAK", NoAddr, Absent)})
    BY DEF Carries, Msg, Message
  <2>6. \A p, q : Carries(p) /\ Carries(q) => Carries(p \cup q)
    BY DEF Carries
  <2>7. ASSUME NEW a \in Addr, net' = (net \ {m}) \cup {Msg("OFFER", a, Absent)}
        PROVE  Carries(net')
    BY <2>2, <2>3, <2>6, <2>7
  <2>8. ASSUME m.addr # NoAddr, NEW l \in Lease,
               net' = (net \ {m}) \cup {Msg("ACK", m.addr, l)}
        PROVE  Carries(net')
    BY <2>2, <2>4, <2>6, <2>8
  <2>9. ASSUME net' = (net \ {m}) \cup {Msg("NAK", NoAddr, Absent)}
        PROVE  Carries(net')
    BY <2>2, <2>5, <2>6, <2>9
  <2> QED
    BY <2>1, <2>2, <2>7, <2>8, <2>9
<1>5. Carries(net')
  BY <1>3, <1>4
<1> QED
  BY <1>1, <1>5 DEF Inv, InUse

LEMMA AlwaysInv == Spec => []Inv
<1>1. Init => Inv
  <2> SUFFICES ASSUME Init PROVE Inv
    OBVIOUS
  <2>1. Cleared.state = "OFF" /\ Cleared.t0_timeout = 0
    BY DEF Cleared
  <2> QED
    BY <2>1, ClearedIs DEF Init, Inv, Sound, InUse, Carries, Exchange, Supplied
<1>2. Inv /\ [Next]_vars => Inv'
  <2> SUFFICES ASSUME Inv, [Next]_vars PROVE Inv'
    OBVIOUS
  <2>1. CASE UNCHANGED vars
    BY <2>1 DEF vars, Inv, InUse
  <2>2. CASE Next
    BY <2>2, StartInv, ArpReplyInv, FineTimerInv, CoarseTimerInv, RecvInv, NetworkInv
       DEF Next
  <2> QED
    BY <2>1, <2>2
<1> QED
  BY <1>1, <1>2, PTL DEF Spec

FewFaults == faults \in 0 .. MaxFaults

LEMMA FaultsBounded == FewFaults /\ [Next]_vars => FewFaults'
<1> SUFFICES ASSUME faults \in 0 .. MaxFaults, [Next]_vars
             PROVE  faults' \in 0 .. MaxFaults
  BY DEF FewFaults
<1>1. MaxFaults \in Nat
  BY DhcpAssumption
<1>2. \A ok \in BOOLEAN : Miss(ok) \in Nat
  BY DEF Miss
<1>3. \A rest : Kept(rest) \in Nat
  BY DEF Kept
<1>4. \A n \in Nat : Fault(n) => faults' \in 0 .. MaxFaults
  BY <1>1 DEF Fault
<1>5. CASE dhcp_fine_tmr \/ dhcp_coarse_tmr
  BY <1>2, <1>4, <1>5
     DEF dhcp_fine_tmr, DiscoverAgain, SelectAgain, SelectFails, CheckAgain,
         CheckPassed, NobodyWaits, dhcp_coarse_tmr, LeaseExpires, Restart,
         dhcp_t2_timeout, dhcp_t1_timeout, CoarseTick
<1>6. CASE dhcp_recv
  BY <1>2, <1>3, <1>4, <1>6
     DEF dhcp_recv, RecvOffer, RecvNak, RecvAckRequesting, RecvAckRenewed, RecvIgnored
<1>7. CASE ServerAnswers \/ Lose
  BY <1>4, <1>7 DEF ServerAnswers, Lose
<1>8. CASE \E ok \in BOOLEAN : dhcp_start(ok) \/ dhcp_arp_reply(ok)
  BY <1>2, <1>4, <1>8 DEF dhcp_start, dhcp_arp_reply
<1>9. CASE UNCHANGED vars
  BY <1>9 DEF vars
<1> QED
  BY <1>5, <1>6, <1>7, <1>8, <1>9 DEF Next

(***************************************************************************)
(* struct dhcp keeps its fields within their widths, the 16-bit timers of  *)
(* dhcp_bind and the lease clock of dhcp_coarse_tmr among them.            *)
(***************************************************************************)
THEOREM StructInRange == Spec => []TypeOK
<1>1. Init => FewFaults
  BY DhcpAssumption DEF Init, FewFaults
<1>2. Inv /\ FewFaults => TypeOK
  BY DEF FewFaults, Inv, Sound, Struct, Tick16, InUse, Carries, TypeOK
<1> QED
  BY <1>1, <1>2, FaultsBounded, AlwaysInv, PTL DEF Spec

(***************************************************************************)
(* The client of dhcp.c never waits for nothing: the fine timer runs       *)
(* during every exchange, and the lease clock is always short of the one   *)
(* value dhcp_coarse_tmr compares it with.                                 *)
(***************************************************************************)
THEOREM ClientNeverWaitsInVain == Spec => []NeverWaitsInVain
<1>1. Inv => NeverWaitsInVain
  <2> SUFFICES ASSUME Inv PROVE NeverWaitsInVain
    OBVIOUS
  <2>1. dhcp.offered_t0_lease \in Time
    BY DEF Inv, Sound, Struct
  <2>2. dhcp.state \in {"SELECTING", "REQUESTING", "CHECKING", "BACKING_OFF"}
          => dhcp.request_timeout > 0
    BY DEF Inv, Sound, Exchange
  <2>3. dhcp.t0_timeout > 0 => dhcp.lease_used < dhcp.t0_timeout
    BY DEF Inv, Sound
  <2>4. addr # NoAddr /\ dhcp.offered_t0_lease # Forever => dhcp.t0_timeout > 0
    BY <2>1, TicksType, Facts DEF Inv, InUse
  <2> QED
    BY <2>2, <2>3, <2>4 DEF NeverWaitsInVain
<1> QED
  BY <1>1, AlwaysInv, PTL

(***************************************************************************)
(* A client that is BOUND has the address it was offered on its interface, *)
(* and an address is on the interface in the states that                   *)
(* dhcp_supplied_address speaks for and in no other.                       *)
(***************************************************************************)
THEOREM BoundHasAddress == Spec => []SuppliedHasAddress
<1>1. Inv => SuppliedHasAddress
  BY Facts DEF Inv, Sound, InUse, SuppliedHasAddress
<1> QED
  BY <1>1, AlwaysInv, PTL

(***************************************************************************)
(* The ticks a lease is worth, rounded to the nearest and cut to 16 bits,  *)
(* are within the lease and half a tick, unless there is only one.         *)
(***************************************************************************)
LEMMA TicksWithin ==
  ASSUME NEW t \in Time, NEW k \in Nat, k < Ticks(t), k > 0
  PROVE  (k + 1) * TICK <= t + TICK \div 2
<1> DEFINE h == TICK \div 2
           x == (t + h) % U32
           n == x \div TICK
<1>1. t \in Nat /\ U32 \in Nat \ {0} /\ TICK \in Nat \ {0} /\ U16 \in Nat \ {0, 1}
  BY Facts DEF Time, Forever
<1>2. h \in Nat /\ h <= TICK
  BY <1>1
<1>3. Ticks(t) = IF n = 0 THEN 1 ELSE IF n < U16 THEN n ELSE U16 - 1
  BY DEF Ticks
<1> HIDE DEF h
<1>4. x \in Nat /\ x <= t + h
  <2> DEFINE y == t + h
  <2>1. y \in Nat
    BY <1>1, <1>2
  <2>2. y % U32 \in Nat /\ y % U32 <= y
    <3> HIDE DEF y
    <3>1. y % U32 \in 0 .. U32 - 1
      BY <1>1, <2>1
    <3>2. CASE y < U32
      BY <1>1, <2>1, <3>1, <3>2
    <3>3. CASE y >= U32
      BY <1>1, <2>1, <3>1, <3>3
    <3> QED
      BY <1>1, <2>1, <3>1, <3>2, <3>3
  <2> QED
    BY <2>2
<1> HIDE DEF x
<1>5. n \in Nat /\ n * TICK <= x
  BY <1>1, <1>4
<1> HIDE DEF n
<1>6. CASE n = 0
  BY <1>1, <1>3, <1>6
<1>7. CASE n # 0
  <2>1. k + 1 <= n
    BY <1>1, <1>3, <1>5, <1>7
  <2>2. (k + 1) * TICK <= n * TICK
    BY <1>1, <1>5, <1>7, <2>1
  <2>3. (k + 1) * TICK <= t + h
    BY <1>1, <1>2, <1>4, <1>5, <2>2
  <2> QED
    BY <2>3 DEF h
<1> QED
  BY <1>6, <1>7

(***************************************************************************)
(* Whatever is lost, repeated or refused, dhcp_coarse_tmr takes an address *)
(* off the interface at the latest half a tick after the end of its lease, *)
(* or at the first tick if the lease is rounded to one.                    *)
(***************************************************************************)
THEOREM AddressWithinLease == Spec => []WithinLease
<1>1. Inv => WithinLease
  <2> SUFFICES ASSUME Inv, addr # NoAddr, dhcp.offered_t0_lease # Forever, held > 0
               PROVE  (held + 1) * TICK <= dhcp.offered_t0_lease + TICK \div 2
    BY DEF WithinLease
  <2>1. dhcp.offered_t0_lease \in Time /\ held \in Nat
    BY DEF Inv, Sound, Struct, InUse
  <2>2. dhcp.t0_timeout = Ticks(dhcp.offered_t0_lease) /\ held = dhcp.lease_used
    BY DEF Inv, InUse
  <2>3. dhcp.t0_timeout > 0
    BY <2>1, <2>2, TicksType, Facts
  <2>4. held < Ticks(dhcp.offered_t0_lease)
    BY <2>2, <2>3 DEF Inv, Sound
  <2> QED
    BY <2>1, <2>4, TicksWithin
<1> QED
  BY <1>1, AlwaysInv, PTL

(***************************************************************************)
(* T1 of a client that is BOUND: it is counted down with the lease clock   *)
(* and has not come yet.                                                   *)
(***************************************************************************)
T1Runs ==
  dhcp.state = "BOUND" /\ dhcp.offered_t0_lease # Forever /\ dhcp.offered_t1_renew # Forever
    => /\ dhcp.t1_renew_time > 0
       /\ dhcp.t1_renew_time + dhcp.lease_used = Ticks(dhcp.offered_t1_renew)

LEMMA BindsT1 ==
  ASSUME NEW d \in Struct
  PROVE  LET e == dhcp_bind(d)
         IN  /\ e.offered_t1_renew = d.offered_t1_renew
             /\ d.offered_t1_renew # Forever => e.t1_renew_time = Ticks(d.offered_t1_renew)
<1> DEFINE t2 == IF d.offered_t2_rebind = Forever THEN d.t2_timeout
                                                  ELSE Ticks(d.offered_t2_rebind)
           t0 == IF d.offered_t0_lease = Forever THEN d.t0_timeout
                 ELSE Ticks(d.offered_t0_lease)
           t1 == IF d.offered_t1_renew = Forever THEN d.t1_renew_time
                 ELSE Ticks(d.offered_t1_renew)
           t3 == IF d.offered_t2_rebind = Forever THEN d.t2_rebind_time ELSE t2
           c == [d EXCEPT !.lease_used = 0, !.t0_timeout = t0, !.t1_renew_time = t1,
                          !.t2_timeout = t2, !.t2_rebind_time = t3]
<1>1. dhcp_bind(d) = dhcp_set_state(c, "BOUND")
  BY DEF dhcp_bind
<1> HIDE DEF t0, t1, t2, t3
<1>2. c.offered_t1_renew = d.offered_t1_renew /\ c.t1_renew_time = t1
  BY DEF Struct
<1>3. LET e == dhcp_set_state(c, "BOUND")
      IN  e.offered_t1_renew = c.offered_t1_renew /\ e.t1_renew_time = c.t1_renew_time
  BY DEF dhcp_set_state, Struct
<1> HIDE DEF c
<1> QED
  BY <1>1, <1>2, <1>3 DEF t1

LEMMA BoundT1 ==
  ASSUME NEW d \in Struct, dhcp' = dhcp_bind(d)
  PROVE  T1Runs'
<1>1. /\ dhcp'.lease_used = 0 /\ dhcp'.offered_t1_renew = d.offered_t1_renew
      /\ d.offered_t1_renew # Forever => dhcp'.t1_renew_time = Ticks(d.offered_t1_renew)
  BY Binds, BindsT1
<1>2. Ticks(d.offered_t1_renew) \in 1 .. U16 - 1
  BY TicksType DEF Struct
<1>3. Ticks(d.offered_t1_renew) > 0
      /\ Ticks(d.offered_t1_renew) + 0 = Ticks(d.offered_t1_renew)
  BY <1>2, Facts
<1> QED
  BY <1>1, <1>3 DEF T1Runs

LEMMA CoarseTickT1 ==
  ASSUME Inv, T1Runs, CoarseTick
  PROVE  T1Runs'
<1> DEFINE u == IF dhcp.t0_timeout > 0 THEN dhcp.lease_used + 1 ELSE dhcp.lease_used
           r == Down(dhcp.t2_rebind_time)
           n == IF T2Over THEN dhcp.t1_renew_time ELSE Down(dhcp.t1_renew_time)
<1>1. dhcp \in Struct
  BY DEF Inv, Sound
<1>2. Used(dhcp) = [dhcp EXCEPT !.lease_used = u]
  BY DEF Used
<1>3. dhcp' = [Used(dhcp) EXCEPT !.t2_rebind_time = Down(@),
                                 !.t1_renew_time = IF T2Over THEN @ ELSE Down(@)]
  BY DEF CoarseTick
<1> HIDE DEF u
<1>4. dhcp' = [dhcp EXCEPT !.lease_used = u, !.t2_rebind_time = r, !.t1_renew_time = n]
  BY <1>1, <1>2, <1>3 DEF Struct
<1> HIDE DEF n, r
<1>5. /\ dhcp'.state = dhcp.state /\ dhcp'.lease_used = u /\ dhcp'.t1_renew_time = n
      /\ dhcp'.offered_t0_lease = dhcp.offered_t0_lease
      /\ dhcp'.offered_t1_renew = dhcp.offered_t1_renew
  BY <1>1, <1>4 DEF Struct
<1> SUFFICES ASSUME dhcp.state = "BOUND", dhcp.offered_t0_lease # Forever,
                    dhcp.offered_t1_renew # Forever
             PROVE  n > 0 /\ n + u = Ticks(dhcp.offered_t1_renew)
  BY <1>5 DEF T1Runs
<1>6. /\ dhcp.t1_renew_time > 0
      /\ dhcp.t1_renew_time + dhcp.lease_used = Ticks(dhcp.offered_t1_renew)
  BY DEF T1Runs
<1>7. ~T2Over /\ ~T1Over
  BY DEF CoarseTick, Supplied
<1>8. dhcp.t0_timeout > 0
  <2>1. addr # NoAddr /\ dhcp.offered_t0_lease \in Time
    BY <1>1, Facts DEF Inv, Sound, InUse, Struct
  <2> QED
    BY <2>1, TicksType, Facts DEF Inv, InUse
<1>9. dhcp.t1_renew_time \in Nat /\ dhcp.lease_used \in Nat /\ dhcp.t1_renew_time # 1
  BY <1>1, <1>7, Facts DEF Struct, Tick16, T1Over
<1>10. n = dhcp.t1_renew_time - 1 /\ u = dhcp.lease_used + 1
  BY <1>6, <1>7, <1>8 DEF n, u, Down
<1> QED
  BY <1>6, <1>9, <1>10

LEMMA T1Step == Inv /\ T1Runs /\ [Next]_vars => T1Runs'
<1> SUFFICES ASSUME Inv, T1Runs, [Next]_vars PROVE T1Runs'
  OBVIOUS
<1>1. dhcp \in Struct /\ Carries(net)
  BY DEF Inv, Sound
<1>2. CASE UNCHANGED dhcp
  BY <1>2 DEF T1Runs
<1>3. CASE dhcp'.state # "BOUND"
  BY <1>3 DEF T1Runs
<1>4. ASSUME NEW d \in Struct, NEW s \in State \ {"BOUND"}, dhcp' = Tried(dhcp_set_state(d, s))
      PROVE  T1Runs'
  <2>1. dhcp'.state = s
    BY <1>4, Waiting
  <2> QED
    BY <1>3, <1>4, <2>1
<1>5. ASSUME NEW d \in Struct, NEW ok \in BOOLEAN, dhcp' = dhcp_discover(d, ok)
      PROVE  T1Runs'
  <2>1. dhcp'.state = "SELECTING"
    BY <1>5, Discovers
  <2> QED
    BY <1>3, <2>1
<1>6. {"REQUESTING", "CHECKING", "RENEWING", "REBINDING", "BACKING_OFF"} \subseteq State \ {"BOUND"}
  BY DEF State, Supplied
<1>7. Waited \in Struct
  BY <1>1 DEF Waited, Struct
<1>8. CASE dhcp_fine_tmr
  <2>1. CASE NobodyWaits
    <3>1. dhcp' = [dhcp EXCEPT !.request_timeout = 0]
      BY <2>1 DEF NobodyWaits, Waited
    <3> QED
      BY <1>1, <3>1 DEF Struct, T1Runs
  <2>2. CASE CheckPassed
    BY <1>7, <2>2, BoundT1 DEF CheckPassed
  <2>3. CASE CheckAgain
    BY <1>4, <1>6, <1>7, <2>3 DEF CheckAgain, dhcp_check
  <2>4. ASSUME NEW ok \in BOOLEAN, DiscoverAgain(ok) \/ SelectAgain(ok) PROVE T1Runs'
    BY <1>4, <1>5, <1>6, <1>7, <2>4 DEF DiscoverAgain, SelectAgain, dhcp_select
  <2>5. ASSUME NEW okRelease \in BOOLEAN, NEW ok \in BOOLEAN, SelectFails(okRelease, ok)
        PROVE  T1Runs'
    BY <1>5, <2>5, ClearedIs DEF SelectFails, Restart
  <2> QED
    BY <1>8, <2>1, <2>2, <2>3, <2>4, <2>5 DEF dhcp_fine_tmr
<1>9. CASE dhcp_coarse_tmr
  <2>1. CASE CoarseTick
    BY <2>1, CoarseTickT1
  <2>2. ASSUME NEW okRelease \in BOOLEAN, NEW ok \in BOOLEAN, LeaseExpires(okRelease, ok)
        PROVE  T1Runs'
    BY <1>5, <2>2, ClearedIs DEF LeaseExpires, Restart
  <2>3. ASSUME NEW ok \in BOOLEAN, dhcp_t2_timeout(ok) PROVE T1Runs'
    <3> DEFINE d == Used(dhcp)
               n == NextTry(d.t0_timeout - d.lease_used)
               e == [d EXCEPT !.t2_rebind_time = n]
    <3>1. d \in Struct
      BY <2>3, UsedIs DEF dhcp_t2_timeout
    <3>2. dhcp' = Tried(dhcp_set_state(e, "REBINDING"))
      BY <2>3 DEF dhcp_t2_timeout, dhcp_rebind
    <3> HIDE DEF d
    <3>3. n \in Tick16
      BY <3>1, NextTryType DEF Struct
    <3> HIDE DEF n
    <3>4. e \in Struct
      BY <3>1, <3>3 DEF Struct
    <3> HIDE DEF e
    <3> QED
      BY <1>4, <1>6, <3>2, <3>4
  <2>4. ASSUME NEW ok \in BOOLEAN, dhcp_t1_timeout(ok) PROVE T1Runs'
    <3> DEFINE d == Used(dhcp)
               n == NextTry(d.t2_timeout - d.lease_used)
               r == Down(d.t2_rebind_time)
               e == [d EXCEPT !.t2_rebind_time = r, !.t1_renew_time = n]
    <3>1. d \in Struct
      BY <2>4, UsedIs DEF dhcp_t1_timeout
    <3>2. dhcp' = Tried(dhcp_set_state(e, "RENEWING"))
      BY <2>4 DEF dhcp_t1_timeout, dhcp_renew
    <3> HIDE DEF d
    <3>3. n \in Tick16 /\ r \in Tick16
      BY <3>1, NextTryType, DownType DEF Struct
    <3> HIDE DEF n, r
    <3>4. e \in Struct
      BY <3>1, <3>3 DEF Struct
    <3> HIDE DEF e
    <3> QED
      BY <1>4, <1>6, <3>2, <3>4
  <2> QED
    BY <1>9, <2>1, <2>2, <2>3, <2>4 DEF dhcp_coarse_tmr
<1>10. CASE dhcp_recv
  <2>0. PICK m \in net : \E rest \in {net, net \ {m}} :
          \/ \E ok \in BOOLEAN : RecvOffer(m, rest, ok) \/ RecvNak(m, rest, ok)
          \/ RecvAckRequesting(m, rest) \/ RecvAckRenewed(m, rest) \/ RecvIgnored(m, rest)
    BY <1>10 DEF dhcp_recv
  <2>1. PICK rest \in {net, net \ {m}} :
          \/ \E ok \in BOOLEAN : RecvOffer(m, rest, ok) \/ RecvNak(m, rest, ok)
          \/ RecvAckRequesting(m, rest) \/ RecvAckRenewed(m, rest) \/ RecvIgnored(m, rest)
    BY <2>0
  <2>2. m \in Message /\ m.addr \in Addr \cup {NoAddr}
    BY <1>1 DEF Carries, Message
  <2>3. ASSUME NEW ok \in BOOLEAN, RecvOffer(m, rest, ok) PROVE T1Runs'
    <3> DEFINE e == [dhcp EXCEPT !.request_timeout = 0, !.offered_ip_addr = m.addr]
    <3>1. e \in Struct
      <4>1. 0 \in 0 .. 1
        OBVIOUS
      <4> QED
        BY <1>1, <2>2, <4>1, Zenon DEF Struct
    <3>2. dhcp' = Tried(dhcp_set_state(e, "REQUESTING"))
      BY <2>3 DEF RecvOffer, dhcp_select
    <3> HIDE DEF e
    <3> QED
      BY <1>4, <1>6, <3>1, <3>2
  <2>4. ASSUME NEW ok \in BOOLEAN, RecvNak(m, rest, ok) PROVE T1Runs'
    <3>1. BackingOff(dhcp) \in Struct
      BY <1>1, <1>6, SetState DEF BackingOff
    <3> QED
      BY <1>5, <2>4, <3>1 DEF RecvNak
  <2>5. ASSUME m.type = "ACK" PROVE dhcp_handle_ack(dhcp, m) \in Struct
    BY <1>1, <2>2, <2>5, HandlesAck DEF Carries
  <2>6. CASE RecvAckRequesting(m, rest)
    BY <1>4, <1>6, <2>5, <2>6 DEF RecvAckRequesting, dhcp_check
  <2>7. CASE RecvAckRenewed(m, rest)
    BY <2>5, <2>7, BoundT1 DEF RecvAckRenewed
  <2>8. CASE RecvIgnored(m, rest)
    BY <1>2, <2>8 DEF RecvIgnored
  <2> QED
    BY <2>1, <2>3, <2>4, <2>6, <2>7, <2>8
<1>11. CASE \E ok \in BOOLEAN : dhcp_start(ok) \/ dhcp_arp_reply(ok)
  <2>1. ASSUME NEW ok \in BOOLEAN, dhcp_start(ok) PROVE T1Runs'
    BY <1>5, <2>1, ClearedIs DEF dhcp_start
  <2>2. ASSUME NEW ok \in BOOLEAN, dhcp_arp_reply(ok) PROVE T1Runs'
    <3>1. dhcp' = Tried(dhcp_create_msg(BackingOff(dhcp), "DECLINE", ok))
      BY <2>2 DEF dhcp_arp_reply, dhcp_decline
    <3>2. BackingOff(dhcp) \in Struct /\ BackingOff(dhcp).state = "BACKING_OFF"
      BY <1>1, <1>6, SetState DEF BackingOff
    <3>3. dhcp'.state = "BACKING_OFF"
      BY <3>1, <3>2, CreateMsg, TriedIs
    <3> QED
      BY <1>3, <3>3
  <2> QED
    BY <1>11, <2>1, <2>2
<1>12. CASE ServerAnswers \/ Lose
  BY <1>2, <1>12 DEF ServerAnswers, Lose
<1>13. CASE UNCHANGED vars
  BY <1>2, <1>13 DEF vars
<1> QED
  BY <1>8, <1>9, <1>10, <1>11, <1>12, <1>13 DEF Next

(***************************************************************************)
(* Half of a lease is fewer ticks than the lease, in 16 bits and with the  *)
(* rounding of dhcp_bind, except for the shortest and the longest leases.  *)
(***************************************************************************)
LEMMA HalfComesFirst ==
  ASSUME NEW t \in Time, Ticks(Half(t)) >= Ticks(t)
  PROVE  \/ 2 * t < 3 * TICK
         \/ Half(t) >= (U16 - 1) * TICK - TICK \div 2
<1> DEFINE h == TICK \div 2
           g == Half(t)
<1>1. t \in Nat /\ U32 \in Nat \ {0} /\ TICK \in Nat \ {0} /\ U16 \in Nat \ {0, 1}
      /\ t < U32 /\ 2 * (U16 * TICK) <= U32
  BY Facts, DhcpAssumption DEF Time, Forever
<1>2. h \in Nat /\ 2 * h <= TICK /\ TICK <= 2 * h + 1
  BY <1>1
<1>3. g \in Nat /\ 2 * g <= t /\ t <= 2 * g + 1
  BY <1>1 DEF Half
<1>4. U16 * TICK \in Nat /\ (U16 - 1) * TICK = U16 * TICK - TICK
  BY <1>1
<1> HIDE DEF h
<1> SUFFICES ASSUME 2 * t >= 3 * TICK, g < (U16 - 1) * TICK - h
             PROVE  FALSE
  BY <1>1, <1>2, <1>3, <1>4 DEF h
<1> HIDE DEF g
<1>5. t + h < U32
  BY <1>1, <1>2, <1>3, <1>4
<1>6. (t + h) % U32 = t + h /\ (g + h) % U32 = g + h
  <2>1. t + h \in 0 .. U32 - 1 /\ g + h \in 0 .. U32 - 1
    BY <1>1, <1>2, <1>3, <1>5
  <2> QED
    BY <1>1, <2>1
<1> DEFINE n == (t + h) \div TICK
           k == (g + h) \div TICK
<1>7. n \in Nat /\ n * TICK <= t + h /\ t + h < n * TICK + TICK
  BY <1>1, <1>2
<1>8. k \in Nat /\ k * TICK <= g + h /\ g + h < k * TICK + TICK
  BY <1>1, <1>2, <1>3
<1>9. /\ Ticks(t) = IF n = 0 THEN 1 ELSE IF n < U16 THEN n ELSE U16 - 1
      /\ Ticks(g) = IF k = 0 THEN 1 ELSE IF k < U16 THEN k ELSE U16 - 1
  BY <1>6 DEF Ticks, h
<1>10. Ticks(g) >= Ticks(t)
  BY DEF g
<1> HIDE DEF n, k
<1>11. n >= 2
  <2>1. CASE n = 0
    BY <1>1, <1>2, <1>7, <2>1
  <2>2. CASE n = 1
    BY <1>1, <1>2, <1>7, <2>2
  <2> QED
    BY <1>7, <2>1, <2>2
<1>12. k < U16 - 1
  <2> SUFFICES ASSUME k >= U16 - 1 PROVE FALSE
    BY <1>1, <1>8
  <2>1. k * TICK >= (U16 - 1) * TICK
    BY <1>1, <1>8
  <2>2. k * TICK \in Nat
    BY <1>1, <1>8
  <2> QED
    BY <1>1, <1>2, <1>3, <1>4, <1>8, <2>1, <2>2
<1>13. k >= n
  <2>1. n \in Nat /\ k \in Nat /\ U16 \in Nat
    BY <1>1, <1>7, <1>8
  <2>2. Ticks(g) = k
    <3>1. k # 0
      BY <1>1, <1>2, <1>3, <1>8
    <3> QED
      BY <1>9, <1>12, <2>1, <3>1
  <2>3. Ticks(t) = IF n < U16 THEN n ELSE U16 - 1
    BY <1>9, <1>11, <2>1
  <2> QED
    BY <1>10, <1>11, <1>12, <2>1, <2>2, <2>3
<1>14. k * TICK >= n * TICK /\ n * TICK >= 2 * TICK /\ n * TICK \in Nat /\ k * TICK \in Nat
  BY <1>1, <1>7, <1>8, <1>11, <1>13
<1> QED
  BY <1>1, <1>2, <1>3, <1>7, <1>8, <1>14

(***************************************************************************)
(* A client that is BOUND does not lose its address before it has tried to *)
(* renew the lease: T1, half of the lease by default, comes first on every *)
(* behaviour of the coarse timer, except for leases too short or too long  *)
(* for its 16-bit ticks to tell T1 from the end.                           *)
(***************************************************************************)
THEOREM RenewalComesFirst == Spec => RenewsBeforeGivingUp
<1> DEFINE Step == /\ dhcp.state = "BOUND" /\ addr # NoAddr /\ addr' = NoAddr
                   /\ dhcp.offered_t1_renew = Half(dhcp.offered_t0_lease)
                   => \/ 2 * dhcp.offered_t0_lease < 3 * TICK
                      \/ Half(dhcp.offered_t0_lease) >= (U16 - 1) * TICK - TICK \div 2
                      \/ dhcp.offered_t0_lease = Forever
<1>1. Inv /\ T1Runs /\ [Next]_vars => [Step]_vars
  <2> SUFFICES ASSUME Inv, T1Runs, Next, dhcp.state = "BOUND", addr # NoAddr, addr' = NoAddr,
                      dhcp.offered_t1_renew = Half(dhcp.offered_t0_lease),
                      dhcp.offered_t0_lease # Forever
               PROVE  \/ 2 * dhcp.offered_t0_lease < 3 * TICK
                      \/ Half(dhcp.offered_t0_lease) >= (U16 - 1) * TICK - TICK \div 2
    BY DEF vars
  <2>1. LeaseOver
    BY DEF Next, dhcp_start, dhcp_arp_reply, dhcp_fine_tmr, DiscoverAgain, SelectAgain,
           SelectFails, CheckAgain, CheckPassed, NobodyWaits, dhcp_coarse_tmr,
           LeaseExpires, dhcp_t2_timeout, dhcp_t1_timeout, CoarseTick, dhcp_recv, Handles,
           RecvOffer, RecvAckRequesting, RecvAckRenewed, RecvNak, RecvIgnored,
           ServerAnswers, Lose
  <2>2. dhcp \in Struct /\ dhcp.offered_t0_lease \in Time /\ dhcp.lease_used \in Nat
        /\ dhcp.t1_renew_time \in Nat
    BY Facts DEF Inv, Sound, Struct, Tick16
  <2>3. dhcp.offered_t1_renew # Forever
    BY <2>2, Facts DEF Time, Forever, Half
  <2>4. dhcp.t1_renew_time > 0
        /\ dhcp.t1_renew_time + dhcp.lease_used = Ticks(Half(dhcp.offered_t0_lease))
    BY <2>3 DEF T1Runs
  <2>5. dhcp.lease_used + 1 = Ticks(dhcp.offered_t0_lease)
    BY <2>1 DEF LeaseOver, Inv, InUse
  <2>6. Ticks(Half(dhcp.offered_t0_lease)) >= Ticks(dhcp.offered_t0_lease)
    BY <2>2, <2>4, <2>5
  <2> QED
    BY <2>2, <2>6, HalfComesFirst
<1>2. Init => T1Runs
  BY DEF Init, Cleared, T1Runs
<1>3. Spec => [](Inv /\ T1Runs)
  BY <1>2, AlwaysInv, T1Step, PTL DEF Spec
<1> QED
  BY <1>1, <1>3, PTL DEF Spec, RenewsBeforeGivingUp
=============================================================================
