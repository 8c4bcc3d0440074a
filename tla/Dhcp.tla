-------------------------------- MODULE Dhcp --------------------------------
(***************************************************************************)
(* The DHCP client of lwIP (core/ipv4/dhcp.c) as ethoslip_lwip uses it:    *)
(* user_loop calls dhcp_start once, the interface is up and its link never *)
(* changes, addresses are checked with ARP.  Everything runs in main's     *)
(* loop, so a handler is one step: a message, the fine timer, the coarse   *)
(* timer.  Messages may be lost, repeated and reordered, and every pbuf    *)
(* the client wants may be missing.                                        *)
(*                                                                         *)
(* request_timeout is 1 while the fine timer counts it down, and may end   *)
(* at any time.  Only where it doubles with each try, for a DISCOVER or a  *)
(* REQUEST, does it outlast every answer in the end (SlowTries).           *)
(* A message with another xid than the client's is dropped unread, and the *)
(* counter behind xid only moves on: net holds the messages whose xid is   *)
(* the counter's, and is emptied when the counter moves.                   *)
(***************************************************************************)
EXTENDS Integers

CONSTANTS Addr,       \* addresses a server hands out
          NoAddr,     \* 0.0.0.0
          Lease,      \* lease options of an acknowledgement, records t0, t1, t2
          Absent,     \* an option that is not given
          TICK,       \* DHCP_COARSE_TIMER_SECS
          U32, U16,   \* 2^32 and 2^16
          SelectTries,\* REQUESTs before the client starts over: 5 and one more
          MaxTries,   \* tries counts to 255; no test looks beyond SelectTries + 1
          SlowTries,  \* tries after which a doubled time-out outlasts an answer
          MaxFaults   \* losses, repetitions, NAKs, conflicts, failed allocations

Forever == U32 - 1

ASSUME DhcpAssumption ==
  /\ NoAddr \notin Addr
  /\ TICK \in Nat \ {0} /\ U16 \in Nat \ {0, 1} /\ U32 \in Nat \ {0}
  /\ 2 * (U16 * TICK) <= U32   \* 2 * 65536 * 60, far less than 2^32
  /\ Absent \notin 0 .. Forever
  /\ Lease \subseteq [t0 : (0 .. Forever) \cup {Absent},
                      t1 : (0 .. Forever) \cup {Absent},
                      t2 : (0 .. Forever) \cup {Absent}]
  /\ SelectTries \in Nat \ {0} /\ MaxTries \in Nat /\ MaxTries > SelectTries
  /\ MaxTries >= 2
  /\ SlowTries \in Nat /\ MaxFaults \in Nat

VARIABLES dhcp,       \* struct dhcp
          addr,       \* the address of the interface
          net,        \* messages under way
          held,       \* coarse ticks since addr was set, if its lease has an end
          faults

vars == <<dhcp, addr, net, held, faults>>

Supplied == {"BOUND", "RENEWING", "REBINDING"}
State == Supplied \cup {"OFF", "SELECTING", "REQUESTING", "CHECKING", "BACKING_OFF"}

Msg(type, a, l) == [type |-> type, addr |-> a, lease |-> l]
Message == [type : {"DISCOVER", "REQUEST", "OFFER", "ACK", "NAK"},
            addr : Addr \cup {NoAddr}, lease : Lease \cup {Absent}]
-----------------------------------------------------------------------------
(* The functions of dhcp.c on struct dhcp.                                 *)

\* The structure as dhcp_start's memset leaves it.
Cleared == [state |-> "OFF", tries |-> 0, request_timeout |-> 0, xid |-> 0,
            offered_ip_addr |-> NoAddr,
            offered_t0_lease |-> 0, offered_t1_renew |-> 0, offered_t2_rebind |-> 0,
            t0_timeout |-> 0, t2_timeout |-> 0,
            t1_renew_time |-> 0, t2_rebind_time |-> 0, lease_used |-> 0]

dhcp_set_state(d, s) ==
  IF s = d.state THEN d
  ELSE [d EXCEPT !.state = s, !.tries = 0, !.request_timeout = 0]

\* Mutant: the client does not take over the new xid.
dhcp_create_msgMutant(d, type, ok) == d
\* xid is 1 when the client's xid is the counter's, 0 after memset.
dhcp_create_msg(d, type, ok) ==
  IF ok /\ type # "REQUEST" THEN [d EXCEPT !.xid = 1] ELSE d

\* The network after the client has sent m, with its counter moved on first
\* when the message opens a transaction.
NewXid(n, d, type, ok) == IF ok /\ type # "REQUEST" /\ d.tries = 0 THEN {} ELSE n
Sent(n, d, m, ok) == NewXid(n, d, m.type, ok) \cup (IF ok THEN {m} ELSE {})

\* The trailing lines of every function that sends and waits.
Tried(d) == [d EXCEPT !.tries = IF @ < MaxTries THEN @ + 1 ELSE @,
                      !.request_timeout = 1]

Selecting(d) == dhcp_set_state([d EXCEPT !.offered_ip_addr = NoAddr], "SELECTING")
dhcp_discover(d, ok) == Tried(dhcp_create_msg(Selecting(d), "DISCOVER", ok))

dhcp_select(d) == Tried(dhcp_set_state(d, "REQUESTING"))
dhcp_check(d) == Tried(dhcp_set_state(d, "CHECKING"))
dhcp_renew(d) == Tried(dhcp_set_state(d, "RENEWING"))
dhcp_rebind(d) == Tried(dhcp_set_state(d, "REBINDING"))
BackingOff(d) == dhcp_set_state(d, "BACKING_OFF")
dhcp_decline(d, ok) == Tried(dhcp_create_msg(BackingOff(d), "DECLINE", ok))

\* Seconds in coarse ticks: to the nearest, at least 1, in 16 bits.
Ticks(t) == LET n == ((t + TICK \div 2) % U32) \div TICK
            IN  IF n = 0 THEN 1 ELSE IF n < U16 THEN n ELSE U16 - 1

GivenOr(option, default) == IF option # Absent THEN option ELSE default

\* The renewal and rebinding times where the server gives none.
Half(t0) == t0 \div 2
SevenEighths(t0) == ((t0 * 7) % U32) \div 8

dhcp_handle_ack(d, m) ==
  LET t0 == GivenOr(m.lease.t0, d.offered_t0_lease)
  IN  [d EXCEPT !.offered_t0_lease = t0,
                !.offered_t1_renew = GivenOr(m.lease.t1, Half(t0)),
                !.offered_t2_rebind = GivenOr(m.lease.t2, SevenEighths(t0)),
                !.offered_ip_addr = m.addr]

\* Mutant: the time used of the lease is not reset.
dhcp_bindMutant(d) ==
  LET t2 == IF d.offered_t2_rebind = Forever THEN d.t2_timeout
                                             ELSE Ticks(d.offered_t2_rebind)
  IN  dhcp_set_state(
        [d EXCEPT !.t0_timeout = IF d.offered_t0_lease = Forever THEN @
                                 ELSE Ticks(d.offered_t0_lease),
                  !.t1_renew_time = IF d.offered_t1_renew = Forever THEN @
                                    ELSE Ticks(d.offered_t1_renew),
                  !.t2_timeout = t2,
                  !.t2_rebind_time = IF d.offered_t2_rebind = Forever THEN @ ELSE t2],
        "BOUND")
\* A time that is unlimited leaves its timer as it was.
dhcp_bind(d) ==
  LET t2 == IF d.offered_t2_rebind = Forever THEN d.t2_timeout
                                             ELSE Ticks(d.offered_t2_rebind)
  IN  dhcp_set_state(
        [d EXCEPT !.lease_used = 0,
                  !.t0_timeout = IF d.offered_t0_lease = Forever THEN @
                                 ELSE Ticks(d.offered_t0_lease),
                  !.t1_renew_time = IF d.offered_t1_renew = Forever THEN @
                                    ELSE Ticks(d.offered_t1_renew),
                  !.t2_timeout = t2,
                  !.t2_rebind_time = IF d.offered_t2_rebind = Forever THEN @ ELSE t2],
        "BOUND")
-----------------------------------------------------------------------------
(* Steps.                                                                  *)

Fault(n) == faults + n <= MaxFaults /\ faults' = faults + n
Miss(ok) == IF ok THEN 0 ELSE 1

\* user_loop in WIFI_CONNECTED.  It does not look at the result: when the
\* client could not be allocated it stays off, which is this step not taken.
dhcp_start(ok) ==
  /\ dhcp.state = "OFF"
  /\ Fault(Miss(ok))
  /\ dhcp' = dhcp_discover(Cleared, ok)
  /\ net' = Sent(net, Selecting(Cleared), Msg("DISCOVER", NoAddr, Absent), ok)
  /\ UNCHANGED <<addr, held>>

\* dhcp_release_and_stop and the dhcp_start that follows it everywhere.
Restart(okRelease, ok) ==
  /\ Fault(Miss(okRelease) + Miss(ok))
  /\ dhcp.state \in Supplied \/ okRelease
  /\ dhcp' = dhcp_discover(Cleared, ok)
  /\ net' = Sent(NewXid(net, dhcp, "RELEASE", okRelease /\ dhcp.state \in Supplied),
                 Selecting(Cleared), Msg("DISCOVER", NoAddr, Absent), ok)
  /\ addr' = NoAddr /\ held' = 0

\* dhcp_fine_tmr when request_timeout is about to end.  In the states that
\* dhcp_timeout does not look at, the end of request_timeout does nothing.
\* The half second of CHECKING and the ten of BACKING_OFF stay what they are.
FineTimerEnds ==
  /\ dhcp.request_timeout = 1
  /\ dhcp.state \in {"SELECTING", "REQUESTING"} /\ dhcp.tries >= SlowTries => net = {}

Waited == [dhcp EXCEPT !.request_timeout = 0]

DiscoverAgain(ok) ==
  /\ FineTimerEnds
  /\ dhcp.state \in {"BACKING_OFF", "SELECTING"}
  /\ Fault(Miss(ok))
  /\ dhcp' = dhcp_discover(Waited, ok)
  /\ net' = Sent(net, Selecting(dhcp), Msg("DISCOVER", NoAddr, Absent), ok)
  /\ UNCHANGED <<addr, held>>

SelectAgain(ok) ==
  /\ FineTimerEnds
  /\ dhcp.state = "REQUESTING" /\ dhcp.tries <= SelectTries
  /\ Fault(Miss(ok))
  /\ dhcp' = dhcp_select(Waited)
  /\ net' = Sent(net, dhcp, Msg("REQUEST", dhcp.offered_ip_addr, Absent), ok)
  /\ UNCHANGED <<addr, held>>

SelectFails(okRelease, ok) ==
  /\ FineTimerEnds
  /\ dhcp.state = "REQUESTING" /\ dhcp.tries > SelectTries
  /\ Restart(okRelease, ok)

CheckAgain ==
  /\ FineTimerEnds
  /\ dhcp.state = "CHECKING" /\ dhcp.tries <= 1
  /\ dhcp' = dhcp_check(Waited)
  /\ UNCHANGED <<addr, held, net, faults>>

CheckPassed ==
  /\ FineTimerEnds
  /\ dhcp.state = "CHECKING" /\ dhcp.tries > 1
  /\ dhcp' = dhcp_bind(Waited)
  /\ addr' = dhcp.offered_ip_addr /\ held' = 0
  /\ UNCHANGED <<net, faults>>

NobodyWaits ==
  /\ FineTimerEnds
  /\ dhcp.state \in Supplied
  /\ dhcp' = Waited
  /\ UNCHANGED <<addr, held, net, faults>>

\* Another host answers the ARP request for the offered address.
dhcp_arp_reply(ok) ==
  /\ dhcp.state = "CHECKING"
  /\ Fault(1 + Miss(ok))
  /\ dhcp' = dhcp_decline(dhcp, ok)
  /\ net' = NewXid(net, BackingOff(dhcp), "DECLINE", ok)
  /\ UNCHANGED <<addr, held>>
-----------------------------------------------------------------------------
(* The coarse timer: the lease first, then T2, then T1.                    *)

LeaseOver == dhcp.t0_timeout > 0 /\ dhcp.lease_used + 1 = dhcp.t0_timeout
T2Over == dhcp.t2_rebind_time = 1
T1Over == dhcp.t1_renew_time = 1

\* Mutant: T1 and T2 do not count down.
DownMutant(t) == t
Down(t) == IF t > 0 THEN t - 1 ELSE 0

\* Mutant: the lease clock stops once the client tries to renew.
UsedMutant(d) == [d EXCEPT !.lease_used = IF d.t0_timeout > 0 /\ d.state = "BOUND"
                                          THEN @ + 1 ELSE @]
Used(d) == [d EXCEPT !.lease_used = IF d.t0_timeout > 0 THEN @ + 1 ELSE @]

Ticked == held' = IF addr = NoAddr \/ dhcp.offered_t0_lease = Forever THEN 0
                  ELSE held + 1

LeaseExpires(okRelease, ok) ==
  /\ dhcp.state # "OFF" /\ LeaseOver
  /\ Restart(okRelease, ok)

\* The next try comes after half the time that is left, if that is a tick.
NextTry(left) == IF left >= 2 THEN left \div 2 ELSE 0

dhcp_t2_timeout(ok) ==
  /\ dhcp.state \in Supplied \cup {"REQUESTING"}
  /\ ~LeaseOver /\ T2Over
  /\ Fault(Miss(ok)) /\ Ticked
  /\ LET d == Used(dhcp)
     IN  dhcp' = dhcp_rebind([d EXCEPT !.t2_rebind_time =
                                NextTry(d.t0_timeout - d.lease_used)])
  /\ net' = Sent(net, dhcp, Msg("REQUEST", addr, Absent), ok)
  /\ UNCHANGED addr

dhcp_t1_timeout(ok) ==
  /\ dhcp.state \in {"REQUESTING", "BOUND", "RENEWING"}
  /\ ~LeaseOver /\ ~T2Over /\ T1Over
  /\ Fault(Miss(ok)) /\ Ticked
  /\ LET d == Used(dhcp)
     IN  dhcp' = dhcp_renew([d EXCEPT !.t2_rebind_time = Down(@),
                                      !.t1_renew_time =
                                        NextTry(d.t2_timeout - d.lease_used)])
  /\ net' = Sent(net, dhcp, Msg("REQUEST", addr, Absent), ok)
  /\ UNCHANGED addr

\* A tick on which no handler of this state runs.
CoarseTick ==
  /\ dhcp.state # "OFF" /\ ~LeaseOver
  /\ T2Over => dhcp.state \notin Supplied \cup {"REQUESTING"}
  /\ ~T2Over /\ T1Over => dhcp.state \notin {"REQUESTING", "BOUND", "RENEWING"}
  /\ dhcp' = [Used(dhcp) EXCEPT !.t2_rebind_time = Down(@),
                                !.t1_renew_time = IF T2Over THEN @ ELSE Down(@)]
  /\ Ticked
  /\ UNCHANGED <<addr, net, faults>>

dhcp_coarse_tmr ==
  \/ \E okRelease, ok \in BOOLEAN : LeaseExpires(okRelease, ok)
  \/ \E ok \in BOOLEAN : dhcp_t2_timeout(ok) \/ dhcp_t1_timeout(ok)
  \/ CoarseTick
-----------------------------------------------------------------------------
(* Messages.                                                               *)

\* A message that arrives may come again: rest is what is still under way.
Kept(rest) == IF rest = net THEN 1 ELSE 0

Handles(m) ==
  /\ dhcp.xid = 1
  /\ \/ m.type = "ACK" /\ dhcp.state \in {"REQUESTING", "RENEWING", "REBINDING"}
     \/ m.type = "NAK" /\ dhcp.state \in {"REQUESTING", "RENEWING", "REBINDING"}
     \/ m.type = "OFFER" /\ dhcp.state = "SELECTING"

RecvOffer(m, rest, ok) ==
  /\ m.type = "OFFER" /\ Handles(m)
  /\ Fault(Kept(rest) + Miss(ok))
  /\ dhcp' = dhcp_select([dhcp EXCEPT !.request_timeout = 0,
                                      !.offered_ip_addr = m.addr])
  /\ net' = Sent(rest, dhcp, Msg("REQUEST", m.addr, Absent), ok)
  /\ UNCHANGED <<addr, held>>

RecvAckRequesting(m, rest) ==
  /\ m.type = "ACK" /\ Handles(m) /\ dhcp.state = "REQUESTING"
  /\ Fault(Kept(rest))
  /\ dhcp' = dhcp_check(dhcp_handle_ack(dhcp, m))
  /\ net' = rest
  /\ UNCHANGED <<addr, held>>

RecvAckRenewed(m, rest) ==
  /\ m.type = "ACK" /\ Handles(m) /\ dhcp.state # "REQUESTING"
  /\ Fault(Kept(rest))
  /\ dhcp' = dhcp_bind(dhcp_handle_ack(dhcp, m))
  /\ net' = rest
  /\ addr' = m.addr /\ held' = 0

\* Mutant: the address stays on the interface.
RecvNakMutant(m, rest, ok) ==
  /\ m.type = "NAK" /\ Handles(m)
  /\ Fault(Kept(rest) + Miss(ok))
  /\ dhcp' = dhcp_discover(BackingOff(dhcp), ok)
  /\ net' = Sent(rest, Selecting(dhcp), Msg("DISCOVER", NoAddr, Absent), ok)
  /\ UNCHANGED <<addr, held>>
\* dhcp_handle_nak: the timers of the lease go on.
RecvNak(m, rest, ok) ==
  /\ m.type = "NAK" /\ Handles(m)
  /\ Fault(Kept(rest) + Miss(ok))
  /\ dhcp' = dhcp_discover(BackingOff(dhcp), ok)
  /\ net' = Sent(rest, Selecting(dhcp), Msg("DISCOVER", NoAddr, Absent), ok)
  /\ addr' = NoAddr /\ held' = 0

RecvIgnored(m, rest) ==
  /\ m.type \in {"ACK", "NAK", "OFFER"} /\ ~Handles(m)
  /\ rest # net
  /\ net' = rest
  /\ UNCHANGED <<dhcp, addr, held, faults>>

dhcp_recv ==
  \E m \in net : \E rest \in {net, net \ {m}} :
     \/ \E ok \in BOOLEAN : RecvOffer(m, rest, ok) \/ RecvNak(m, rest, ok)
     \/ RecvAckRequesting(m, rest) \/ RecvAckRenewed(m, rest) \/ RecvIgnored(m, rest)

\* The server answers every request it can make sense of, and may refuse one.
ServerAnswers ==
  \E m \in net :
     /\ \/ /\ m.type = "DISCOVER"
           /\ \E a \in Addr : net' = (net \ {m}) \cup {Msg("OFFER", a, Absent)}
           /\ UNCHANGED faults
        \/ /\ m.type = "REQUEST" /\ m.addr # NoAddr
           /\ \E l \in Lease : net' = (net \ {m}) \cup {Msg("ACK", m.addr, l)}
           /\ UNCHANGED faults
        \/ /\ m.type = "REQUEST" /\ m.addr = NoAddr
           /\ net' = net \ {m}
           /\ UNCHANGED faults
        \/ /\ m.type = "REQUEST"
           /\ Fault(1)
           /\ net' = (net \ {m}) \cup {Msg("NAK", NoAddr, Absent)}
     /\ UNCHANGED <<dhcp, addr, held>>

Lose == /\ Fault(1)
        /\ \E m \in net : net' = net \ {m}
        /\ UNCHANGED <<dhcp, addr, held>>
-----------------------------------------------------------------------------
Init == /\ dhcp = Cleared
        /\ addr = NoAddr
        /\ net = {} /\ held = 0 /\ faults = 0

dhcp_fine_tmr ==
  \/ \E ok \in BOOLEAN : DiscoverAgain(ok) \/ SelectAgain(ok)
  \/ \E okRelease, ok \in BOOLEAN : SelectFails(okRelease, ok)
  \/ CheckAgain \/ CheckPassed \/ NobodyWaits

Next == \/ \E ok \in BOOLEAN : dhcp_start(ok) \/ dhcp_arp_reply(ok)
        \/ dhcp_fine_tmr \/ dhcp_coarse_tmr
        \/ dhcp_recv \/ ServerAnswers \/ Lose

\* sys_check_timeouts and netif.input are called in main's endless loop; the
\* server answers and what is not lost arrives.
Fairness == /\ WF_vars(dhcp_fine_tmr) /\ WF_vars(dhcp_coarse_tmr)
            /\ WF_vars(dhcp_recv) /\ WF_vars(ServerAnswers)

Spec == Init /\ [][Next]_vars /\ Fairness
-----------------------------------------------------------------------------
Time == 0 .. Forever

\* struct dhcp keeps its fields in their ranges, timers in 16 bits included.
TypeOK ==
  /\ dhcp \in [state : State, tries : 0 .. MaxTries, request_timeout : 0 .. 1,
               xid : 0 .. 1, offered_ip_addr : Addr \cup {NoAddr},
               offered_t0_lease : Time, offered_t1_renew : Time,
               offered_t2_rebind : Time,
               t0_timeout : 0 .. U16 - 1, t2_timeout : 0 .. U16 - 1,
               t1_renew_time : 0 .. U16 - 1, t2_rebind_time : 0 .. U16 - 1,
               lease_used : 0 .. U16 - 1]
  /\ addr \in Addr \cup {NoAddr}
  /\ net \subseteq Message
  /\ held \in Nat /\ faults \in 0 .. MaxFaults

\* The client never waits for nothing: in the middle of an exchange the fine
\* timer runs, and an address with an end has a lease clock that has not
\* passed the one value dhcp_coarse_tmr compares it with.
NeverWaitsInVain ==
  /\ dhcp.state \in {"SELECTING", "REQUESTING", "CHECKING", "BACKING_OFF"}
       => dhcp.request_timeout > 0
  /\ dhcp.t0_timeout > 0 => dhcp.lease_used < dhcp.t0_timeout
  /\ addr # NoAddr /\ dhcp.offered_t0_lease # Forever => dhcp.t0_timeout > 0

\* Whatever is lost, repeated or refused, an address is on the interface for
\* no longer than its lease and half a coarse tick, which is what rounding
\* adds to it, but always until the next tick.  Between two ticks the address
\* has been there for less than held + 1 of them.
WithinLease ==
  addr # NoAddr /\ dhcp.offered_t0_lease # Forever /\ held > 0
    => (held + 1) * TICK <= dhcp.offered_t0_lease + TICK \div 2

\* dhcp_supplied_address is right about BOUND.  In RENEWING and REBINDING it
\* may speak of an interface without an address, after a refusal that left
\* T1 or T2 running; then no timer of an exchange can be relied on, only the
\* clock of the old lease.
SuppliedHasAddress ==
  /\ dhcp.state = "BOUND" => addr # NoAddr /\ addr = dhcp.offered_ip_addr
  /\ addr # NoAddr => dhcp.state \in Supplied

\* An address is given up without an attempt to renew it only when a server
\* refuses, when the lease is too short for T1 to come before its end, or when
\* it is so long that T1 and the lease are cut to the same 16 bits.
RenewsBeforeGivingUp ==
  [][ /\ dhcp.state = "BOUND" /\ addr # NoAddr /\ addr' = NoAddr
      /\ dhcp.offered_t1_renew = Half(dhcp.offered_t0_lease)
      => \/ 2 * dhcp.offered_t0_lease < 3 * TICK
         \/ Half(dhcp.offered_t0_lease) >= (U16 - 1) * TICK - TICK \div 2
         \/ dhcp.offered_t0_lease = Forever ]_vars

\* With finitely many faults the interface gets an address, and gets one again
\* whenever it has lost it, unless a refusal met T1 or T2 of a lease without
\* an end: then nothing wakes the client.
GetsAddress ==
  dhcp.state # "OFF" /\ addr = NoAddr
    ~> \/ addr # NoAddr
       \/ dhcp.state \in {"RENEWING", "REBINDING"} /\ dhcp.t0_timeout = 0
=============================================================================
