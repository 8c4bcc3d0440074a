------------------------------ MODULE DeviceTx ------------------------------
(***************************************************************************)
(* The two writers of the firmware's serial port.  The SLIP task answers   *)
(* WLAN API requests of the host; the WLAN receive thread forwards what    *)
(* the access point sends.  Both call send_packet, which puts characters   *)
(* on the UART one at a time.  All that keeps their frames apart is the    *)
(* flag slip_used and the priorities of a preemptive scheduler.            *)
(***************************************************************************)
EXTENDS Integers, Sequences, FiniteSets

CONSTANTS SlipPrio,   \* priority of the SLIP task (configMAX_PRIORITIES - 3)
          RxPrio,     \* priority of the thread that calls from_ap_input
          FrameLen,   \* characters of a frame, both ENDs included
          PoolSize,   \* buffers of the firmware's pbuf pool
          MaxIn       \* bound on the packets that arrive from each side

ASSUME TxAssumption ==
  /\ SlipPrio \in Nat /\ RxPrio \in Nat
  /\ FrameLen \in Nat \ {0}
  /\ PoolSize \in Nat /\ MaxIn \in Nat

VARIABLES slip_used,
          pc,      \* where each thread is; "wait" is blocked for input
          inbox,   \* what has arrived for a blocked thread, "none" if nothing
          pos,     \* characters of its frame a thread has sent
          uart,    \* characters put on the UART: writer and place in the frame
          free,    \* buffers left in the pool
          count    \* packets that have arrived from each side

txVars == <<slip_used, pc, inbox, pos, uart, free, count>>

Thread == {"slip", "rx"}
Prio == [t \in Thread |-> IF t = "slip" THEN SlipPrio ELSE RxPrio]

\* What recv_packet may return to the SLIP task, as its loop tells it apart.
SlipInput == {"bad checksum", "api with reply", "api without reply", "data"}

\* Places in slip2ip_task_proc and in from_ap_input.
SlipLabel == {"wait", "reply", "send", "sent", "alloc", "output"}
RxLabel == {"wait", "check skb", "send", "sent"}

Ready(t) == pc[t] # "wait" \/ inbox[t] # "none"

\* FreeRTOS runs a ready thread of the highest priority.
Runs(t) == Ready(t) /\ \A u \in Thread : Ready(u) => Prio[u] <= Prio[t]

Goto(t, label) == pc' = [pc EXCEPT ![t] = label]
-----------------------------------------------------------------------------
(***************************************************************************)
(* Arrivals, both from interrupts: a packet is complete in charQueue, or   *)
(* the driver has put a received frame into a buffer of the pool.          *)
(***************************************************************************)
PacketFromHost(kind) ==
  /\ inbox["slip"] = "none" /\ count["slip"] < MaxIn
  /\ inbox' = [inbox EXCEPT !["slip"] = kind]
  /\ count' = [count EXCEPT !["slip"] = @ + 1]
  /\ UNCHANGED <<slip_used, pc, pos, uart, free>>

FrameFromAP ==
  /\ inbox["rx"] = "none" /\ count["rx"] < MaxIn
  /\ free > 0
  /\ free' = free - 1
  /\ inbox' = [inbox EXCEPT !["rx"] = "frame"]
  /\ count' = [count EXCEPT !["rx"] = @ + 1]
  /\ UNCHANGED <<slip_used, pc, pos, uart>>

(***************************************************************************)
(* send_packet up to its last send_char: serial_putc waits in a loop, so   *)
(* the thread stays ready while it sends.                                  *)
(***************************************************************************)
send_char(t) ==
  /\ Runs(t)
  /\ pc[t] = "send"
  /\ uart' = Append(uart, [w |-> t, n |-> pos[t] + 1])
  /\ pos' = [pos EXCEPT ![t] = IF @ + 1 = FrameLen THEN 0 ELSE @ + 1]
  /\ Goto(t, IF pos[t] + 1 = FrameLen THEN "sent" ELSE "send")
  /\ UNCHANGED <<slip_used, inbox, free, count>>
-----------------------------------------------------------------------------
(***************************************************************************)
(* slip2ip_task_proc.                                                      *)
(***************************************************************************)
Recv == /\ Runs("slip") /\ pc["slip"] = "wait"
        /\ inbox' = [inbox EXCEPT !["slip"] = "none"]
        /\ Goto("slip", CASE inbox["slip"] = "api with reply" -> "reply"
                          [] inbox["slip"] = "data" -> "alloc"
                          [] OTHER -> "wait")
        /\ UNCHANGED <<slip_used, pos, uart, free, count>>

\* Variant: slip_used is not set.
ReplyMutant == /\ Runs("slip") /\ pc["slip"] = "reply"
               /\ Goto("slip", "send")
               /\ UNCHANGED <<slip_used, inbox, pos, uart, free, count>>

\* slip_used = 1 in front of send_packet.
Reply == /\ Runs("slip") /\ pc["slip"] = "reply"
         /\ slip_used' = 1
         /\ Goto("slip", "send")
         /\ UNCHANGED <<inbox, pos, uart, free, count>>

\* slip_used = 0 after it.
Replied == /\ Runs("slip") /\ pc["slip"] = "sent"
           /\ slip_used' = 0
           /\ Goto("slip", "wait")
           /\ UNCHANGED <<inbox, pos, uart, free, count>>

PbufAlloc == /\ Runs("slip") /\ pc["slip"] = "alloc"
             /\ \/ free > 0 /\ free' = free - 1 /\ Goto("slip", "output")
                \/ free = 0 /\ UNCHANGED free /\ Goto("slip", "wait")
             /\ UNCHANGED <<slip_used, inbox, pos, uart, count>>

\* pbuf_take, then low_level_output unless it failed; the buffer is freed
\* either way.
Output == /\ Runs("slip") /\ pc["slip"] = "output"
          /\ free' = free + 1
          /\ Goto("slip", "wait")
          /\ UNCHANGED <<slip_used, inbox, pos, uart, count>>
-----------------------------------------------------------------------------
\* Variant: the early return keeps the buffer.
CheckUsedMutant ==
  /\ Runs("rx") /\ pc["rx"] = "wait"
  /\ inbox' = [inbox EXCEPT !["rx"] = "none"]
  /\ IF slip_used = 1
     THEN Goto("rx", "wait") /\ UNCHANGED free
     ELSE Goto("rx", "check skb") /\ UNCHANGED free
  /\ UNCHANGED <<slip_used, pos, uart, count>>

(***************************************************************************)
(* from_ap_input.  It looks at slip_used once, at its start.               *)
(***************************************************************************)
CheckUsed ==
  /\ Runs("rx") /\ pc["rx"] = "wait"
  /\ inbox' = [inbox EXCEPT !["rx"] = "none"]
  /\ IF slip_used = 1
     THEN Goto("rx", "wait") /\ free' = free + 1
     ELSE Goto("rx", "check skb") /\ UNCHANGED free
  /\ UNCHANGED <<slip_used, pos, uart, count>>

\* The driver's socket buffers are nearly used up, or they are not.
CheckSkb ==
  /\ Runs("rx") /\ pc["rx"] = "check skb"
  /\ \/ Goto("rx", "wait") /\ free' = free + 1
     \/ Goto("rx", "send") /\ UNCHANGED free
  /\ UNCHANGED <<slip_used, inbox, pos, uart, count>>

PbufFree ==
  /\ Runs("rx") /\ pc["rx"] = "sent"
  /\ free' = free + 1
  /\ Goto("rx", "wait")
  /\ UNCHANGED <<slip_used, inbox, pos, uart, count>>
-----------------------------------------------------------------------------
TxInit == /\ slip_used = 0
          /\ pc = [t \in Thread |-> "wait"]
          /\ inbox = [t \in Thread |-> "none"]
          /\ pos = [t \in Thread |-> 0]
          /\ uart = << >>
          /\ free = PoolSize
          /\ count = [t \in Thread |-> 0]

TxNext == \/ \E kind \in SlipInput : PacketFromHost(kind)
          \/ FrameFromAP
          \/ \E t \in Thread : send_char(t)
          \/ Recv \/ Reply \/ Replied \/ PbufAlloc \/ Output
          \/ CheckUsed \/ CheckSkb \/ PbufFree

TxSpec == TxInit /\ [][TxNext]_txVars
-----------------------------------------------------------------------------
TxTypeOK == /\ slip_used \in {0, 1}
            /\ pc \in [Thread -> SlipLabel \cup RxLabel]
            /\ pc["slip"] \in SlipLabel /\ pc["rx"] \in RxLabel
            /\ inbox \in [Thread -> SlipInput \cup {"none", "frame"}]
            /\ pos \in [Thread -> 0 .. FrameLen - 1]
            /\ uart \in Seq([w : Thread, n : 1 .. FrameLen])
            /\ free \in 0 .. PoolSize
            /\ count \in [Thread -> 0 .. MaxIn]

(***************************************************************************)
(* Every frame on the UART is contiguous: a character that does not begin  *)
(* a frame follows the one before it of the same frame, and a frame begins *)
(* only when the last one is complete.  This is what the receiver needs to *)
(* take a frame apart again.                                               *)
(***************************************************************************)
FramesContiguous ==
  \A i \in DOMAIN uart :
    IF uart[i].n = 1
    THEN i = 1 \/ uart[i - 1].n = FrameLen
    ELSE i > 1 /\ uart[i - 1] = [w |-> uart[i].w, n |-> uart[i].n - 1]

\* Buffers in use: the SLIP task's, the one from_ap_input works on, and the
\* next one that already waits for it.
InUse == (IF pc["slip"] = "output" THEN 1 ELSE 0)
         + (IF pc["rx"] # "wait" THEN 1 ELSE 0)
         + (IF inbox["rx"] # "none" THEN 1 ELSE 0)

(***************************************************************************)
(* Every path through slip2ip_task_proc and from_ap_input, the early       *)
(* returns included, gives back the buffer it took, whichever thread       *)
(* preempts the other: the pool never runs dry for good.                   *)
(***************************************************************************)
NoPbufLeak == free + InUse = PoolSize
=============================================================================
