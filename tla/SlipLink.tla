------------------------------ MODULE SlipLink ------------------------------
(***************************************************************************)
(* The serial link from a host program to the firmware:                    *)
(*                                                                         *)
(*   send_packet -> gs_tx_buff -> write() -> line -> uart2_irq_handler     *)
(*     -> charQueue -> recv_char -> recv_packet                            *)
(*                                                                         *)
(* Characters are lost where the code loses them (a full gs_tx_buff, a     *)
(* failed write(), a full charQueue) and on the line, which also adds      *)
(* noise.  Nothing is retransmitted: what a receiver can hope for is that  *)
(* damage stays within the frames it hit.                                  *)
(*                                                                         *)
(* A line character carries the number k of its packet and its place n in  *)
(* the frame, so that the properties can tell damaged from undamaged       *)
(* frames; noise has k = n = 0.                                            *)
(***************************************************************************)
EXTENDS Slip

CONSTANTS Packet,       \* packets a host sends, checksum included
          Noise,        \* characters the line may add
          TX_MAX_NUM,   \* characters gs_tx_buff holds (4000)
          RX_MAX_NUM,   \* characters charQueue holds (2000)
          BUF_SIZE,     \* bytes recv_packet may store (2000)
          MaxSent,      \* bound on the packets sent
          MaxLine,      \* characters on the line when write() still takes more
          MaxFault      \* bound on the characters and frames lost or added

ASSUME LinkAssumption ==
  /\ \A p \in Packet : p \in Seq(Char) /\ p # << >> /\ Len(p) <= BUF_SIZE
  /\ Noise \subseteq Char
  /\ {TX_MAX_NUM, RX_MAX_NUM, BUF_SIZE, MaxSent, MaxLine, MaxFault} \subseteq Nat

VARIABLES sent,        \* every packet given to send_packet, oldest first
          line,        \* characters written by the host and not yet received
          charQueue,   \* characters the interrupt handler has queued
          rx,          \* recv_packet of the firmware's SLIP task
          out,         \* what recv_packet returned, oldest first
          hurt,        \* packets with a character lost or added on the way
          noisy,       \* packets with noise between them and the one before
          cut,         \* packets whose first END arrived after an ESC
          faults       \* number of characters and frames lost or added

vars == <<sent, line, charQueue, rx, out, hurt, noisy, cut, faults>>

Tagged(k, f) == [n \in DOMAIN f |-> [c |-> f[n], k |-> k, n |-> n]]
NoiseChar(c) == [c |-> c, k |-> 0, n |-> 0]
-----------------------------------------------------------------------------
\* send_char: a character that does not fit gs_tx_buff is dropped.
TxBuff(f) == SubSeq(f, 1, IF Len(f) <= TX_MAX_NUM THEN Len(f) ELSE TX_MAX_NUM)

(***************************************************************************)
(* send_packet fills gs_tx_buff from empty and send_char_do gives it to    *)
(* write(), whose result it ignores: an error loses the frame.             *)
(***************************************************************************)
send_packet(p) ==
  LET k == Len(sent) + 1
      f == Tagged(k, Frame(p))
  IN  /\ Len(sent) < MaxSent /\ Len(line) <= MaxLine
      /\ sent' = Append(sent, p)
      /\ \/ /\ line' = line \o TxBuff(f)
            /\ hurt' = IF Len(f) <= TX_MAX_NUM THEN hurt ELSE hurt \cup {k}
            /\ UNCHANGED faults
         \/ /\ faults < MaxFault
            /\ faults' = faults + 1
            /\ hurt' = hurt \cup {k}
            /\ UNCHANGED line
      /\ UNCHANGED <<charQueue, rx, out, noisy, cut>>

\* xQueueSendFromISR: a character that finds charQueue full is dropped.
Enqueue(x) == charQueue' = IF Len(charQueue) < RX_MAX_NUM
                           THEN Append(charQueue, x) ELSE charQueue

uart2_irq_handler ==
  /\ line # << >>
  /\ line' = Tail(line)
  /\ Enqueue(Head(line))
  /\ IF Len(charQueue) < RX_MAX_NUM
     THEN UNCHANGED <<hurt, faults>>
     ELSE /\ faults < MaxFault
          /\ faults' = faults + 1
          /\ hurt' = hurt \cup {Head(line).k}
  /\ UNCHANGED <<sent, rx, out, noisy, cut>>

\* The line loses the next character.
LineLoss ==
  /\ faults < MaxFault
  /\ line # << >>
  /\ line' = Tail(line)
  /\ hurt' = hurt \cup {Head(line).k}
  /\ faults' = faults + 1
  /\ UNCHANGED <<sent, charQueue, rx, out, noisy, cut>>

\* The packet whose frame comes next on the line.
NextFrame == IF line # << >> THEN Head(line).k ELSE Len(sent) + 1

(***************************************************************************)
(* The line adds a character, which the interrupt handler takes for one    *)
(* that was sent.  Between two frames it hurts no packet.                  *)
(***************************************************************************)
LineNoise(c) ==
  /\ faults < MaxFault
  /\ Enqueue(NoiseChar(c))
  /\ IF line # << >> /\ Head(line).n > 1
     THEN hurt' = hurt \cup {Head(line).k} /\ UNCHANGED noisy
     ELSE noisy' = noisy \cup {NextFrame} /\ UNCHANGED hurt
  /\ faults' = faults + 1
  /\ UNCHANGED <<sent, line, rx, out, cut>>

(***************************************************************************)
(* One character of recv_packet.  When it completes a packet the task      *)
(* handles it and calls recv_packet again, which starts from nothing.      *)
(***************************************************************************)
recv_packet ==
  /\ charQueue # << >>
  /\ LET x == Head(charQueue)
     IN  /\ charQueue' = Tail(charQueue)
         /\ rx' = Received(rx, x, BUF_SIZE)
         /\ out' = IF Completes(rx, x) THEN Append(out, rx.buf) ELSE out
         /\ cut' = IF rx.esc /\ x.n = 1 THEN cut \cup {x.k} ELSE cut
  /\ UNCHANGED <<sent, line, hurt, noisy, faults>>

Init == /\ sent = << >> /\ line = << >> /\ charQueue = << >> /\ out = << >>
        /\ rx = Idle
        /\ hurt = {} /\ noisy = {} /\ cut = {} /\ faults = 0

Next == \/ \E p \in Packet : send_packet(p)
        \/ uart2_irq_handler
        \/ LineLoss
        \/ \E c \in Noise : LineNoise(c)
        \/ recv_packet

(***************************************************************************)
(* A character on the line raises the receive interrupt, and the SLIP task *)
(* leaves xQueueReceive when charQueue has one.                            *)
(***************************************************************************)
Fairness == WF_vars(uart2_irq_handler) /\ WF_vars(recv_packet)

Spec == Init /\ [][Next]_vars /\ Fairness
-----------------------------------------------------------------------------
Undamaged(k) == k \notin hurt

\* What recv_packet returned is packet k, all of it and nothing else.
IsPacket(r, k) == /\ \A i \in DOMAIN r : r[i].k = k
                  /\ [i \in DOMAIN r |-> r[i].c] = sent[k]

Delivered(k) == \E i \in DOMAIN out : IsPacket(out[i], k)

LineChar == [c : Char, k : 0 .. MaxSent, n : 0 .. TX_MAX_NUM]

TypeOK == /\ sent \in Seq(Packet) /\ Len(sent) <= MaxSent
          /\ line \in Seq(LineChar)
          /\ charQueue \in Seq(LineChar) /\ Len(charQueue) <= RX_MAX_NUM
          /\ rx.buf \in Seq(LineChar) /\ Len(rx.buf) <= BUF_SIZE
          /\ rx.esc \in BOOLEAN
          /\ out \in Seq(Seq(LineChar))
          /\ hurt \subseteq 1 .. MaxSent /\ cut \subseteq 1 .. MaxSent
          /\ noisy \subseteq 1 .. MaxSent + 1
          /\ faults \in 0 .. MaxFault

(***************************************************************************)
(* Damage reaches at most one frame further.  A frame loses its first END  *)
(* to a pending ESC only when the packet just before it was damaged or     *)
(* noise came between the two; after that frame recv_packet is in step     *)
(* again.                                                                  *)
(***************************************************************************)
ResyncWithinOneFrame == \A k \in cut : (k - 1) \in hurt \/ k \in noisy

(***************************************************************************)
(* recv_packet never invents a packet: while no character was lost, added  *)
(* or misread, what it has returned is the sequence of packets sent so     *)
(* far, in their order and without repetition.                             *)
(***************************************************************************)
CleanLineInOrder ==
  hurt = {} /\ noisy = {} =>
    /\ Len(out) <= Len(sent)
    /\ \A k \in DOMAIN out : IsPacket(out[k], k)

(***************************************************************************)
(* Damage is local.  Whatever happens to the frames before it and between  *)
(* the frames, a packet that loses no character on the way and whose first *)
(* END is not swallowed by a preceding ESC is delivered in the end, just   *)
(* as it was sent: send_packet's first END throws away what recv_packet    *)
(* had stored, and nobody waits for a character that does not come.        *)
(***************************************************************************)
EventuallyDelivered ==
  \A k \in 1 .. MaxSent :
    Len(sent) >= k ~> (Delivered(k) \/ ~Undamaged(k) \/ k \in cut)
=============================================================================
