-------------------------- MODULE TunBridgeProofs ---------------------------
(***************************************************************************)
(* Proofs about the shutdown of ethoslip_tun, for every number of packets  *)
(* and every size of its buffers.                                          *)
(***************************************************************************)
EXTENDS TunBridge, TLAPS

SlipPlace == {"none", "loop", "recv", "check", "write", "exit"}

(***************************************************************************)
(* The part of the state that the shutdown depends on.                     *)
(***************************************************************************)
Places == /\ handler \in [Thread -> HandlerPlace]
          /\ slip \in SlipPlace
          /\ run_flag \in {0, 1} /\ late \in Nat
          /\ created \in {"no", "yes", "failed"}

\* Before pthread_create, and after it failed, there is no SLIP thread.
NoThreadYet == /\ main \in {"open", "flag", "create"} => created = "no"
               /\ main \in {"loop", "read", "test", "clear", "join"} => created # "no"
               /\ created # "yes" => slip = "none"

\* The flag is set, and is seen set, only from run_flag = 1 on.
FlagOnce ==
  /\ run_flag = 1 => created # "no" \/ main = "create"
  /\ \A t \in Thread :
       handler[t] \in {"clear", "join"} => created # "no" \/ main = "create"

\* Once set, the flag is found cleared by main only after a signal, and main
\* returns after the SLIP thread or after a signal that stopped it.
Stopped ==
  /\ main \in {"create", "loop", "read", "test"} /\ run_flag = 0
       => \E t \in Thread : handler[t] # "no"
  /\ main = "return" => slip \in {"none", "exit"} \/ handler["slip"] # "no"

\* A late packet is the last one.
LateIsLast ==
  /\ late <= 1
  /\ late = 1 => run_flag = 0 /\ slip \in {"loop", "exit"}

Inv == Places /\ NoThreadYet /\ FlagOnce /\ Stopped /\ LateIsLast

LEMMA InitInv == Init => Inv
  BY DEF Init, Inv, Places, NoThreadYet, FlagOnce, Stopped, LateIsLast, SlipPlace,
         HandlerPlace, Thread

(***************************************************************************)
(* A step of the main thread: it is not in a handler.                      *)
(***************************************************************************)
LEMMA MainStepInv ==
  ASSUME Inv, MainStep \/ TapFrame \/ TapReadFails
  PROVE  Inv'
<1> USE DEF Inv, Places, NoThreadYet, FlagOnce, Stopped, LateIsLast, SlipPlace,
            HandlerPlace, Thread, Main, Runs, slipVars, mainVars
<1>1. CASE OpenDevices
  BY <1>1 DEF OpenDevices
<1>2. CASE SetFlag
  BY <1>2 DEF SetFlag
<1>3. CASE Create
  BY <1>3 DEF Create
<1>4. CASE MainLoop
  BY <1>4 DEF MainLoop
<1>5. CASE TapFrame \/ TapReadFails
  BY <1>5 DEF TapFrame, TapReadFails
<1>6. CASE MainStopTest
  BY <1>6 DEF MainStopTest, StopTest
<1>7. CASE MainStopClear
  BY <1>7 DEF MainStopClear
<1>8. CASE MainStopJoin
  BY <1>8 DEF MainStopJoin, Join
<1>9. CASE MainExit
  BY <1>9 DEF MainExit
<1> QED
  BY <1>1, <1>2, <1>3, <1>4, <1>5, <1>6, <1>7, <1>8, <1>9 DEF MainStep

(***************************************************************************)
(* A step of the SLIP thread or of the line, as far as Inv can see it.     *)
(***************************************************************************)
LEMMA ReceiveMoves ==
  ASSUME NEW buff, NEW len, NEW refilled \in BOOLEAN, Receive(buff, len, refilled)
  PROVE  slip' \in {"recv", "check"}
  BY DEF Receive

LEMMA SlipStepInv ==
  ASSUME Inv, SlipStep \/ RecvReadFails \/ RecvHangup \/ RecvFaults \/ LineInput
  PROVE  Inv'
<1>1. CASE SlipLoop
  BY <1>1 DEF SlipLoop, Inv, Places, NoThreadYet, FlagOnce, Stopped, LateIsLast,
              SlipPlace, mainVars
<1>2. CASE RecvBuffered \/ RecvRead \/ RecvReadFails
  <2>1. slip = "recv" /\ slip' \in {"recv", "check"}
    BY <1>2, ReceiveMoves DEF RecvBuffered, RecvRead, RecvReadFails, InRecv
  <2>2. UNCHANGED <<mainVars, late, handler, run_flag>>
    BY <1>2 DEF RecvBuffered, RecvRead, RecvReadFails
  <2> QED
    BY <2>1, <2>2 DEF Inv, Places, NoThreadYet, FlagOnce, Stopped, LateIsLast,
                      SlipPlace, mainVars
<1>3. CASE Check
  BY <1>3 DEF Check, Inv, Places, NoThreadYet, FlagOnce, Stopped, LateIsLast,
              SlipPlace, mainVars
<1>4. CASE Write
  BY <1>4 DEF Write, Runs, Inv, Places, NoThreadYet, FlagOnce, Stopped, LateIsLast,
              SlipPlace, mainVars
<1>5. CASE RecvHangup \/ RecvFaults \/ LineInput
  <2>1. UNCHANGED <<mainVars, slip, late, handler, run_flag>>
    BY <1>5 DEF RecvHangup, RecvFaults, LineInput, slipVars
  <2> QED
    BY <2>1 DEF Inv, Places, NoThreadYet, FlagOnce, Stopped, LateIsLast, mainVars
<1> QED
  BY <1>1, <1>2, <1>3, <1>4, <1>5 DEF SlipStep

LEMMA HandlerStepInv ==
  ASSUME Inv, NEW t \in Thread,
         HandlerStep(t) \/ \E s \in Signal : SignalArrives(t, s)
  PROVE  Inv'
<1> USE DEF Inv, Places, NoThreadYet, FlagOnce, Stopped, LateIsLast, SlipPlace,
            HandlerPlace, Thread, Handle, slipVars, mainVars
<1>1. CASE \E s \in Signal : SignalArrives(t, s)
  BY <1>1 DEF SignalArrives
<1>2. CASE HandlerIgnore(t)
  BY <1>2 DEF HandlerIgnore
<1>3. CASE HandlerTest(t)
  BY <1>3 DEF HandlerTest, StopTest
<1>4. CASE HandlerClear(t)
  BY <1>4 DEF HandlerClear
<1>5. CASE HandlerJoin(t)
  BY <1>5 DEF HandlerJoin
<1>6. CASE HandlerExit(t)
  BY <1>6 DEF HandlerExit
<1> QED
  BY <1>1, <1>2, <1>3, <1>4, <1>5, <1>6 DEF HandlerStep

LEMMA AlwaysInv == Spec => []Inv
<1>1. ASSUME Inv, [Next]_vars PROVE Inv'
  <2>1. CASE UNCHANGED vars
    BY <1>1, <2>1 DEF vars, mainVars, slipVars, Inv, Places, NoThreadYet, FlagOnce,
                      Stopped, LateIsLast
  <2> QED
    BY <1>1, <2>1, MainStepInv, SlipStepInv, HandlerStepInv DEF Next
<1> QED
  BY <1>1, InitInv, PTL DEF Spec

(***************************************************************************)
(* Once run_flag is cleared, by main or by the signal handler, the SLIP    *)
(* thread writes at most one packet more to the TAP device.                *)
(***************************************************************************)
THEOREM StopsWriting == Spec => []OneMoreAfterStop
<1>1. Inv => OneMoreAfterStop
  BY DEF Inv, LateIsLast, OneMoreAfterStop
<1> QED
  BY <1>1, AlwaysInv, PTL

(***************************************************************************)
(* pthread_join is given a thread that pthread_create was called for,      *)
(* except for a handler that interrupted main just before that call.       *)
(***************************************************************************)
THEOREM JoinsAfterCreate == Spec => []JoinsRealThread
<1>1. Inv => JoinsRealThread
  BY DEF Inv, NoThreadYet, FlagOnce, JoinsRealThread
<1> QED
  BY <1>1, AlwaysInv, PTL

(***************************************************************************)
(* The SLIP thread does not use main's local variable tun_fd after main    *)
(* has returned, whichever thread handled a signal.                        *)
(***************************************************************************)
THEOREM LocalOutlivesThread == Spec => []TunFdAlive
<1>1. Inv => TunFdAlive
  BY DEF Inv, Stopped, TunFdAlive, Runs
<1> QED
  BY <1>1, AlwaysInv, PTL

(***************************************************************************)
(* The packets on their way from the line to the TAP device, as long as    *)
(* read() has not failed: those in the terminal, those of gs_rx_buff that  *)
(* recv_char has not returned yet, and the one in slip_out_buffer.         *)
(***************************************************************************)
Item == Packet \cup {Bad}

BufferTypes ==
  /\ tty \in Seq(Item) /\ gs_rx_buff \in [0 .. BufLen - 1 -> Item \cup {Nothing}]
  /\ rx_buf_len \in 0 .. BufLen /\ gs_rx_ptr \in 0 .. rx_buf_len
  /\ sentRx \in 0 .. MaxRx /\ written \in 0 .. sentRx /\ packet \in Item \cup {Nothing}

Unread == gs_rx_ptr .. rx_buf_len - 1

Sound(x) == x # Bad   \* its checksum is right

\* Within the terminal and within the buffer, later packets are newer, and all
\* of the terminal's are newer than the buffer's.
LineOrder ==
  /\ \A i \in DOMAIN tty : tty[i] <= sentRx
  /\ \A i, j \in DOMAIN tty : i < j /\ Sound(tty[i]) /\ Sound(tty[j]) => tty[i] < tty[j]
  /\ \A i \in Unread : gs_rx_buff[i] \in Item /\ gs_rx_buff[i] <= sentRx
  /\ \A i, j \in Unread : i < j /\ Sound(gs_rx_buff[i]) /\ Sound(gs_rx_buff[j])
                            => gs_rx_buff[i] < gs_rx_buff[j]
  /\ \A i \in Unread, j \in DOMAIN tty :
       Sound(gs_rx_buff[i]) /\ Sound(tty[j]) => gs_rx_buff[i] < tty[j]

\* All packets on their way are newer than x.
NewerThan(x) == /\ \A i \in DOMAIN tty : Sound(tty[i]) => x < tty[i]
                /\ \A i \in Unread : Sound(gs_rx_buff[i]) => x < gs_rx_buff[i]

\* What was written is older than the packet in hand, and that one is older
\* than what is still to come.
HandOrder ==
  /\ NewerThan(written)
  /\ slip \in {"check", "write"} /\ Sound(packet)
       => packet \in Packet /\ written < packet /\ packet <= sentRx /\ NewerThan(packet)
  /\ slip = "write" => Sound(packet)
  /\ ~replayed

OrderInv == ~readFailed => BufferTypes /\ LineOrder /\ HandOrder

LEMMA MinOfTwo ==
  ASSUME NEW a \in Int, NEW b \in Int
  PROVE  Min({a, b}) = IF a <= b THEN a ELSE b
  BY DEF Min

\* Steps that do not touch the packets.  The SLIP thread may go to a place
\* where it has no packet in hand.
LEMMA NoPacketMoves ==
  ASSUME OrderInv, UNCHANGED <<readVars, packet, written, replayed, sentRx>>,
         slip' = slip \/ slip' \in {"loop", "recv", "exit"}
  PROVE  OrderInv'
<1> SUFFICES ASSUME ~readFailed, BufferTypes, LineOrder, HandOrder
             PROVE  BufferTypes' /\ LineOrder' /\ HandOrder'
  BY DEF OrderInv, readVars
<1>1. BufferTypes' /\ LineOrder'
  BY DEF BufferTypes, LineOrder, Unread, readVars
<1>2. UNCHANGED <<Unread, tty, gs_rx_buff>>
  BY DEF Unread, readVars
<1>3. NewerThan(written)' /\ (NewerThan(packet)' <=> NewerThan(packet))
  BY <1>2 DEF HandOrder, NewerThan
<1>4. HandOrder'
  BY <1>3 DEF HandOrder
<1> QED
  BY <1>1, <1>4

LEMMA SmallMod ==
  ASSUME NEW n \in Nat, NEW m \in Nat, n < m, NEW k \in 1 .. n, NEW i \in 0 .. k - 1
  PROVE  (i + 1) % m = i + 1 /\ i < n
<1>1. i + 1 \in 0 .. m - 1 /\ i < n
  OBVIOUS
<1> QED
  BY <1>1

(***************************************************************************)
(* recv_char takes the packet at ptr, the first one that is unread.        *)
(***************************************************************************)
LEMMA ReceiveOrder ==
  ASSUME NEW buff \in [0 .. BufLen - 1 -> Item \cup {Nothing}], NEW len \in 1 .. BufLen,
         NEW ptr \in 0 .. len - 1, NEW refilled \in BOOLEAN,
         ptr = (IF refilled THEN 0 ELSE gs_rx_ptr),
         Receive(buff, len, refilled),
         buff[ptr] \in Item
  PROVE  /\ gs_rx_buff' = buff /\ rx_buf_len' = len /\ gs_rx_ptr' = ptr + 1
         /\ packet' = buff[ptr] /\ slip' = "check"
<1>1. BufLen \in Nat /\ PtrMod \in Nat /\ BufLen < PtrMod
  BY BridgeAssumption
<1>2. (ptr + 1) % PtrMod = ptr + 1 /\ ptr < BufLen
  BY <1>1, SmallMod
<1>3. gs_rx_buff' = buff /\ rx_buf_len' = len /\ gs_rx_ptr' = ptr + 1
  BY <1>2 DEF Receive
<1>4. packet' = buff[ptr] /\ slip' = IF packet' = Nothing THEN "recv" ELSE "check"
  BY <1>2 DEF Receive
<1>5. buff[ptr] # Nothing
  BY BridgeAssumption DEF Item, Packet, Bad, Nothing
<1> QED
  BY <1>3, <1>4, <1>5

LEMMA RecvBufferedOrder ==
  ASSUME OrderInv, RecvBuffered
  PROVE  OrderInv'
<1> SUFFICES ASSUME ~readFailed, BufferTypes, LineOrder, HandOrder
             PROVE  BufferTypes' /\ LineOrder' /\ HandOrder'
  BY DEF OrderInv, RecvBuffered
<1>0. BufLen \in Nat /\ MaxRx \in Nat
  BY BridgeAssumption
<1>1. rx_buf_len \in 1 .. BufLen /\ gs_rx_ptr \in 0 .. rx_buf_len - 1
  BY <1>0 DEF RecvBuffered, BufferUsedUp, BufferTypes
<1>2. gs_rx_buff[gs_rx_ptr] \in Item /\ gs_rx_buff[gs_rx_ptr] <= sentRx
  BY <1>0, <1>1 DEF LineOrder, Unread
<1>3. /\ gs_rx_buff' = gs_rx_buff /\ rx_buf_len' = rx_buf_len
      /\ gs_rx_ptr' = gs_rx_ptr + 1
      /\ packet' = gs_rx_buff[gs_rx_ptr] /\ slip' = "check"
  BY <1>1, <1>2, ReceiveOrder DEF RecvBuffered, BufferTypes
<1>4. UNCHANGED <<tty, written, replayed, sentRx>>
  BY DEF RecvBuffered
<1>5. Unread' = Unread \ {gs_rx_ptr} /\ gs_rx_ptr \in Unread
      /\ \A i \in Unread' : gs_rx_ptr < i
  BY <1>0, <1>1, <1>3 DEF Unread
<1>6. BufferTypes'
  BY <1>0, <1>1, <1>2, <1>3, <1>4 DEF BufferTypes
<1>7. LineOrder'
  BY <1>3, <1>4, <1>5 DEF LineOrder
<1>8. NewerThan(written)'
  BY <1>3, <1>4, <1>5 DEF HandOrder, NewerThan
<1>9. Sound(packet)' => packet' \in Packet /\ written < packet'
  BY <1>2, <1>3, <1>5 DEF HandOrder, NewerThan, Sound, Item
<1>10. Sound(packet)' => NewerThan(packet)'
  BY <1>3, <1>4, <1>5 DEF LineOrder, NewerThan, Sound
<1>11. HandOrder'
  BY <1>2, <1>3, <1>4, <1>8, <1>9, <1>10 DEF HandOrder
<1> QED
  BY <1>6, <1>7, <1>11

LEMMA RecvReadOrder ==
  ASSUME OrderInv, RecvRead
  PROVE  OrderInv'
<1> SUFFICES ASSUME ~readFailed, BufferTypes, LineOrder, HandOrder
             PROVE  BufferTypes' /\ LineOrder' /\ HandOrder'
  BY DEF OrderInv, RecvRead
<1>0. BufLen \in Nat /\ MaxRx \in Nat /\ 0 < BufLen
  BY BridgeAssumption
<1> DEFINE n == Min({Len(tty), BufLen})
           buff == [i \in 0 .. BufLen - 1 |-> IF i < n THEN tty[i + 1] ELSE gs_rx_buff[i]]
<1>1. tty \in Seq(Item) /\ tty # << >> /\ Len(tty) \in Nat /\ Len(tty) > 0
  BY DEF BufferTypes, RecvRead
<1>2. n \in 1 .. BufLen /\ n <= Len(tty)
  BY <1>0, <1>1, MinOfTwo
<1>3. Receive(buff, n, TRUE) /\ tty' = SubSeq(tty, n + 1, Len(tty))
  BY DEF RecvRead
<1>4. UNCHANGED <<written, replayed, sentRx>>
  BY DEF RecvRead
<1> HIDE DEF n
<1>5. \A i \in 0 .. n - 1 : buff[i] = tty[i + 1] /\ tty[i + 1] \in Item
                            /\ i + 1 \in DOMAIN tty
  BY <1>0, <1>1, <1>2
<1>6. buff \in [0 .. BufLen - 1 -> Item \cup {Nothing}]
  BY <1>0, <1>1, <1>2 DEF BufferTypes
<1> HIDE DEF buff
<1>7. /\ gs_rx_buff' = buff /\ rx_buf_len' = n /\ gs_rx_ptr' = 1
      /\ packet' = buff[0] /\ slip' = "check"
  <2>1. 0 \in 0 .. n - 1 /\ buff[0] \in Item
    BY <1>2, <1>5
  <2> QED
    BY <1>2, <1>3, <1>6, <2>1, ReceiveOrder, 0 + 1 = 1
<1>8. /\ tty' \in Seq(Item) /\ Len(tty') = Len(tty) - n
      /\ \A j \in DOMAIN tty' : tty'[j] = tty[j + n] /\ j + n \in DOMAIN tty /\ j \in Nat \ {0}
  BY <1>1, <1>2, <1>3
<1>9. \A i \in Unread' : /\ i \in 1 .. n - 1 /\ i + 1 \in DOMAIN tty
                         /\ gs_rx_buff'[i] = tty[i + 1] /\ tty[i + 1] \in Item
  BY <1>0, <1>2, <1>5, <1>7 DEF Unread
<1>10. packet' = tty[1] /\ 1 \in DOMAIN tty /\ tty[1] \in Item
  BY <1>2, <1>5, <1>7
<1>11. BufferTypes'
  BY <1>0, <1>2, <1>4, <1>6, <1>7, <1>8, <1>10 DEF BufferTypes
<1>12. LineOrder'
  <2>1. \A i \in DOMAIN tty' : tty'[i] <= sentRx'
    BY <1>4, <1>8 DEF LineOrder
  <2>2. \A i, j \in DOMAIN tty' : i < j /\ Sound(tty'[i]) /\ Sound(tty'[j])
                                    => tty'[i] < tty'[j]
    BY <1>2, <1>8 DEF LineOrder
  <2>3. \A i \in Unread' : gs_rx_buff'[i] \in Item /\ gs_rx_buff'[i] <= sentRx'
    BY <1>4, <1>9 DEF LineOrder
  <2>4. \A i, j \in Unread' : i < j /\ Sound(gs_rx_buff'[i]) /\ Sound(gs_rx_buff'[j])
                            => gs_rx_buff'[i] < gs_rx_buff'[j]
    BY <1>2, <1>9 DEF LineOrder
  <2>5. \A i \in Unread', j \in DOMAIN tty' :
          Sound(gs_rx_buff'[i]) /\ Sound(tty'[j]) => gs_rx_buff'[i] < tty'[j]
    BY <1>2, <1>8, <1>9 DEF LineOrder
  <2> QED
    BY <2>1, <2>2, <2>3, <2>4, <2>5 DEF LineOrder, Sound
<1>13. NewerThan(written)'
  BY <1>4, <1>8, <1>9 DEF HandOrder, NewerThan, Sound
<1>14. Sound(packet)' => packet' \in Packet /\ written' < packet' /\ packet' <= sentRx'
  BY <1>4, <1>10 DEF HandOrder, NewerThan, Sound, Item, LineOrder
<1>15. Sound(packet)' => NewerThan(packet)'
  <2> SUFFICES ASSUME Sound(tty[1]) PROVE NewerThan(packet)'
    BY <1>10 DEF Sound
  <2>1. \A i \in DOMAIN tty' : Sound(tty'[i]) => tty[1] < tty'[i]
    BY <1>2, <1>8, <1>10 DEF LineOrder
  <2>2. \A i \in Unread' : Sound(gs_rx_buff'[i]) => tty[1] < gs_rx_buff'[i]
    BY <1>2, <1>9, <1>10 DEF LineOrder
  <2> QED
    BY <1>10, <2>1, <2>2 DEF NewerThan, Sound
<1>16. HandOrder'
  BY <1>4, <1>7, <1>13, <1>14, <1>15 DEF HandOrder
<1> QED
  BY <1>11, <1>12, <1>16

LEMMA LineInputOrder ==
  ASSUME OrderInv, LineInput
  PROVE  OrderInv'
<1> SUFFICES ASSUME ~readFailed, BufferTypes, LineOrder, HandOrder
             PROVE  BufferTypes' /\ LineOrder' /\ HandOrder'
  BY DEF OrderInv, LineInput
<1>0. BufLen \in Nat /\ MaxRx \in Nat
  BY BridgeAssumption
<1>1. /\ UNCHANGED <<slip, gs_rx_buff, gs_rx_ptr, rx_buf_len, packet, written, replayed>>
      /\ sentRx < MaxRx /\ sentRx' = sentRx + 1
  BY DEF LineInput
<1>2. PICK x \in {sentRx + 1, Bad} : tty' = Append(tty, x)
  BY DEF LineInput
<1>3. /\ tty \in Seq(Item) /\ Len(tty) \in Nat /\ sentRx \in 0 .. MaxRx /\ x \in Item
      /\ \A i \in Unread : gs_rx_buff[i] \in Item /\ gs_rx_buff[i] <= sentRx
      /\ \A i \in DOMAIN tty : tty[i] \in Int /\ tty[i] <= sentRx
      /\ \A i \in Unread : gs_rx_buff[i] \in Int
      /\ x \in Int
  <2>1. tty \in Seq(Item) /\ Len(tty) \in Nat /\ sentRx \in 0 .. MaxRx
    BY DEF BufferTypes
  <2>2. x \in Item
    BY <1>0, <1>1, <2>1 DEF Item, Packet
  <2>3. \A y \in Item : y \in Int
    BY <1>0 DEF Item, Packet, Bad
  <2>4. /\ \A i \in Unread : gs_rx_buff[i] \in Item /\ gs_rx_buff[i] <= sentRx
        /\ \A i \in DOMAIN tty : tty[i] \in Item /\ tty[i] <= sentRx
    BY <2>1 DEF LineOrder
  <2> QED
    BY <2>1, <2>2, <2>3, <2>4
<1>4. /\ tty' \in Seq(Item) /\ DOMAIN tty' = DOMAIN tty \cup {Len(tty) + 1}
      /\ \A i \in DOMAIN tty : tty'[i] = tty[i] /\ i < Len(tty) + 1 /\ i \in Nat
      /\ tty'[Len(tty) + 1] = x /\ Len(tty) + 1 \notin DOMAIN tty
  BY <1>2, <1>3
<1>5. Unread' = Unread
  BY <1>1 DEF Unread
<1>6. Sound(x) => x = sentRx + 1
  BY DEF Sound
<1>7. x <= sentRx + 1
  BY <1>3 DEF Bad
<1>8. BufferTypes'
  BY <1>0, <1>1, <1>3, <1>4 DEF BufferTypes
<1>9. LineOrder'
  <2>1. \A i \in DOMAIN tty' : tty'[i] <= sentRx'
    BY <1>1, <1>3, <1>4, <1>7
  <2>2. \A i, j \in DOMAIN tty' : i < j /\ Sound(tty'[i]) /\ Sound(tty'[j])
                                    => tty'[i] < tty'[j]
    BY <1>3, <1>4, <1>6 DEF LineOrder
  <2>3. \A i \in Unread' : gs_rx_buff'[i] \in Item /\ gs_rx_buff'[i] <= sentRx'
    BY <1>1, <1>3, <1>5
  <2>4. \A i \in Unread', j \in DOMAIN tty' :
          Sound(gs_rx_buff'[i]) /\ Sound(tty'[j]) => gs_rx_buff'[i] < tty'[j]
    BY <1>1, <1>3, <1>4, <1>5, <1>6 DEF LineOrder
  <2>5. \A i, j \in Unread' : i < j /\ Sound(gs_rx_buff'[i]) /\ Sound(gs_rx_buff'[j])
                            => gs_rx_buff'[i] < gs_rx_buff'[j]
    BY <1>1, <1>5 DEF LineOrder
  <2> QED
    BY <2>1, <2>2, <2>3, <2>4, <2>5 DEF LineOrder, Sound
<1>10. ASSUME NEW y \in 0 .. sentRx, NewerThan(y)
       PROVE  /\ \A i \in DOMAIN tty' : Sound(tty'[i]) => y < tty'[i]
              /\ \A i \in Unread' : Sound(gs_rx_buff'[i]) => y < gs_rx_buff'[i]
  BY <1>1, <1>3, <1>4, <1>5, <1>6, <1>10 DEF NewerThan
<1>11. HandOrder'
  <2>1. written \in 0 .. sentRx /\ NewerThan(written)'
    BY <1>1, <1>10 DEF BufferTypes, HandOrder, NewerThan, Sound
  <2>2. slip \in {"check", "write"} /\ Sound(packet)
          => packet \in 0 .. sentRx /\ NewerThan(packet)'
    BY <1>0, <1>1, <1>3, <1>10 DEF HandOrder, NewerThan, Sound, Packet
  <2> QED
    BY <1>1, <1>3, <2>1, <2>2 DEF HandOrder, Sound, Packet
<1> QED
  BY <1>8, <1>9, <1>11

LEMMA CheckWriteOrder ==
  ASSUME OrderInv, Check \/ Write
  PROVE  OrderInv'
<1> SUFFICES ASSUME ~readFailed, BufferTypes, LineOrder, HandOrder
             PROVE  BufferTypes' /\ LineOrder' /\ HandOrder'
  BY DEF OrderInv, Check, Write, readVars
<1>1. UNCHANGED <<tty, gs_rx_buff, gs_rx_ptr, rx_buf_len, packet, sentRx>>
  BY DEF Check, Write, readVars
<1>2. UNCHANGED Unread
  BY <1>1 DEF Unread
<1>3. LineOrder'
  BY <1>1, <1>2 DEF LineOrder
<1>4. CASE Check
  <2>1. UNCHANGED <<written, replayed>> /\ slip = "check"
        /\ slip' = IF packet = Bad THEN "loop" ELSE "write"
    BY <1>4 DEF Check
  <2>2. BufferTypes'
    BY <1>1, <2>1 DEF BufferTypes
  <2>3. NewerThan(written)' /\ (NewerThan(packet)' <=> NewerThan(packet))
    BY <1>1, <1>2, <2>1 DEF HandOrder, NewerThan
  <2> QED
    BY <1>1, <1>3, <2>1, <2>2, <2>3 DEF HandOrder, Sound
<1>5. CASE Write
  <2>1. slip = "write" /\ slip' = "loop"
    BY <1>5 DEF Write
  <2>2. packet \in Packet /\ written < packet /\ packet <= sentRx /\ NewerThan(packet)
    BY <2>1 DEF HandOrder
  <2>3. \/ written' = packet /\ replayed' = (replayed \/ packet <= written)
        \/ UNCHANGED <<written, replayed>>
    BY <1>5 DEF Write
  <2>4. ~replayed'
    BY <2>2, <2>3, BridgeAssumption DEF HandOrder, BufferTypes, Packet
  <2>5. BufferTypes'
    BY <1>1, <2>2, <2>3, BridgeAssumption DEF BufferTypes, Packet
  <2>6. NewerThan(written)'
    BY <1>1, <1>2, <2>2, <2>3 DEF HandOrder, NewerThan
  <2> QED
    BY <1>3, <2>1, <2>4, <2>5, <2>6 DEF HandOrder
<1> QED
  BY <1>4, <1>5

LEMMA AlwaysOrder == Spec => []OrderInv
<1>1. Init => OrderInv
  <2> SUFFICES ASSUME Init PROVE BufferTypes /\ LineOrder /\ HandOrder
    BY DEF OrderInv
  <2>1. BufLen \in Nat /\ MaxRx \in Nat
    BY BridgeAssumption
  <2>2. tty = << >> /\ Unread = {}
    BY DEF Init, Unread
  <2>3. BufferTypes
    BY <2>1, <2>2 DEF Init, BufferTypes
  <2> QED
    BY <2>2, <2>3 DEF Init, LineOrder, HandOrder, NewerThan
<1>2. OrderInv /\ [Next]_vars => OrderInv'
  <2> SUFFICES ASSUME OrderInv, [Next]_vars PROVE OrderInv'
    OBVIOUS
  <2>1. CASE MainStep \/ TapFrame \/ TapReadFails \/ SlipLoop \/ RecvFaults \/ UNCHANGED vars
    <3>1. UNCHANGED <<readVars, packet, written, replayed, sentRx>>
      BY <2>1 DEF MainStep, OpenDevices, SetFlag, Create, MainLoop, TapFrame, TapReadFails,
                  MainStopTest, MainStopClear, MainStopJoin, MainExit, SlipLoop, RecvFaults,
                  slipVars, vars
    <3>2. slip' = slip \/ slip' \in {"loop", "recv", "exit"}
      BY <2>1 DEF MainStep, OpenDevices, SetFlag, Create, MainLoop, TapFrame, TapReadFails,
                  MainStopTest, MainStopClear, MainStopJoin, MainExit, SlipLoop, RecvFaults,
                  slipVars, vars
    <3> QED
      BY <3>1, <3>2, NoPacketMoves
  <2>2. CASE \E t \in Thread : HandlerStep(t) \/ \E s \in Signal : SignalArrives(t, s)
    <3>1. UNCHANGED <<slipVars, sentRx>>
      BY <2>2 DEF HandlerStep, HandlerIgnore, HandlerTest, HandlerClear, HandlerJoin,
                  HandlerExit, SignalArrives
    <3> QED
      BY <3>1, NoPacketMoves DEF slipVars
  <2>3. CASE RecvReadFails \/ RecvHangup
    BY <2>3 DEF RecvReadFails, RecvHangup, OrderInv
  <2> QED
    BY <2>1, <2>2, <2>3, RecvBufferedOrder, RecvReadOrder, LineInputOrder, CheckWriteOrder
       DEF Next, SlipStep
<1> QED
  BY <1>1, <1>2, PTL DEF Spec

(***************************************************************************)
(* As long as read() does not fail, the TAP device gets the packets of the *)
(* line in their order and none of them twice, for every size of the       *)
(* buffer of recv_char and every way the packets fall into its reads.      *)
(***************************************************************************)
THEOREM BridgeKeepsOrder == Spec => []InOrderOnce
<1>1. OrderInv => InOrderOnce
  BY DEF OrderInv, HandOrder, InOrderOnce
<1> QED
  BY <1>1, AlwaysOrder, PTL
=============================================================================
