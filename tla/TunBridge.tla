----------------------------- MODULE TunBridge ------------------------------
(***************************************************************************)
(* ethoslip_tun joins a TAP device and the serial line.  Its main thread   *)
(* carries frames from the TAP device to the line, a second thread carries *)
(* packets from the line to the TAP device, and SIGINT or SIGTERM, handled *)
(* on either thread, stops the program.                                    *)
(*                                                                         *)
(* The characters of a packet are taken together: an element of the line   *)
(* and of the buffers is a packet, so recv_char returns a whole one.       *)
(***************************************************************************)
EXTENDS Integers, Sequences, FiniteSetsExt

CONSTANTS MaxRx,    \* bound on the packets that come from the device
          VMin,     \* packets the terminal collects before read() returns
          BufLen,   \* packets gs_rx_buff holds (QUEUE_MAX_NUM)
          PtrMod    \* gs_rx_ptr counts modulo this (an unsigned short)

ASSUME BridgeAssumption ==
  /\ {MaxRx, VMin, BufLen, PtrMod} \subseteq Nat
  /\ 0 < BufLen /\ BufLen < PtrMod

Thread == {"main", "slip"}
Signal == {"SIGINT", "SIGTERM"}
Nothing == 0   \* no complete packet
Bad == -1      \* a packet whose checksum is wrong

VARIABLES main,         \* place in main and the functions it calls
          slip,         \* place in slip_out_task_proc
          handler,      \* place of each thread in signal_proc
          ignored,      \* signals that are set to SIG_IGN
          run_flag,
          created,      \* what became of pthread_create
          tunOpen,
          tty,          \* packets in the terminal's buffer
          gs_rx_buff, gs_rx_ptr, rx_buf_len,
          packet,       \* slip_out_buffer
          sentRx,
          written,      \* the last packet written to the TAP device
          replayed,     \* a packet was written that was not newer than it
          late,         \* packets written after run_flag was cleared
          readFailed, ended

readVars == <<tty, gs_rx_buff, gs_rx_ptr, rx_buf_len, readFailed>>
slipVars == <<slip, readVars, packet, written, replayed, late>>
mainVars == <<main, created, tunOpen>>
vars == <<mainVars, slipVars, handler, ignored, run_flag, sentRx, ended>>

Runs(t) == ~ended /\ handler[t] = "no"
-----------------------------------------------------------------------------
(***************************************************************************)
(* slip_out_task_stop, called by main and by the signal handler.  Joining  *)
(* a thread that was never created is undefined, and joining oneself       *)
(* returns an error at once.                                               *)
(***************************************************************************)
StopTest == IF run_flag = 1 THEN "clear" ELSE "return"

\* Variant: the flag is cleared and the thread is not waited for.
JoinMutant(self) == UNCHANGED ended

Join(self) ==
  \/ (self = "slip" \/ slip = "exit") /\ UNCHANGED ended
  \/ self # "slip" /\ created # "yes" /\ ended' \in BOOLEAN
-----------------------------------------------------------------------------
(***************************************************************************)
(* The main thread.                                                        *)
(***************************************************************************)
Main(from, to) == Runs("main") /\ main = from /\ main' = to

\* tun_alloc and uart2_init; either may fail.
OpenDevices ==
  /\ Main("open", "flag") \/ Main("open", "return")
  /\ UNCHANGED <<created, tunOpen, slipVars, handler, ignored, run_flag,
                 sentRx, ended>>

SetFlag ==
  /\ Main("flag", "create")
  /\ run_flag' = 1
  /\ UNCHANGED <<created, tunOpen, slipVars, handler, ignored, sentRx,
                 ended>>

\* pthread_create; main does not look at its result.
Create ==
  /\ Main("create", "loop")
  /\ \/ created' = "yes" /\ slip' = "loop"
     \/ created' = "failed" /\ UNCHANGED slip
  /\ UNCHANGED <<tunOpen, readVars, packet, written, replayed, late, handler, ignored,
                 run_flag, sentRx, ended>>

MainLoop ==
  /\ IF run_flag = 1 THEN Main("loop", "read") ELSE Main("loop", "return")
  /\ UNCHANGED <<created, tunOpen, slipVars, handler, ignored, run_flag,
                 sentRx, ended>>

\* A frame comes from the TAP device and is sent to the device with its
\* checksum.
TapFrame ==
  /\ Main("read", "loop")
  /\ UNCHANGED <<created, tunOpen, slipVars, handler, ignored, run_flag, sentRx,
                 ended>>

TapReadFails ==
  /\ Main("read", "test")
  /\ tunOpen' = FALSE
  /\ UNCHANGED <<created, slipVars, handler, ignored, run_flag, sentRx,
                 ended>>

MainStopTest ==
  /\ Main("test", StopTest)
  /\ UNCHANGED <<created, tunOpen, slipVars, handler, ignored, run_flag,
                 sentRx, ended>>

MainStopClear ==
  /\ Main("clear", "join")
  /\ run_flag' = 0
  /\ UNCHANGED <<created, tunOpen, slipVars, handler, ignored, sentRx,
                 ended>>

MainStopJoin ==
  /\ Main("join", "return") /\ Join("main")
  /\ UNCHANGED <<created, tunOpen, slipVars, handler, ignored, run_flag,
                 sentRx>>

\* The C library ends the process when main has returned.
MainExit ==
  /\ Runs("main") /\ main = "return"
  /\ ended' = TRUE
  /\ UNCHANGED <<mainVars, slipVars, handler, ignored, run_flag, sentRx>>

MainStep == \/ OpenDevices \/ SetFlag \/ Create \/ MainLoop
            \/ MainStopTest \/ MainStopClear \/ MainStopJoin \/ MainExit
-----------------------------------------------------------------------------
(***************************************************************************)
(* The SLIP thread.                                                        *)
(***************************************************************************)
\* Variant: the thread tests the flag once, when it starts.
SlipLoopMutant ==
  /\ Runs("slip") /\ slip = "loop"
  /\ slip' = "recv"
  /\ UNCHANGED <<mainVars, readVars, packet, written, replayed, late, handler, ignored,
                 run_flag, sentRx, ended>>

SlipLoop ==
  /\ Runs("slip") /\ slip = "loop"
  /\ slip' = IF run_flag = 1 THEN "recv" ELSE "exit"
  /\ UNCHANGED <<mainVars, readVars, packet, written, replayed, late, handler, ignored,
                 run_flag, sentRx, ended>>

(***************************************************************************)
(* recv_char: it reads again when the buffer is used up, and does not look *)
(* at the result of read().  Receive is given what read() did.             *)
(***************************************************************************)
Receive(buff, len, refilled) ==
  LET ptr == IF refilled THEN 0 ELSE gs_rx_ptr
  IN  /\ gs_rx_buff' = buff /\ rx_buf_len' = len
      /\ gs_rx_ptr' = (ptr + 1) % PtrMod
      /\ packet' \in IF ptr < BufLen THEN {buff[ptr]} ELSE {Nothing, Bad}
      /\ slip' = IF packet' = Nothing THEN "recv" ELSE "check"

InRecv == Runs("slip") /\ slip = "recv"

\* Variant: off by one.
BufferUsedUpMutant == rx_buf_len = 0 \/ gs_rx_ptr > rx_buf_len

BufferUsedUp == rx_buf_len = 0 \/ gs_rx_ptr = rx_buf_len

RecvBuffered ==
  /\ InRecv /\ ~BufferUsedUp
  /\ Receive(gs_rx_buff, rx_buf_len, FALSE)
  /\ UNCHANGED <<mainVars, tty, readFailed, written, replayed, late, handler, ignored,
                 run_flag, sentRx, ended>>

\* The terminal has what VMIN asks for.
RecvRead ==
  /\ InRecv /\ BufferUsedUp
  /\ Len(tty) >= VMin /\ tty # << >>
  /\ LET n == Min({Len(tty), BufLen})
     IN  /\ Receive([i \in 0 .. BufLen - 1 |->
                       IF i < n THEN tty[i + 1] ELSE gs_rx_buff[i]], n, TRUE)
         /\ tty' = SubSeq(tty, n + 1, Len(tty))
  /\ UNCHANGED <<mainVars, readFailed, written, replayed, late, handler, ignored, run_flag,
                 sentRx, ended>>

\* read() returns -1: what is left in the buffer is taken for received.
RecvReadFails ==
  /\ InRecv /\ BufferUsedUp
  /\ readFailed' = TRUE
  /\ Receive(gs_rx_buff, -1, TRUE)
  /\ UNCHANGED <<mainVars, tty, written, replayed, late, handler, ignored, run_flag, sentRx,
                 ended>>

\* read() returns 0, as it does for good once the line is hung up: the first
\* character of the buffer again and again, which completes no packet.
RecvHangup ==
  /\ InRecv /\ BufferUsedUp
  /\ rx_buf_len' = 0 /\ gs_rx_ptr' = 1 /\ readFailed' = TRUE
  /\ UNCHANGED <<mainVars, slip, tty, gs_rx_buff, packet, written, replayed, late, handler,
                 ignored, run_flag, sentRx, ended>>

\* Past the end of the buffer lies other memory, or none.
RecvFaults ==
  /\ InRecv /\ ~BufferUsedUp /\ gs_rx_ptr >= BufLen
  /\ ended' = TRUE
  /\ UNCHANGED <<mainVars, slipVars, handler, ignored, run_flag, sentRx>>

\* if_api_check
Check ==
  /\ Runs("slip") /\ slip = "check"
  /\ slip' = IF packet = Bad THEN "loop" ELSE "write"
  /\ UNCHANGED <<mainVars, readVars, packet, written, replayed, late, handler, ignored,
                 run_flag, sentRx, ended>>

\* write() to a descriptor that is closed fails, which the thread ignores.
Write ==
  /\ Runs("slip") /\ slip = "write"
  /\ slip' = "loop"
  /\ IF tunOpen THEN /\ written' = packet
                     /\ replayed' = (replayed \/ packet <= written)
                ELSE UNCHANGED <<written, replayed>>
  /\ late' = IF run_flag = 0 THEN late + 1 ELSE late
  /\ UNCHANGED <<mainVars, readVars, packet, handler, ignored, run_flag, sentRx,
                 ended>>

SlipStep == SlipLoop \/ RecvBuffered \/ RecvRead \/ Check \/ Write

\* A packet arrives from the device, whole or damaged.
LineInput ==
  /\ ~ended /\ sentRx < MaxRx
  /\ sentRx' = sentRx + 1
  /\ \E p \in {sentRx + 1, Bad} : tty' = Append(tty, p)
  /\ UNCHANGED <<mainVars, slip, gs_rx_buff, gs_rx_ptr, rx_buf_len, packet, written,
                 replayed, late, readFailed, handler, ignored, run_flag, ended>>
-----------------------------------------------------------------------------
(***************************************************************************)
(* signal_proc.  A signal for the process is handled on any thread that    *)
(* exists; the handler does not return.                                    *)
(***************************************************************************)
SignalArrives(t, s) ==
  /\ ~ended /\ s \notin ignored
  /\ t = "slip" => slip \notin {"none", "exit"}
  /\ handler[t] \in {"no", "enter"}
  /\ handler' = [handler EXCEPT ![t] = "enter"]
  /\ UNCHANGED <<mainVars, slipVars, ignored, run_flag, sentRx, ended>>

Handle(t, from, to) ==
  /\ ~ended /\ handler[t] = from
  /\ handler' = [handler EXCEPT ![t] = to]

HandlerIgnore(t) ==
  /\ Handle(t, "enter", "test")
  /\ ignored' = Signal
  /\ UNCHANGED <<mainVars, slipVars, run_flag, sentRx, ended>>

\* Variant: the flag is not tested.
HandlerTestMutant(t) ==
  /\ Handle(t, "test", "clear")
  /\ UNCHANGED <<mainVars, slipVars, ignored, run_flag, sentRx, ended>>

HandlerTest(t) ==
  /\ Handle(t, "test", StopTest)
  /\ UNCHANGED <<mainVars, slipVars, ignored, run_flag, sentRx, ended>>

HandlerClear(t) ==
  /\ Handle(t, "clear", "join")
  /\ run_flag' = 0
  /\ UNCHANGED <<mainVars, slipVars, ignored, sentRx, ended>>

HandlerJoin(t) ==
  /\ Handle(t, "join", "return") /\ Join(t)
  /\ UNCHANGED <<mainVars, slipVars, ignored, run_flag, sentRx>>

\* Variant: the handler returns to what it interrupted.
HandlerExitMutant(t) ==
  /\ Handle(t, "return", "no")
  /\ UNCHANGED <<mainVars, slipVars, ignored, run_flag, sentRx, ended>>

HandlerExit(t) ==
  /\ ~ended /\ handler[t] = "return"
  /\ ended' = TRUE
  /\ UNCHANGED <<mainVars, slipVars, handler, ignored, run_flag, sentRx>>

HandlerStep(t) == \/ HandlerIgnore(t) \/ HandlerTest(t) \/ HandlerClear(t)
                  \/ HandlerJoin(t) \/ HandlerExit(t)
-----------------------------------------------------------------------------
Init == /\ main = "open" /\ slip = "none"
        /\ handler = [t \in Thread |-> "no"] /\ ignored = {}
        /\ run_flag = 0 /\ created = "no" /\ tunOpen = TRUE
        /\ tty = << >> /\ gs_rx_buff = [i \in 0 .. BufLen - 1 |-> Nothing]
        /\ gs_rx_ptr = 0 /\ rx_buf_len = 0 /\ packet = Nothing
        /\ sentRx = 0 /\ written = 0 /\ replayed = FALSE /\ late = 0
        /\ readFailed = FALSE /\ ended = FALSE

Next == \/ MainStep \/ TapFrame \/ TapReadFails
        \/ SlipStep \/ RecvReadFails \/ RecvHangup \/ RecvFaults \/ LineInput
        \/ \E t \in Thread : HandlerStep(t) \/ \E s \in Signal : SignalArrives(t, s)

(***************************************************************************)
(* The threads and the handlers are scheduled.  Nobody owes us a frame, a  *)
(* packet or a signal.                                                     *)
(***************************************************************************)
Fairness == /\ WF_vars(MainStep) /\ WF_vars(SlipStep)
            /\ \A t \in Thread : WF_vars(HandlerStep(t))

Spec == Init /\ [][Next]_vars /\ Fairness
-----------------------------------------------------------------------------
Packet == 1 .. MaxRx
HandlerPlace == {"no", "enter", "test", "clear", "join", "return"}

TypeOK ==
  /\ main \in {"open", "flag", "create", "loop", "read", "test", "clear", "join",
               "return"}
  /\ slip \in {"none", "loop", "recv", "check", "write", "exit"}
  /\ handler \in [Thread -> HandlerPlace] /\ ignored \in {{}, Signal}
  /\ run_flag \in {0, 1} /\ created \in {"no", "yes", "failed"}
  /\ {tunOpen, readFailed, ended} \subseteq BOOLEAN
  /\ tty \in Seq(Packet \cup {Bad}) /\ written \in 0 .. MaxRx /\ replayed \in BOOLEAN
  /\ gs_rx_buff \in [0 .. BufLen - 1 -> Packet \cup {Bad, Nothing}]
  /\ gs_rx_ptr \in 0 .. PtrMod - 1 /\ rx_buf_len \in -1 .. BufLen
  /\ packet \in Packet \cup {Bad, Nothing}
  /\ sentRx \in 0 .. MaxRx /\ late \in Nat

(***************************************************************************)
(* As long as read() has not failed, the TAP device gets every packet at   *)
(* most once and in the order sent, however the packets fall into the      *)
(* reads of recv_char.                                                     *)
(***************************************************************************)
InOrderOnce ==
  ~readFailed => ~replayed

\* Once the flag is cleared, slip_out_task_proc writes at most one packet more.
OneMoreAfterStop == late <= 1

(***************************************************************************)
(* slip_out_task_stop joins the thread that slip_out_task_start made, or  *)
(* tried to make (main.c:94 drops the result of pthread_create), unless    *)
(* the handler interrupts main between run_flag = 1 and pthread_create     *)
(* (main.c:148).                                                           *)
(***************************************************************************)
JoinsRealThread ==
  /\ main = "join" => created # "no"
  /\ \A t \in Thread : handler[t] = "join" => created # "no" \/ main = "create"

(***************************************************************************)
(* The SLIP thread's parameter points at a local variable of main          *)
(* (main.c:94).  It is not used once main has returned, whichever thread   *)
(* handled the signal and whatever main was doing.                         *)
(***************************************************************************)
TunFdAlive == Runs("slip") /\ slip = "write" => main # "return"

(***************************************************************************)
(* "program termination normally!": a signal ends the program, unless the  *)
(* SLIP thread never leaves recv_packet (main.c:158 waits for it).         *)
(***************************************************************************)
StopsOrStuckInRecv ==
  \A t \in Thread : (handler[t] = "test") ~> (ended \/ [](slip = "recv"))
=============================================================================
