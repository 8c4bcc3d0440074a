------------------------------ MODULE WlanApi -------------------------------
(***************************************************************************)
(* How ethoslip_lwip brings the interface up over the serial line.  The    *)
(* main loop asks the device for its hardware address and repeats the      *)
(* question from soft timer 1; with the answer it sends the credentials of *)
(* the access point and starts DHCP.  A frame is represented by its kind.  *)
(*                                                                         *)
(* The host reads the serial port with VMIN set, so that an answer waits   *)
(* in the terminal's buffer until enough has followed it.                  *)
(***************************************************************************)
EXTENDS Integers, Sequences

CONSTANTS VMin,         \* frames the terminal collects before read() returns
          CanLose,      \* kinds of frames the line loses
          MaxLoss,      \* bound on the frames lost
          MaxFails,     \* bound on the calls of malloc that fail
          MaxInFlight,  \* bound on the frames on the line, either direction
          MaxQueued     \* bound on the frames read and not yet handled

Frame == {"GET_HWADDR", "GET_HWADDR_RET", "CONNECT", "DATA"}

ASSUME ApiAssumption ==
  /\ CanLose \subseteq Frame
  /\ {VMin, MaxLoss, MaxFails, MaxInFlight, MaxQueued} \subseteq Nat

WIFI_NOT_HWADDR == 0
WIFI_GOT_HWADDR == 1
WIFI_CONNECTED == 2
WIFI_DHCP_NOT_IP == 3
WIFI_DHCP_GOT_IP == 4
WIFI_RUNING == 5
WIFI_FREE == 255

VARIABLES pc,                  \* place in main's loop
          wifi_status,
          gs_wlan_api_status,  \* "FREE", or "GET_HWADDR" while one is expected
          timer,               \* timer[1].on, the soft timer of the retries
          toDev,               \* frames on the way to the device
          tty,                 \* frames in the terminal's buffer of the host
          queue,               \* frames the SLIP thread has queued
          gs_ssid,             \* credentials the device uses
          bound,               \* DHCP has supplied an address
          lost, fails

loopVars == <<pc, wifi_status, gs_wlan_api_status, timer, bound, fails>>
vars == <<loopVars, toDev, tty, queue, gs_ssid, lost>>
-----------------------------------------------------------------------------
(***************************************************************************)
(* The line.  A frame that is lost stands for every way a frame vanishes:  *)
(* a character lost or misread, a full buffer, a wrong checksum.           *)
(***************************************************************************)
Lose(f) == f \in CanLose /\ lost < MaxLoss /\ lost' = lost + 1

send_packet(f) ==
  \/ toDev' = Append(toDev, f) /\ UNCHANGED lost
  \/ Lose(f) /\ UNCHANGED toDev

DeviceSends(f) ==
  \/ tty' = Append(tty, f) /\ UNCHANGED lost
  \/ Lose(f) /\ UNCHANGED tty

InFlight == Len(toDev) + Len(tty)

(***************************************************************************)
(* The device.  A CONNECT frame replaces the credentials unless they are   *)
(* the SAME; requests whose credentials only start like the present ones   *)
(* are left out here.                                                      *)
(***************************************************************************)
\* Variant: a device that has its access point already gives no address.
pack_procSilentMutant ==
  /\ toDev # << >>
  /\ toDev' = Tail(toDev)
  /\ CASE Head(toDev) = "GET_HWADDR" /\ gs_ssid = "default" ->
            DeviceSends("GET_HWADDR_RET") /\ UNCHANGED gs_ssid
       [] Head(toDev) = "CONNECT" ->
            gs_ssid' = "requested" /\ UNCHANGED <<tty, lost>>
       [] OTHER -> UNCHANGED <<tty, lost, gs_ssid>>
  /\ UNCHANGED <<loopVars, queue>>

wlan_api_pack_proc ==
  /\ toDev # << >>
  /\ toDev' = Tail(toDev)
  /\ CASE Head(toDev) = "GET_HWADDR" ->
            DeviceSends("GET_HWADDR_RET") /\ UNCHANGED gs_ssid
       [] Head(toDev) = "CONNECT" ->
            gs_ssid' = "requested" /\ UNCHANGED <<tty, lost>>
       [] OTHER -> UNCHANGED <<tty, lost, gs_ssid>>
  /\ UNCHANGED <<loopVars, queue>>

\* The access point sends a frame to the host.  It leaves room on the line
\* for one more request.
from_ap_input ==
  /\ InFlight + 1 < MaxInFlight
  /\ DeviceSends("DATA")
  /\ UNCHANGED <<loopVars, toDev, queue, gs_ssid>>

\* read() returns to the SLIP thread, which queues what it finds.
SerialRead ==
  /\ Len(tty) >= VMin /\ tty # << >>
  /\ Len(queue) + Len(tty) <= MaxQueued
  /\ queue' = queue \o tty
  /\ tty' = << >>
  /\ UNCHANGED <<loopVars, toDev, gs_ssid, lost>>
-----------------------------------------------------------------------------
\* malloc returns NULL.
MallocFails == fails < MaxFails /\ fails' = fails + 1

\* Variant: the timer is not deleted.
CallbackMutant == wifi_status' = WIFI_GOT_HWADDR /\ UNCHANGED timer

get_hwaddr_callback == wifi_status' = WIFI_GOT_HWADDR /\ timer' = 0

(***************************************************************************)
(* wlan_api_rx_proc gives the answer to the callback if one is expected;   *)
(* the device sends no other API frame.  main frees it and starts the loop *)
(* again, without looking at the timers.                                   *)
(***************************************************************************)
wlan_api_rx_proc ==
  /\ pc = "queue" /\ queue # << >>
  /\ Head(queue) = "GET_HWADDR_RET" /\ gs_wlan_api_status = "GET_HWADDR"
  /\ queue' = Tail(queue)
  /\ get_hwaddr_callback
  /\ gs_wlan_api_status' = "FREE"
  /\ UNCHANGED <<pc, toDev, tty, gs_ssid, bound, lost, fails>>

(***************************************************************************)
(* Any other frame goes to netif.input: a frame of DHCP may supply the     *)
(* address, and an answer nobody expects is of no known Ethernet type.     *)
(***************************************************************************)
NetifInput ==
  /\ pc = "queue" /\ queue # << >>
  /\ Head(queue) # "GET_HWADDR_RET" \/ gs_wlan_api_status = "FREE"
  /\ queue' = Tail(queue)
  /\ bound' \in IF Head(queue) = "DATA" /\ wifi_status = WIFI_DHCP_NOT_IP
                THEN {bound, TRUE} ELSE {bound}
  /\ pc' = "timers"
  /\ UNCHANGED <<wifi_status, gs_wlan_api_status, timer, toDev, tty, gs_ssid,
                 lost, fails>>

NothingQueued ==
  /\ pc = "queue" /\ queue = << >>
  /\ pc' = "timers"
  /\ UNCHANGED <<wifi_status, gs_wlan_api_status, timer, bound, fails,
                 toDev, tty, queue, gs_ssid, lost>>

\* Variant: the timer is armed for the first request only.
RequestMutant ==
  /\ send_packet("GET_HWADDR")
  /\ gs_wlan_api_status' = "GET_HWADDR"
  /\ timer' = IF wifi_status = WIFI_NOT_HWADDR THEN 1 ELSE 0
  /\ UNCHANGED fails

\* wlan_api_get_hwaddr, and soft_timer_create in its caller if it succeeds.
RequestHwaddr ==
  \/ /\ send_packet("GET_HWADDR")
     /\ gs_wlan_api_status' = "GET_HWADDR"
     /\ timer' = 1
     /\ UNCHANGED fails
  \/ /\ MallocFails
     /\ timer' = 0
     /\ UNCHANGED <<gs_wlan_api_status, toDev, lost>>

\* soft_timer_proc finds timer 1 expired.  It is not circular: it goes off
\* before its callback runs.  The period of 2 s is long enough for the line
\* to carry what is on it: that bounds the retries in flight.
get_hwaddr_timeout_callback ==
  /\ pc = "timers" /\ timer = 1
  /\ InFlight < MaxInFlight
  /\ RequestHwaddr
  /\ pc' = "user"
  /\ UNCHANGED <<wifi_status, tty, queue, gs_ssid, bound>>

\* No timer has expired.
TimersDone ==
  /\ pc = "timers"
  /\ pc' = "user"
  /\ UNCHANGED <<wifi_status, gs_wlan_api_status, timer, bound, fails,
                 toDev, tty, queue, gs_ssid, lost>>

\* wlan_api_connect: user_loop does not look at its result.
wlan_api_connect ==
  \/ send_packet("CONNECT") /\ UNCHANGED fails
  \/ MallocFails /\ UNCHANGED <<toDev, lost>>

user_loop ==
  /\ pc = "user"
  /\ pc' = "queue"
  /\ \/ /\ wifi_status = WIFI_NOT_HWADDR
        /\ RequestHwaddr
        /\ wifi_status' = WIFI_FREE
     \/ /\ wifi_status = WIFI_GOT_HWADDR
        /\ wlan_api_connect
        /\ wifi_status' = WIFI_CONNECTED
        /\ UNCHANGED <<gs_wlan_api_status, timer>>
     \/ /\ wifi_status = WIFI_CONNECTED
        /\ send_packet("DATA")   \* DHCP DISCOVER
        /\ wifi_status' = WIFI_DHCP_NOT_IP
        /\ UNCHANGED <<gs_wlan_api_status, timer, fails>>
     \/ /\ wifi_status = WIFI_DHCP_NOT_IP
        /\ wifi_status' = IF bound THEN WIFI_DHCP_GOT_IP ELSE wifi_status
        /\ UNCHANGED <<gs_wlan_api_status, timer, toDev, lost, fails>>
     \/ /\ wifi_status = WIFI_DHCP_GOT_IP
        /\ wifi_status' = WIFI_RUNING
        /\ UNCHANGED <<gs_wlan_api_status, timer, toDev, lost, fails>>
     \/ /\ wifi_status \in {WIFI_RUNING, WIFI_FREE}
        /\ UNCHANGED <<wifi_status, gs_wlan_api_status, timer, toDev, lost, fails>>
  /\ UNCHANGED <<tty, queue, gs_ssid, bound>>

Init == /\ pc = "queue" /\ wifi_status = WIFI_NOT_HWADDR
        /\ gs_wlan_api_status = "FREE" /\ timer = 0
        /\ toDev = << >> /\ tty = << >> /\ queue = << >>
        /\ gs_ssid \in {"default", "requested"}
        /\ bound = FALSE /\ lost = 0 /\ fails = 0

MainStep == wlan_api_rx_proc \/ NetifInput \/ NothingQueued \/ TimersDone \/ user_loop

Next == \/ MainStep
        \/ get_hwaddr_timeout_callback
        \/ wlan_api_pack_proc
        \/ from_ap_input
        \/ SerialRead

(***************************************************************************)
(* The main loop spins, the device handles what arrives, and read()        *)
(* returns once the terminal has VMIN.  Soft timer 1 is looked at again    *)
(* and again while the clock advances, so it is found expired in the end.  *)
(* The access point owes us nothing.                                       *)
(***************************************************************************)
Fairness == /\ WF_vars(MainStep)
            /\ SF_vars(get_hwaddr_timeout_callback)
            /\ WF_vars(wlan_api_pack_proc)
            /\ WF_vars(SerialRead)

Spec == Init /\ [][Next]_vars /\ Fairness
-----------------------------------------------------------------------------
WifiStatus == WIFI_NOT_HWADDR .. WIFI_RUNING \cup {WIFI_FREE}

TypeOK == /\ pc \in {"queue", "timers", "user"}
          /\ wifi_status \in WifiStatus
          /\ gs_wlan_api_status \in {"FREE", "GET_HWADDR"}
          /\ timer \in {0, 1} /\ bound \in BOOLEAN
          /\ toDev \in Seq(Frame) /\ tty \in Seq(Frame)
          /\ queue \in Seq(Frame) /\ Len(queue) <= MaxQueued
          /\ gs_ssid \in {"default", "requested"}
          /\ lost \in 0 .. MaxLoss /\ fails \in 0 .. MaxFails

\* Progress of the bring-up: WIFI_FREE waits for the answer.
Stage(s) == CASE s = WIFI_NOT_HWADDR -> 0
              [] s = WIFI_FREE -> 1
              [] OTHER -> s + 1

(***************************************************************************)
(* The bring-up never goes back.  Answers that come late or more than once *)
(* (each retry asks again, and VMIN delays the answers of several retries  *)
(* together), and a timer that fires around the answer, do not return      *)
(* user_loop to an earlier state, where it would send the credentials and  *)
(* start DHCP a second time.                                               *)
(***************************************************************************)
NeverStartsOver == [][Stage(wifi_status') >= Stage(wifi_status)]_vars

(***************************************************************************)
(* While no malloc has failed, user_loop waits for the address exactly     *)
(* when timer 1 is on, and then the answer is accepted: no wait is without *)
(* a retry, and no retry outlives the wait.                                *)
(***************************************************************************)
WaitsWithRetry ==
  fails = 0 => /\ timer = 1 <=> wifi_status = WIFI_FREE
               /\ timer = 1 <=> gs_wlan_api_status = "GET_HWADDR"

(***************************************************************************)
(* "timeout, retry ...": once the address has been asked for, it arrives,  *)
(* whatever the line loses and although VMIN keeps the answers back.  One  *)
(* malloc that fails ends the retries (user_main.c:126), and then nothing  *)
(* is promised.                                                            *)
(***************************************************************************)
GetsHwaddr ==
  (wifi_status = WIFI_FREE) ~> (wifi_status = WIFI_GOT_HWADDR \/ fails > 0)
=============================================================================
