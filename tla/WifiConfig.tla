----------------------------- MODULE WifiConfig -----------------------------
(***************************************************************************)
(* The credentials of the access point in the firmware.  They are three    *)
(* global variables.  The SLIP task replaces them when the host asks for   *)
(* it (wlan_api_pack_proc) and connects; net_task looks every two seconds  *)
(* whether the device is connected and if not connects with what the       *)
(* variables hold (network_connected_proc).  The SLIP task has the higher  *)
(* priority, and both print under one mutex.                               *)
(*                                                                         *)
(* A name or a password is a sequence of characters.                       *)
(***************************************************************************)
EXTENDS Integers, Sequences, SequencesExt

CONSTANTS Default,    \* the credentials the firmware starts with
          Requests,   \* the credentials the host may ask for
          Networks,   \* the credentials that access points accept
          SsidMax, PasswdMax,  \* WLAN_API_SSID_MAX_LEN, ..PASSWORD_MAX_LEN
          SlipPrio, NetPrio,   \* priorities of the two tasks
          MaxRequests,         \* bound on the requests
          MaxFaults            \* bound on lost connections and failed joins

ASSUME PrioAssumption == SlipPrio \in Nat /\ NetPrio \in Nat /\ SlipPrio > NetPrio

\* The credentials the firmware starts with fit its variables, rtw_ssid_t and
\* gs_passwd.  What the host asks for may have any length.
ASSUME ConfigAssumption ==
  /\ {SsidMax, PasswdMax, MaxRequests, MaxFaults} \subseteq Nat
  /\ \A c \in Requests \cup {Default} : Len(c.ssid) \in Nat /\ Len(c.passwd) \in Nat
  /\ Len(Default.ssid) < SsidMax /\ Len(Default.passwd) < PasswdMax

VARIABLES gs_ssid, gs_passwd, gs_security_type,
          slip,         \* place of the SLIP task
          api_con,      \* the request it handles
          net,          \* place of net_task
          held,         \* net_task holds debugSemaphore
          using,        \* what each task's wlan_connect_wifi has read so far
          link,         \* the credentials of the present connection, or None
          wanted,       \* the last request that was not refused
          stale,        \* credentials replaced while net_task was using them
          skipped,      \* a request was taken for the present credentials
          requests, faults

gsVars == <<gs_ssid, gs_passwd, gs_security_type>>
history == <<wanted, stale, skipped>>
vars == <<gsVars, slip, api_con, net, held, using, link, history, requests, faults>>

Task == {"slip", "net"}
None == [ssid |-> << >>, passwd |-> << >>, sec |-> "none"]

\* A password decides the type of security.
Whole(c) == [ssid |-> c.ssid, passwd |-> c.passwd,
             sec |-> IF c.passwd = << >> THEN "OPEN" ELSE "WPA2_AES_PSK"]

\* In wlan_connect_wifi, or in the middle of joining.
Connecting == {"readSsid", "readPasswd", "readSec", "join"}

(***************************************************************************)
(* Preemptive scheduling by priority.  A task that waits for a packet, for *)
(* the mutex, for the access point or for its delay is not ready.          *)
(***************************************************************************)
Ready(t) ==
  IF t = "slip"
  THEN slip \notin {"idle", "join"} /\ ~(held /\ slip \in {"passwd", "sec", "readSsid"})
  ELSE net \notin {"delay", "join"}

Runs(t) == /\ Ready(t)
           /\ t = "net" => ~(Ready("slip") /\ SlipPrio > NetPrio)
           /\ t = "slip" => ~(Ready("net") /\ NetPrio > SlipPrio)
-----------------------------------------------------------------------------
(***************************************************************************)
(* wlan_api_pack_proc, WLAN_API_TYPE_CONNECT.                              *)
(***************************************************************************)
\* Variant: off by one, no room for the terminating zero.
TooLongMutant(c) == Len(c.ssid) > SsidMax \/ Len(c.passwd) > PasswdMax

TooLong(c) == Len(c.ssid) >= SsidMax \/ Len(c.passwd) >= PasswdMax

\* Variant: the name alone is compared.
SameMutant(c) == IsPrefix(gs_ssid, c.ssid)

\* memcmp over the length of the present ones; what follows the name and the
\* password in the frame is zero.
Same(c) == IsPrefix(gs_ssid, c.ssid) /\ IsPrefix(gs_passwd, c.passwd)

\* The request continues the present name or password.
StartsLikePresent(c) ==
  /\ <<c.ssid, c.passwd>> # <<gs_ssid, gs_passwd>>
  /\ IsPrefix(gs_ssid, c.ssid) /\ IsPrefix(gs_passwd, c.passwd)

Request(c) ==
  /\ slip = "idle" /\ requests < MaxRequests
  /\ requests' = requests + 1
  /\ IF TooLong(c)
     THEN UNCHANGED <<slip, api_con, history>>
     ELSE /\ wanted' = Whole(c)
          /\ skipped' = StartsLikePresent(c)
          /\ stale' = IF Same(c) THEN stale ELSE net \in Connecting
          /\ IF Same(c) THEN UNCHANGED <<slip, api_con>>
                        ELSE slip' = "ssid" /\ api_con' = c
  /\ UNCHANGED <<gsVars, net, held, using, link, faults>>

CopySsid ==
  /\ slip = "ssid" /\ Runs("slip")
  /\ slip' = "passwd"
  /\ gs_ssid' = api_con.ssid
  /\ UNCHANGED <<gs_passwd, gs_security_type, api_con, net, held, using, link,
                 history, requests, faults>>

CopyPasswd ==
  /\ slip = "passwd" /\ Runs("slip")
  /\ slip' = "sec"
  /\ gs_passwd' = api_con.passwd
  /\ UNCHANGED <<gs_ssid, gs_security_type, api_con, net, held, using, link,
                 history, requests, faults>>

\* Variant: the type of security is left as it was.
SetSecurityMutant ==
  /\ slip = "sec" /\ Runs("slip")
  /\ slip' = "readSsid"
  /\ UNCHANGED <<gsVars, api_con, net, held, using, link, history, requests, faults>>

SetSecurity ==
  /\ slip = "sec" /\ Runs("slip")
  /\ slip' = "readSsid"
  /\ gs_security_type' = Whole(api_con).sec
  /\ UNCHANGED <<gs_ssid, gs_passwd, api_con, net, held, using, link, history,
                 requests, faults>>
-----------------------------------------------------------------------------
(***************************************************************************)
(* wlan_connect_wifi is the vendor's.  It reads the three variables and    *)
(* asks the driver to join; the driver drops the present connection, and   *)
(* refuses to join at once, or not, while another task is joining.         *)
(***************************************************************************)
Place(t) == IF t = "slip" THEN slip ELSE net

Goto(t, p) == IF t = "slip" THEN slip' = p /\ UNCHANGED net
                            ELSE net' = p /\ UNCHANGED slip

Return(t) == Goto(t, IF t = "slip" THEN "idle" ELSE "delay")

ReadSsid(t) ==
  /\ Place(t) = "readSsid" /\ Runs(t)
  /\ using' = [using EXCEPT ![t].ssid = gs_ssid]
  /\ Goto(t, "readPasswd")
  /\ UNCHANGED <<gsVars, api_con, held, link, history, requests, faults>>

ReadPasswd(t) ==
  /\ Place(t) = "readPasswd" /\ Runs(t)
  /\ using' = [using EXCEPT ![t].passwd = gs_passwd]
  /\ Goto(t, "readSec")
  /\ UNCHANGED <<gsVars, api_con, held, link, history, requests, faults>>

StartJoin(t) ==
  /\ Place(t) = "readSec" /\ Runs(t)
  /\ using' = [using EXCEPT ![t].sec = gs_security_type]
  /\ \/ Goto(t, "join") /\ link' = None
     \/ /\ \E u \in Task \ {t} : Place(u) = "join"
        /\ Return(t) /\ UNCHANGED link
  /\ UNCHANGED <<gsVars, api_con, held, history, requests, faults>>

Joined(t) ==
  /\ Place(t) = "join"
  /\ link' = IF using[t] \in {Whole(c) : c \in Networks} THEN using[t] ELSE link
  /\ Return(t)
  /\ UNCHANGED <<gsVars, api_con, held, using, history, requests, faults>>

JoinFails(t) ==
  /\ Place(t) = "join" /\ faults < MaxFaults
  /\ faults' = faults + 1
  /\ Return(t)
  /\ UNCHANGED <<gsVars, api_con, held, using, link, history, requests>>

\* The access point goes away.
LinkDrops ==
  /\ link # None /\ faults < MaxFaults
  /\ faults' = faults + 1
  /\ link' = None
  /\ UNCHANGED <<gsVars, slip, api_con, net, held, using, history, requests>>
-----------------------------------------------------------------------------
(***************************************************************************)
(* network_connected_proc, after the start-up.                             *)
(***************************************************************************)
\* Variant: net_task looks at the connection and does not make a new one.
CheckMutant ==
  /\ net = "check" /\ Runs("net")
  /\ net' = "delay"
  /\ UNCHANGED <<gsVars, slip, api_con, held, using, link, history, requests, faults>>

Check ==
  /\ net = "check" /\ Runs("net")
  /\ IF link # None THEN net' = "delay" /\ UNCHANGED held
                    ELSE net' = "warn" /\ held' = TRUE
  /\ UNCHANGED <<gsVars, slip, api_con, using, link, history, requests, faults>>

Warned ==
  /\ net = "warn" /\ Runs("net")
  /\ net' = "readSsid" /\ held' = FALSE
  /\ UNCHANGED <<gsVars, slip, api_con, using, link, history, requests, faults>>

DelayOver ==
  /\ net = "delay"
  /\ net' = "check"
  /\ UNCHANGED <<gsVars, slip, api_con, held, using, link, history, requests, faults>>
-----------------------------------------------------------------------------
\* network_init_status: the first connection is made before net_task goes on.
Init ==
  /\ gs_ssid = Default.ssid /\ gs_passwd = Default.passwd
  /\ gs_security_type = Whole(Default).sec
  /\ slip = "idle" /\ api_con = Default /\ net = "check" /\ held = FALSE
  /\ using = [t \in Task |-> Whole(Default)]
  /\ link = Whole(Default) /\ wanted = Whole(Default)
  /\ stale = FALSE /\ skipped = FALSE /\ requests = 0 /\ faults = 0

SlipStep == CopySsid \/ CopyPasswd \/ SetSecurity
NetStep == Check \/ Warned \/ DelayOver
ConnectStep(t) == ReadSsid(t) \/ ReadPasswd(t) \/ StartJoin(t) \/ Joined(t)

Next == \/ \E c \in Requests : Request(c)
        \/ SlipStep \/ NetStep \/ LinkDrops
        \/ \E t \in Task : ConnectStep(t) \/ JoinFails(t)

(***************************************************************************)
(* Both tasks run when nothing of a higher priority does, an attempt to    *)
(* join ends, and the delay of net_task is over some time.                 *)
(***************************************************************************)
Fairness == /\ WF_vars(SlipStep) /\ WF_vars(NetStep)
            /\ \A t \in Task : WF_vars(ConnectStep(t))

Spec == Init /\ [][Next]_vars /\ Fairness
-----------------------------------------------------------------------------
Configs == Requests \cup {Default}
Ssid == {c.ssid : c \in {d \in Configs : Len(d.ssid) < SsidMax}}
Passwd == {c.passwd : c \in {d \in Configs : Len(d.passwd) < PasswdMax}}
Credentials == [ssid : Ssid, passwd : Passwd, sec : {"OPEN", "WPA2_AES_PSK"}]
Given == {Whole(c) : c \in Configs}

TypeOK ==
  /\ gs_ssid \in Ssid /\ gs_passwd \in Passwd
  /\ gs_security_type \in {"OPEN", "WPA2_AES_PSK"}
  /\ slip \in {"idle", "ssid", "passwd", "sec"} \cup Connecting
  /\ net \in {"check", "warn", "delay"} \cup Connecting
  /\ held \in BOOLEAN /\ using \in [Task -> Credentials]
  /\ link \in {Whole(c) : c \in Networks \cup {Default}} \cup {None}
  /\ wanted \in Given
  /\ requests \in 0 .. MaxRequests /\ faults \in 0 .. MaxFaults

(***************************************************************************)
(* Unless the credentials are replaced while net_task is using them, no    *)
(* attempt to join mixes the name of one request with the password or the  *)
(* security of another: a half-done replacement (wlan_api.c:45-60), which  *)
(* may wait for the mutex, is never seen.                                  *)
(***************************************************************************)
NeverTorn == \A t \in Task : Place(t) = "join" /\ ~stale => using[t] \in Given

(***************************************************************************)
(* In the end the device is connected with the last request, if there is   *)
(* such a network.  There are two exceptions: the request replaced the     *)
(* credentials while net_task was using the old ones, or it only started   *)
(* like the present ones and was taken for the same (wlan_api.c:39).       *)
(***************************************************************************)
EndsOnRequested ==
  <>[](\/ link = wanted
       \/ stale \/ skipped
       \/ wanted \notin {Whole(c) : c \in Networks})

(***************************************************************************)
(* A lost connection is made again, also when the attempt that follows     *)
(* mixed old credentials with new ones, as long as the network of the      *)
(* present credentials exists.                                             *)
(***************************************************************************)
Reconnects ==
  (link = None) ~> \/ link # None
                   \/ [ssid |-> gs_ssid, passwd |-> gs_passwd,
                       sec |-> gs_security_type] \notin {Whole(c) : c \in Networks}
=============================================================================
