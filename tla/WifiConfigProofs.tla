-------------------------- MODULE WifiConfigProofs --------------------------
(***************************************************************************)
(* No attempt of the firmware to join mixes two requests, for every set of *)
(* requests and networks and any number of them.  The argument is the      *)
(* scheduler's: net_task starts to read the variables only when the SLIP   *)
(* task, which runs first, is not between two of its copies.               *)
(***************************************************************************)
EXTENDS WifiConfig, TLAPS

Security == {"OPEN", "WPA2_AES_PSK"}
Read == [ssid : {c.ssid : c \in Configs}, passwd : {c.passwd : c \in Configs},
         sec : Security]

Copying == {"ssid", "passwd", "sec"}

Present == [ssid |-> gs_ssid, passwd |-> gs_passwd, sec |-> gs_security_type]

\* The variables: whole, or as far as the SLIP task has come.
Variables ==
  /\ Present \in Read /\ api_con \in Configs
  /\ slip \notin {"passwd", "sec"} => Present \in Given
  /\ slip \in {"passwd", "sec"} => gs_ssid = api_con.ssid
  /\ slip = "sec" => gs_passwd = api_con.passwd

\* What a task in wlan_connect_wifi at place p has read.
ReadSoFar(t, p) ==
  /\ p \in {"readPasswd", "readSec"} => using[t].ssid = gs_ssid
  /\ p = "readSec" => using[t].passwd = gs_passwd
  /\ p = "join" => using[t] \in Given

Places ==
  /\ slip \in {"idle", "ssid", "passwd", "sec"} \cup Connecting
  /\ net \in {"check", "warn", "delay"} \cup Connecting
  /\ using \in [Task -> Read] /\ stale \in BOOLEAN
  /\ held = (net = "warn")

Inv == /\ Places /\ Variables /\ ReadSoFar("slip", slip)
       /\ ~stale => ReadSoFar("net", net)
       /\ ~stale /\ net \in {"readPasswd", "readSec"} => slip \notin Copying

\* The SLIP task is in the middle of a replacement only while net_task holds
\* the mutex or does not run at all.
LEMMA NetRunsAlone ==
  ASSUME Inv, Runs("net"), net # "warn"
  PROVE  slip \in {"idle", "join"}
  BY PrioAssumption DEF Inv, Places, Runs, Ready, Task

LEMMA RequestInv ==
  ASSUME Inv, NEW c \in Requests, Request(c)
  PROVE  Inv'
<1>1. UNCHANGED <<gs_ssid, gs_passwd, gs_security_type, net, held, using>>
  BY DEF Request, gsVars
<1>2. slip = "idle" /\ c \in Configs
  BY DEF Request, Configs
<1>3. CASE UNCHANGED <<slip, api_con, stale>>
  BY <1>1, <1>3 DEF Inv, Places, Variables, ReadSoFar, Present
<1>4. CASE slip' = "ssid" /\ api_con' = c /\ stale' = (net \in Connecting)
  <2>1. Places' /\ Variables'
    BY <1>1, <1>2, <1>4 DEF Inv, Places, Variables, Present
  <2>2. ReadSoFar("slip", slip)'
    BY <1>4 DEF ReadSoFar
  <2>3. ~stale' => net' \notin Connecting
    BY <1>1, <1>4
  <2> QED
    BY <2>1, <2>2, <2>3 DEF Inv, ReadSoFar, Connecting
<1> QED
  BY <1>3, <1>4 DEF Request, history

LEMMA SlipStepInv ==
  ASSUME Inv, SlipStep
  PROVE  Inv'
<1>1. UNCHANGED <<api_con, net, held, using, stale>> /\ slip \in Copying
  BY DEF SlipStep, CopySsid, CopyPasswd, SetSecurity, Copying, history
<1>2. api_con \in Configs /\ Present \in Read
  BY DEF Inv, Variables
<1>3. /\ api_con.ssid \in {c.ssid : c \in Configs}
      /\ api_con.passwd \in {c.passwd : c \in Configs}
      /\ Whole(api_con).sec \in Security
  BY <1>2 DEF Whole, Security
<1>4. slip' \in {"passwd", "sec", "readSsid"}
  BY DEF SlipStep, CopySsid, CopyPasswd, SetSecurity
<1>5. Present' \in Read
  BY <1>2, <1>3 DEF Present, Read, SlipStep, CopySsid, CopyPasswd, SetSecurity
<1>6. slip' = "readSsid" => Present' = Whole(api_con)
  BY DEF Inv, Variables, Present, Whole, SlipStep, CopySsid, CopyPasswd, SetSecurity
<1>7. Whole(api_con) \in Given
  BY <1>2 DEF Given
<1>8. Variables'
  <2>1. /\ slip' \in {"passwd", "sec"} => gs_ssid' = api_con.ssid
        /\ slip' = "sec" => gs_passwd' = api_con.passwd
    BY DEF Inv, Variables, SlipStep, CopySsid, CopyPasswd, SetSecurity
  <2> QED
    BY <1>1, <1>2, <1>4, <1>5, <1>6, <1>7, <2>1 DEF Variables
<1>9. ~stale => net \notin {"readPasswd", "readSec"}
  BY <1>1 DEF Inv
<1> QED
  BY <1>1, <1>4, <1>8, <1>9 DEF Inv, Places, ReadSoFar, Connecting

(***************************************************************************)
(* wlan_connect_wifi in task t.                                            *)
(***************************************************************************)
LEMMA MovesTo ==
  ASSUME NEW t \in Task, NEW p, Goto(t, p)
  PROVE  /\ t = "slip" => slip' = p /\ net' = net
         /\ t = "net" => net' = p /\ slip' = slip
  BY DEF Goto, Task

LEMMA ConnectInv ==
  ASSUME Inv, NEW t \in Task, ConnectStep(t) \/ JoinFails(t)
  PROVE  Inv'
<1>1. UNCHANGED <<gs_ssid, gs_passwd, gs_security_type, api_con, held, stale>>
  BY DEF ConnectStep, JoinFails, ReadSsid, ReadPasswd, StartJoin, Joined, gsVars, history
<1>2. using \in [Task -> Read] /\ Present \in Read /\ Place(t) \in Connecting
  BY DEF Inv, Places, Variables, ConnectStep, JoinFails, ReadSsid, ReadPasswd, StartJoin,
         Joined, Connecting
<1>3. PICK p \in {"readPasswd", "readSec", "join", "idle", "delay"} :
         /\ Goto(t, p)
         /\ p = "idle" => t = "slip"
         /\ p = "delay" => t = "net"
         /\ p = "readPasswd" => /\ Runs(t) /\ Place(t) = "readSsid"
                                /\ using' = [using EXCEPT ![t].ssid = gs_ssid]
         /\ p = "readSec" => /\ Runs(t) /\ Place(t) = "readPasswd"
                             /\ using' = [using EXCEPT ![t].passwd = gs_passwd]
         /\ p = "join" => /\ Runs(t) /\ Place(t) = "readSec"
                          /\ using' = [using EXCEPT ![t].sec = gs_security_type]
         /\ p \in {"idle", "delay"} => \/ using' = using
                                       \/ using' = [using EXCEPT ![t].sec = gs_security_type]
  BY DEF ConnectStep, JoinFails, ReadSsid, ReadPasswd, StartJoin, Joined, Return, Task
<1>4. using' \in [Task -> Read] /\ \A u \in Task \ {t} : using'[u] = using[u]
  BY <1>2, <1>3 DEF Read, Present
<1>5. /\ p = "readPasswd" => using'[t].ssid = gs_ssid
      /\ p = "readSec" => using'[t].passwd = gs_passwd /\ using'[t].ssid = using[t].ssid
      /\ p = "join" => using'[t] = [using[t] EXCEPT !.sec = gs_security_type]
  BY <1>2, <1>3 DEF Read
<1>6. Variables /\ Places
  BY DEF Inv
<1>7. CASE t = "slip"
  <2>1. slip' = p /\ net' = net /\ slip = Place(t)
    BY <1>3, <1>7, MovesTo DEF Place
  <2>2. Present \in Given
    BY <1>2, <1>6, <1>7, <2>1 DEF Variables, Connecting
  <2>3. Places'
    BY <1>1, <1>3, <1>4, <1>6, <1>7, <2>1 DEF Places, Connecting
  <2>4. Variables'
    BY <1>1, <1>3, <1>6, <1>7, <2>1, <2>2 DEF Variables, Present
  <2>5. ReadSoFar("slip", slip)'
    <3>1. p = "join" => using'[t] = Present
      <4> SUFFICES ASSUME p = "join" PROVE using'[t] = Present
        OBVIOUS
      <4>1. using[t].ssid = gs_ssid /\ using[t].passwd = gs_passwd /\ using[t] \in Read
        BY <1>2, <1>3, <1>7, <2>1 DEF Inv, ReadSoFar
      <4> QED
        BY <1>5, <4>1 DEF Read, Present
    <3>2. p = "readSec" => using[t].ssid = gs_ssid
      BY <1>3, <1>7, <2>1 DEF Inv, ReadSoFar
    <3> QED
      BY <1>1, <1>5, <1>7, <2>1, <2>2, <3>1, <3>2 DEF ReadSoFar
  <2>6. ~stale' => ReadSoFar("net", net)'
    <3>1. using'["net"] = using["net"]
      BY <1>4, <1>7 DEF Task
    <3> QED
      BY <1>1, <2>1, <3>1 DEF Inv, ReadSoFar
  <2>7. slip' \notin Copying
    BY <1>7, <1>3, <2>1 DEF Copying
  <2> QED
    BY <2>3, <2>4, <2>5, <2>6, <2>7 DEF Inv
<1>8. CASE t = "net"
  <2>1. net' = p /\ slip' = slip /\ net = Place(t)
    BY <1>3, <1>8, MovesTo DEF Place
  <2>2. Places'
    BY <1>1, <1>2, <1>3, <1>4, <1>6, <1>8, <2>1 DEF Places, Connecting
  <2>3. Variables'
    BY <1>1, <1>6, <2>1 DEF Variables, Present
  <2>4. ReadSoFar("slip", slip)'
    <3>1. using'["slip"] = using["slip"]
      BY <1>4, <1>8 DEF Task
    <3> QED
      BY <1>1, <2>1, <3>1 DEF Inv, ReadSoFar
  <2>5. p \in {"readPasswd", "readSec", "join"} => slip \in {"idle", "join"}
    BY <1>3, <1>8, <2>1, NetRunsAlone
  <2>6. ~stale' => ReadSoFar("net", net)'
    <3> SUFFICES ASSUME ~stale PROVE ReadSoFar("net", net)'
      BY <1>1
    <3>1. p = "join" => using'[t] = Present
      <4> SUFFICES ASSUME p = "join" PROVE using'[t] = Present
        OBVIOUS
      <4>1. using[t].ssid = gs_ssid /\ using[t].passwd = gs_passwd /\ using[t] \in Read
        BY <1>2, <1>3, <1>8, <2>1 DEF Inv, ReadSoFar
      <4> QED
        BY <1>5, <4>1 DEF Read, Present
    <3>2. p = "readSec" => using[t].ssid = gs_ssid
      BY <1>3, <1>8, <2>1 DEF Inv, ReadSoFar
    <3>3. p = "join" => Present \in Given
      BY <1>6, <2>5 DEF Variables
    <3> QED
      BY <1>1, <1>5, <1>8, <2>1, <3>1, <3>2, <3>3 DEF ReadSoFar
  <2>7. net' \in {"readPasswd", "readSec"} => slip' \notin Copying
    BY <2>1, <2>5 DEF Copying
  <2> QED
    BY <2>2, <2>3, <2>4, <2>6, <2>7 DEF Inv
<1> QED
  BY <1>7, <1>8 DEF Task

LEMMA OtherInv ==
  ASSUME Inv, NetStep \/ LinkDrops
  PROVE  Inv'
<1>1. UNCHANGED <<gs_ssid, gs_passwd, gs_security_type, slip, api_con, using, stale>>
  BY DEF NetStep, Check, Warned, DelayOver, LinkDrops, gsVars, history
<1>2. /\ net' \in {"check", "warn", "delay", "readSsid"} \/ net' = net
      /\ held' = (net' = "warn")
  BY DEF Inv, Places, NetStep, Check, Warned, DelayOver, LinkDrops
<1>3. Places' /\ Variables'
  BY <1>1, <1>2 DEF Inv, Places, Variables, Present, Connecting
<1>4. ReadSoFar("slip", slip)'
  BY <1>1 DEF Inv, ReadSoFar
<1>5. ~stale' => ReadSoFar("net", net)'
  BY <1>1, <1>2 DEF Inv, ReadSoFar
<1> QED
  BY <1>1, <1>2, <1>3, <1>4, <1>5 DEF Inv

LEMMA AlwaysInv == Spec => []Inv
<1>1. Init => Inv
  <2> SUFFICES ASSUME Init PROVE Inv
    OBVIOUS
  <2>1. Default \in Configs /\ Present = Whole(Default)
    BY DEF Init, Configs, Present, Whole
  <2>2. Whole(Default) \in Read /\ Whole(Default) \in Given
    BY <2>1 DEF Whole, Read, Given, Security
  <2>3. using \in [Task -> Read]
    BY <2>2 DEF Init
  <2> QED
    BY <2>1, <2>2, <2>3 DEF Init, Inv, Places, Variables, ReadSoFar, Connecting
<1>2. Inv /\ [Next]_vars => Inv'
  <2> SUFFICES ASSUME Inv, [Next]_vars PROVE Inv'
    OBVIOUS
  <2>1. CASE UNCHANGED vars
    BY <2>1 DEF vars, gsVars, history, Inv, Places, Variables, ReadSoFar, Present
  <2>2. CASE Next
    BY <2>2, RequestInv, SlipStepInv, OtherInv, ConnectInv DEF Next
  <2> QED
    BY <2>1, <2>2
<1> QED
  BY <1>1, <1>2, PTL DEF Spec

(***************************************************************************)
(* Unless a request arrives while net_task is connecting, neither task     *)
(* joins with the name of one request and the password or the security of  *)
(* another, although nothing locks gs_ssid, gs_passwd and                  *)
(* gs_security_type: the priorities of the two tasks are enough.           *)
(***************************************************************************)
THEOREM JoinsWithWholeCredentials == Spec => []NeverTorn
<1>1. Inv => NeverTorn
  BY DEF Inv, ReadSoFar, NeverTorn, Place, Task
<1> QED
  BY <1>1, AlwaysInv, PTL

(***************************************************************************)
(* The types.  The lengths are tested when a request is taken, and the     *)
(* copies come later: a request that is being copied is one that fits.     *)
(***************************************************************************)
Fits(c) == c.ssid \in Ssid /\ c.passwd \in Passwd

TypeInv == TypeOK /\ (slip \in Copying => Fits(api_con))

LEMMA AcceptedFits ==
  ASSUME NEW c \in Configs, ~TooLong(c)
  PROVE  Fits(c) /\ Whole(c) \in Given
<1>1. Len(c.ssid) \in Nat /\ Len(c.passwd) \in Nat /\ SsidMax \in Nat /\ PasswdMax \in Nat
  BY ConfigAssumption DEF Configs
<1>2. Len(c.ssid) < SsidMax /\ Len(c.passwd) < PasswdMax
  BY <1>1 DEF TooLong
<1> QED
  BY <1>2 DEF Fits, Ssid, Passwd, Given

LEMMA AlwaysTypeInv == Spec => []TypeInv
<1>1. Init => TypeInv
  <2> SUFFICES ASSUME Init PROVE TypeInv
    OBVIOUS
  <2>1. Default \in Configs /\ ~TooLong(Default)
    BY ConfigAssumption DEF Configs, TooLong
  <2>2. Fits(Default) /\ Whole(Default) \in Given
    BY <2>1, AcceptedFits
  <2>3. Whole(Default).sec \in {"OPEN", "WPA2_AES_PSK"} /\ Whole(Default) \in Credentials
    BY <2>2 DEF Whole, Fits, Credentials
  <2>4. 0 \in 0 .. MaxRequests /\ 0 \in 0 .. MaxFaults
    BY ConfigAssumption
  <2> QED
    BY <2>2, <2>3, <2>4 DEF Init, TypeInv, TypeOK, Copying, Fits
<1>2. TypeInv /\ [Next]_vars => TypeInv'
  <2> SUFFICES ASSUME TypeInv, [Next]_vars PROVE TypeInv'
    OBVIOUS
  <2> USE DEF TypeInv, Copying, Connecting
  <2>0. MaxRequests \in Nat /\ MaxFaults \in Nat
    BY ConfigAssumption
  <2>1. ASSUME NEW c \in Requests, Request(c) PROVE TypeInv'
    <3>1. ~TooLong(c) => Fits(c) /\ Whole(c) \in Given
      BY AcceptedFits DEF Configs
    <3>2. requests' \in 0 .. MaxRequests
      BY <2>0, <2>1 DEF Request, TypeOK
    <3> QED
      BY <2>1, <3>1, <3>2 DEF Request, TypeOK, gsVars, history
  <2>2. CASE SlipStep
    <3>1. Whole(api_con).sec \in {"OPEN", "WPA2_AES_PSK"}
      BY DEF Whole
    <3> QED
      BY <2>2, <3>1 DEF SlipStep, CopySsid, CopyPasswd, SetSecurity, TypeOK, Fits, gsVars,
                        history
  <2>3. CASE NetStep
    BY <2>3 DEF NetStep, Check, Warned, DelayOver, TypeOK, gsVars, history
  <2>4. CASE LinkDrops
    <3>1. faults' \in 0 .. MaxFaults
      BY <2>0, <2>4 DEF LinkDrops, TypeOK
    <3> QED
      BY <2>4, <3>1 DEF LinkDrops, TypeOK, gsVars, history
  <2>5. ASSUME NEW t \in Task, ConnectStep(t) PROVE TypeInv'
    <3>1. using' \in [Task -> Credentials]
      BY <2>5 DEF ConnectStep, ReadSsid, ReadPasswd, StartJoin, Joined, TypeOK, Credentials
    <3>2. PICK p \in {"readPasswd", "readSec", "join", "idle", "delay"} :
            /\ Goto(t, p)
            /\ p = "idle" => t = "slip"
            /\ p = "delay" => t = "net"
      BY <2>5 DEF ConnectStep, ReadSsid, ReadPasswd, StartJoin, Joined, Return, Task
    <3>3. /\ slip' \in {"idle", "ssid", "passwd", "sec"} \cup Connecting
          /\ net' \in {"check", "warn", "delay"} \cup Connecting
          /\ slip' \in Copying => slip' = slip
      BY <3>2, MovesTo DEF TypeOK, Task
    <3>4. link' \in {Whole(c) : c \in Networks \cup {Default}} \cup {None}
      BY <2>5 DEF ConnectStep, ReadSsid, ReadPasswd, StartJoin, Joined, TypeOK
    <3> QED
      BY <2>5, <3>1, <3>3, <3>4 DEF ConnectStep, ReadSsid, ReadPasswd, StartJoin, Joined,
                                    TypeOK, gsVars, history
  <2>6. ASSUME NEW t \in Task, JoinFails(t) PROVE TypeInv'
    <3>1. /\ slip' \in {"idle", "ssid", "passwd", "sec"} \cup Connecting
          /\ net' \in {"check", "warn", "delay"} \cup Connecting
          /\ slip' \in Copying => slip' = slip
      BY <2>6 DEF JoinFails, Return, Goto, TypeOK, Task
    <3>2. faults' \in 0 .. MaxFaults
      BY <2>0, <2>6 DEF JoinFails, TypeOK
    <3> QED
      BY <2>6, <3>1, <3>2 DEF JoinFails, TypeOK, gsVars, history
  <2>7. CASE UNCHANGED vars
    BY <2>7 DEF vars, TypeOK, gsVars, history
  <2> QED
    BY <2>1, <2>2, <2>3, <2>4, <2>5, <2>6, <2>7 DEF Next
<1> QED
  BY <1>1, <1>2, PTL DEF Spec

(***************************************************************************)
(* What is in gs_ssid and gs_passwd, and what a task reads from them,      *)
(* leaves room for the terminating zero (wlan_api.c:33), whatever lengths  *)
(* the host asks for and however the tasks interleave.                     *)
(***************************************************************************)
THEOREM CredentialsFit == Spec => []TypeOK
<1>1. TypeInv => TypeOK
  BY DEF TypeInv
<1> QED
  BY <1>1, AlwaysTypeInv, PTL
=============================================================================
