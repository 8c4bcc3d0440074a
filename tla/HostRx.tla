------------------------------- MODULE HostRx -------------------------------
(***************************************************************************)
(* The receive path of ethoslip_lwip.  The SLIP thread copies each frame   *)
(* into a chain of pbufs from lwIP's pool and queues the chain; the main   *)
(* thread takes chains from the queue, hands them to the IP stack and      *)
(* frees them.  A mutex protects the queue.  The pool's free list is       *)
(* lwIP's memp.c, whose critical sections exist only when lwIP is built    *)
(* with SYS_LIGHTWEIGHT_PROT = 1.                                          *)
(*                                                                         *)
(* The link of the free list and the link of a pbuf chain are the same     *)
(* word of memory, as in the code (MEMP_SIZE is 0).                        *)
(***************************************************************************)
EXTENDS Integers, Sequences, FiniteSets

CONSTANTS SYS_LIGHTWEIGHT_PROT,
          PBUF_POOL_SIZE,   \* pbufs of the pool
          QueueMax,         \* chains the queue holds (MAX_QSIZE - 1)
          MaxChain,         \* pbufs a frame may need
          MaxFrames         \* bound on the frames received

ASSUME RxAssumption ==
  /\ SYS_LIGHTWEIGHT_PROT \in {0, 1}
  /\ PBUF_POOL_SIZE \in Nat \ {0}
  /\ {QueueMax, MaxChain, MaxFrames} \subseteq Nat

NULL == 0
Pbuf == 1 .. PBUF_POOL_SIZE
PbufPtr == Pbuf \cup {NULL}
Thread == {"slip", "main"}

VARIABLES tab,     \* head of the pool's free list
          next,    \* link of each pbuf
          data,    \* number of the frame whose bytes a pbuf holds
          queue,   \* chains between the threads, by their first pbuf
          mutex,   \* holder of gs_slip_out_task_Q_mutex
          prot,    \* thread inside a critical section of lwIP
          raced,   \* history: one thread has begun to change the free list
                   \* while the other was changing it
          pc,
          p,       \* a thread's chain: being built, or still to be freed
          m,       \* local of memp_malloc; the rest of a chain in pbuf_free
          last,    \* last pbuf of the chain being built
          rem,     \* pbufs the frame being copied still needs
          stack,   \* chains the IP stack keeps
          frames,  \* frames received so far
          seen     \* frames whose bytes the main thread found in each chain

vars == <<tab, next, data, queue, mutex, prot, raced, pc, p, m, last, rem,
          stack, frames, seen>>

threadVars == <<last, rem>>
mainVars == <<stack, seen>>

Goto(t, label) == pc' = [pc EXCEPT ![t] = label]

\* Thread t is between the two halves of a change of the free list.
Inside(t) == pc[t] \in {"unlink", "link"}

\* SYS_ARCH_PROTECT and SYS_ARCH_UNPROTECT, empty macros without protection.
Enter(t) == /\ IF SYS_LIGHTWEIGHT_PROT = 1
               THEN prot = "none" /\ prot' = t
               ELSE UNCHANGED prot
            /\ raced' = (raced \/ \E u \in Thread \ {t} : Inside(u))
Leave == prot' = "none" /\ UNCHANGED raced

\* The pbufs from b on, following the links: those that are in every set that
\* has b in it and that the links do not leave.
Closed(link, S) == \A x \in S : link[x] \in S \cup {NULL}
Reached(link, b) ==
  {x \in Pbuf : \A S \in SUBSET Pbuf : Closed(link, S) /\ b \in S \cup {NULL} => x \in S}
Chain(b) == Reached(next, b)
-----------------------------------------------------------------------------
(***************************************************************************)
(* slip_out_task_proc.  recv_packet returns a frame of n pbufs; a frame    *)
(* with a wrong checksum never gets this far.                              *)
(***************************************************************************)
RecvFrame(n) ==
  /\ pc["slip"] = "recv" /\ frames < MaxFrames
  /\ frames' = frames + 1
  /\ rem' = n
  /\ p' = [p EXCEPT !["slip"] = NULL]
  /\ Goto("slip", "malloc")
  /\ UNCHANGED <<tab, next, data, queue, mutex, prot, raced, m, last, mainVars>>

(***************************************************************************)
(* pbuf_alloc: one memp_malloc for each pbuf of the chain.  memp = *tab    *)
(* and *tab = memp->next are two steps.  An empty pool ends the            *)
(* allocation; the pbufs already chained are freed.                        *)
(***************************************************************************)
\* Variant: the pbufs already chained are forgotten.
AllocFailsMutant ==
  /\ pc["slip"] = "malloc" /\ prot = "none" /\ tab = NULL
  /\ Goto("slip", "recv")
  /\ UNCHANGED <<tab, next, data, queue, mutex, prot, raced, p, m, threadVars,
                 frames, mainVars>>

AllocFails ==
  /\ pc["slip"] = "malloc" /\ prot = "none" /\ tab = NULL
  /\ Goto("slip", IF p["slip"] = NULL THEN "recv" ELSE "free")
  /\ UNCHANGED <<tab, next, data, queue, mutex, prot, raced, p, m, threadVars,
                 frames, mainVars>>

memp_malloc ==
  /\ pc["slip"] = "malloc" /\ tab # NULL
  /\ Enter("slip")
  /\ m' = [m EXCEPT !["slip"] = tab]
  /\ Goto("slip", "unlink")
  /\ UNCHANGED <<tab, next, data, queue, mutex, p, threadVars, frames, mainVars>>

Unlink ==
  LET b == m["slip"]
      first == p["slip"] = NULL
  IN  /\ pc["slip"] = "unlink"
      /\ tab' = next[b]
      /\ Leave
      /\ next' = IF first THEN [next EXCEPT ![b] = NULL]
                 ELSE [next EXCEPT ![b] = NULL, ![last] = b]
      /\ p' = IF first THEN [p EXCEPT !["slip"] = b] ELSE p
      /\ last' = b
      /\ rem' = rem - 1
      /\ Goto("slip", IF rem = 1 THEN "take" ELSE "malloc")
      /\ UNCHANGED <<data, queue, mutex, m, frames, mainVars>>

pbuf_take ==
  /\ pc["slip"] = "take"
  /\ data' = [b \in Pbuf |-> IF b \in Chain(p["slip"]) THEN frames ELSE data[b]]
  /\ Goto("slip", "put")
  /\ UNCHANGED <<tab, next, queue, mutex, prot, raced, p, m, threadVars, frames, mainVars>>

Handed == [p EXCEPT !["slip"] = NULL]

Full == Len(queue) >= QueueMax

\* Variant: the queue hands out what came last.
PutFrontMutant ==
  /\ pc["slip"] = "put" /\ mutex = "none" /\ ~Full
  /\ queue' = <<p["slip"]>> \o queue
  /\ p' = Handed
  /\ Goto("slip", "recv")
  /\ UNCHANGED <<mutex, tab, next, data, prot, raced, m, threadVars, frames, mainVars>>

(***************************************************************************)
(* queue_try_put under the mutex.  When the queue is full the chain is     *)
(* freed before the mutex is given back.                                   *)
(***************************************************************************)
Put ==
  /\ pc["slip"] = "put" /\ mutex = "none"
  /\ \/ /\ ~Full
        /\ queue' = Append(queue, p["slip"])
        /\ p' = Handed
        /\ Goto("slip", "recv")
        /\ UNCHANGED mutex
     \/ /\ Full
        /\ mutex' = "slip"
        /\ Goto("slip", "free")
        /\ UNCHANGED <<queue, p>>
  /\ UNCHANGED <<tab, next, data, prot, raced, m, threadVars, frames, mainVars>>
-----------------------------------------------------------------------------
(***************************************************************************)
(* pbuf_free of the chain p[t]: for each pbuf, remember the rest of the    *)
(* chain and memp_free it: memp->next = *tab, then *tab = memp.            *)
(***************************************************************************)
memp_free(t) ==
  /\ pc[t] = "free"
  /\ Enter(t)
  /\ m' = [m EXCEPT ![t] = next[p[t]]]
  /\ next' = [next EXCEPT ![p[t]] = tab]
  /\ Goto(t, "link")
  /\ UNCHANGED <<tab, data, queue, mutex, p, threadVars, frames, mainVars>>

\* Variant: the mutex is kept.
AfterFreeMutant(t) == Goto(t, IF t = "slip" THEN "recv" ELSE "loop") /\ UNCHANGED mutex

\* Back to the loop of the thread; the SLIP thread unlocks what Put locked.
AfterFree(t) == /\ Goto(t, IF t = "slip" THEN "recv" ELSE "loop")
                /\ mutex' = IF mutex = t THEN "none" ELSE mutex

Link(t) ==
  /\ pc[t] = "link"
  /\ tab' = p[t]
  /\ Leave
  /\ p' = [p EXCEPT ![t] = m[t]]
  /\ IF m[t] = NULL THEN AfterFree(t) ELSE Goto(t, "free") /\ UNCHANGED mutex
  /\ UNCHANGED <<next, data, queue, m, threadVars, frames, mainVars>>
-----------------------------------------------------------------------------
(***************************************************************************)
(* One turn of main's loop.  queue_try_get runs under the mutex.  A WLAN   *)
(* API frame, and a frame netif.input refuses or is done with, is freed;   *)
(* the IP stack may also keep a frame and free it later, from its timers   *)
(* or from the handling of another frame.                                  *)
(***************************************************************************)
NothingQueued ==
  /\ pc["main"] = "loop" /\ mutex = "none" /\ queue = << >>
  /\ UNCHANGED vars

Take ==
  /\ pc["main"] = "loop" /\ mutex = "none" /\ queue # << >>
  /\ queue' = Tail(queue)
  /\ seen' = Append(seen, {data[b] : b \in Chain(Head(queue))})

HandleFrame ==
  /\ Take
  /\ p' = [p EXCEPT !["main"] = Head(queue)]
  /\ Goto("main", "free")
  /\ UNCHANGED <<tab, next, data, mutex, prot, raced, m, threadVars, stack, frames>>

KeepFrame ==
  /\ Take
  /\ stack' = stack \cup {Head(queue)}
  /\ UNCHANGED <<tab, next, data, mutex, prot, raced, pc, p, m, threadVars, frames>>

DropKept(b) ==
  /\ pc["main"] = "loop" /\ b \in stack
  /\ stack' = stack \ {b}
  /\ p' = [p EXCEPT !["main"] = b]
  /\ Goto("main", "free")
  /\ UNCHANGED <<tab, next, data, queue, mutex, prot, raced, m, threadVars, frames, seen>>

Init == /\ tab = 1
        /\ next = [b \in Pbuf |-> IF b < PBUF_POOL_SIZE THEN b + 1 ELSE NULL]
        /\ data = [b \in Pbuf |-> 0]
        /\ queue = << >> /\ seen = << >> /\ stack = {}
        /\ mutex = "none" /\ prot = "none" /\ raced = FALSE
        /\ pc = [t \in Thread |-> IF t = "slip" THEN "recv" ELSE "loop"]
        /\ p = [t \in Thread |-> NULL] /\ m = [t \in Thread |-> NULL]
        /\ last = NULL /\ rem = 0 /\ frames = 0

SlipStep == AllocFails \/ memp_malloc \/ Unlink \/ pbuf_take \/ Put
MainStep == NothingQueued \/ HandleFrame \/ KeepFrame
FreeStep(t) == memp_free(t) \/ Link(t)

Next == \/ \E n \in 1 .. MaxChain : RecvFrame(n)
        \/ SlipStep
        \/ MainStep
        \/ \E t \in Thread : FreeStep(t)
        \/ \E b \in Pbuf : DropKept(b)

(***************************************************************************)
(* Both threads keep running: the main loop never blocks for good, and the *)
(* SLIP thread blocks only in recv_packet.                                 *)
(***************************************************************************)
Fairness == /\ WF_vars(SlipStep)
            /\ WF_vars(HandleFrame \/ KeepFrame)
            /\ \A t \in Thread : WF_vars(FreeStep(t))

Spec == Init /\ [][Next]_vars /\ Fairness
-----------------------------------------------------------------------------
SlipPlace == {"recv", "malloc", "unlink", "take", "put", "free", "link"}
MainPlace == {"loop", "free", "link"}

TypeOK == /\ tab \in PbufPtr
          /\ next \in [Pbuf -> PbufPtr] /\ data \in [Pbuf -> 0 .. MaxFrames]
          /\ queue \in Seq(Pbuf) /\ Len(queue) <= QueueMax
          /\ mutex \in {"none", "slip"} /\ prot \in Thread \cup {"none"}
          /\ raced \in BOOLEAN
          /\ pc \in [Thread -> SlipPlace \cup MainPlace]
          /\ pc["slip"] \in SlipPlace /\ pc["main"] \in MainPlace
          /\ p \in [Thread -> PbufPtr] /\ m \in [Thread -> PbufPtr]
          /\ last \in PbufPtr /\ rem \in 0 .. MaxChain
          /\ stack \subseteq Pbuf
          /\ frames \in 0 .. MaxFrames

\* The pbufs thread t has in hand.  Between the two steps of memp_free its
\* chain is split into the pbuf being freed and the rest.
InHand(t) == CASE pc[t] \in {"malloc", "unlink", "take", "put", "free"} -> Chain(p[t])
               [] pc[t] = "link" -> {p[t]} \cup Chain(m[t])
               [] OTHER -> {}

\* Every place a pbuf can be in, with the pbufs found there.
Place == {<<"pool", 0, Chain(tab)>>}
         \cup {<<t, 0, InHand(t)>> : t \in Thread}
         \cup {<<"queue", i, Chain(queue[i])>> : i \in DOMAIN queue}
         \cup {<<"stack", b, Chain(b)>> : b \in stack}

(***************************************************************************)
(* Every pbuf is in exactly one place: on the free list, with one thread,  *)
(* in one queued chain or with the IP stack.  Otherwise it has leaked, or  *)
(* two frames share its memory.                                            *)
(***************************************************************************)
PbufsConserved ==
  \A b \in Pbuf : Cardinality({pl \in Place : b \in pl[3]}) = 1

(***************************************************************************)
(* What the main thread finds in a chain is one frame's bytes, and it      *)
(* meets the frames in the order they were received: frames are dropped    *)
(* when the pool or the queue is full, never mixed, repeated or reordered. *)
(***************************************************************************)
FramesIntactInOrder ==
  /\ \A i \in DOMAIN seen : Cardinality(seen[i]) = 1
  /\ \A i, j \in DOMAIN seen : i < j => \A x \in seen[i], y \in seen[j] : x < y

(***************************************************************************)
(* Without critical sections, as lwipopts.h builds it: two threads inside  *)
(* the functions of the pool at once are the only thing that loses a pbuf  *)
(* or gives it to two.  The early returns, the queue, its mutex and all    *)
(* other interleavings do not.                                             *)
(***************************************************************************)
PbufsUntilRace == ~raced => PbufsConserved

(***************************************************************************)
(* Nor does anything else mix, repeat or reorder frames: not a pool that   *)
(* runs dry in the middle of a chain, not a full queue, not a frame that   *)
(* is freed while the next one is copied.                                  *)
(***************************************************************************)
FramesUntilRace == ~raced => FramesIntactInOrder

(***************************************************************************)
(* A queued frame is eventually handled, although the SLIP thread keeps    *)
(* the mutex during pbuf_free and main waits for it.  Nothing is promised  *)
(* once the threads have raced: pbuf_free may then walk a ring of pbufs    *)
(* and never return.                                                       *)
(***************************************************************************)
QueuedIsHandled ==
  \A k \in 1 .. MaxFrames :
    (\E i \in DOMAIN queue : data[queue[i]] = k)
      ~> (raced \/ \E i \in DOMAIN seen : k \in seen[i])
=============================================================================
