---------------------------- MODULE HostRxProofs ----------------------------
(***************************************************************************)
(* Proofs about the pbufs of the receive path of ethoslip_lwip, for every  *)
(* size of the pool, of the queue and of a frame, and with or without the  *)
(* critical sections of lwIP: up to the first time that both threads are   *)
(* inside the functions of the pool, no pbuf is lost or used twice, and    *)
(* frames stay whole and in order.  With the critical sections that time   *)
(* never comes.                                                            *)
(***************************************************************************)
EXTENDS HostRx, FiniteSetTheorems, WellFoundedInduction, TLAPS

(***************************************************************************)
(* The inductive invariant.  First what the local variables of the threads *)
(* mean at each place, and that one thread at most is inside the pool.     *)
(***************************************************************************)
Acyclic(link) == \A x \in Pbuf : x \notin Reached(link, link[x])

Places ==
  /\ ~(pc["slip"] \in {"unlink", "link"} /\ pc["main"] = "link")
  /\ pc["slip"] = "unlink" => tab # NULL /\ m["slip"] = tab
  /\ pc["slip"] \in {"malloc", "unlink"} => rem # 0
  /\ pc["slip"] \in {"malloc", "unlink"} /\ p["slip"] # NULL
       => last \in Chain(p["slip"]) /\ next[last] = NULL
  /\ pc["slip"] \in {"take", "put", "free", "link"} => p["slip"] # NULL
  /\ pc["main"] \in {"free", "link"} => p["main"] # NULL
  /\ \A t \in Thread : pc[t] = "link" => next[p[t]] = tab /\ p[t] \notin Chain(m[t])

\* The chains in the queue and with the IP stack, by their first pbufs.
Waiting == {queue[i] : i \in DOMAIN queue} \cup stack

Distinct ==
  /\ \A i, j \in DOMAIN queue : i # j => queue[i] # queue[j]
  /\ \A i \in DOMAIN queue : queue[i] \notin stack

(***************************************************************************)
(* The pool, the hands of the two threads and the chains C[k] of the keys  *)
(* in K divide the pbufs among them.                                       *)
(***************************************************************************)
Divided(pool, slip, main, K, C) ==
  /\ \A b \in Pbuf : b \in pool \/ b \in slip \/ b \in main \/ \E k \in K : b \in C[k]
  /\ pool \cap slip = {} /\ pool \cap main = {} /\ slip \cap main = {}
  /\ \A k \in K : C[k] \cap pool = {} /\ C[k] \cap slip = {} /\ C[k] \cap main = {}
  /\ \A k, l \in K : k # l => C[k] \cap C[l] = {}

ChainsOf(link) == [b \in Pbuf |-> Reached(link, b)]

OnePlaceEach == Divided(Chain(tab), InHand("slip"), InHand("main"), Waiting, ChainsOf(next))

PbufInv == TypeOK /\ Acyclic(next) /\ Places /\ Distinct /\ OnePlaceEach

(***************************************************************************)
(* The frames: the bytes of each waiting chain are of one frame, newer     *)
(* chains are behind older ones, and what the main thread has seen is      *)
(* older than what waits.                                                  *)
(***************************************************************************)
Busy == pc["slip"] \in {"malloc", "unlink", "take", "put"}

Older(x) == x <= frames /\ (Busy => x < frames)

Singletons(s) == [k \in DOMAIN s |-> {s[k]}]

\* The main thread has seen the frames s.
SeenAre(s) ==
  /\ seen = Singletons(s)
  /\ \A k \in DOMAIN s : Older(s[k])
  /\ \A k, l \in DOMAIN s : k < l => s[k] < s[l]
  /\ \A k \in DOMAIN s, i \in DOMAIN queue : s[k] < data[queue[i]]

FrameInv ==
  /\ \A i \in DOMAIN queue : \A b \in Chain(queue[i]) : data[b] = data[queue[i]]
  /\ \A i, j \in DOMAIN queue : i < j => data[queue[i]] < data[queue[j]]
  /\ \A i \in DOMAIN queue : Older(data[queue[i]])
  /\ pc["slip"] = "put" => \A b \in Chain(p["slip"]) : data[b] = frames
  /\ \E s \in Seq(0 .. MaxFrames) : SeenAre(s)
-----------------------------------------------------------------------------
(***************************************************************************)
(* Chains, for any links.                                                  *)
(***************************************************************************)
Links == [Pbuf -> PbufPtr]

LEMMA PbufFacts == PBUF_POOL_SIZE \in Nat \ {0} /\ NULL \notin Pbuf /\ Pbuf \subseteq Nat
  BY RxAssumption DEF Pbuf, NULL

LEMMA ReachedNone ==
  ASSUME NEW f \in Links
  PROVE  Reached(f, NULL) = {}
<1>1. {} \in SUBSET Pbuf /\ Closed(f, {}) /\ NULL \in {} \cup {NULL}
  BY DEF Closed
<1> QED
  BY <1>1 DEF Reached

LEMMA ReachedBasics ==
  ASSUME NEW f \in Links, NEW b \in PbufPtr
  PROVE  /\ Reached(f, b) \in SUBSET Pbuf
         /\ Closed(f, Reached(f, b))
         /\ b \in Reached(f, b) \cup {NULL}
<1>1. Reached(f, b) \in SUBSET Pbuf
  BY DEF Reached
<1>2. b \in Reached(f, b) \cup {NULL}
  BY PbufFacts DEF Reached, PbufPtr
<1>3. ASSUME NEW x \in Reached(f, b) PROVE f[x] \in Reached(f, b) \cup {NULL}
  <2>1. x \in Pbuf /\ f[x] \in PbufPtr
    BY <1>1 DEF Links
  <2>2. ASSUME NEW S \in SUBSET Pbuf, Closed(f, S), b \in S \cup {NULL}, f[x] # NULL
        PROVE  f[x] \in S
    <3>1. x \in S
      BY <2>2 DEF Reached
    <3> QED
      BY <2>2, <3>1 DEF Closed
  <2> QED
    BY <2>1, <2>2 DEF Reached, PbufPtr
<1> QED
  BY <1>1, <1>2, <1>3 DEF Closed

LEMMA ReachedLeast ==
  ASSUME NEW f \in Links, NEW b \in PbufPtr, NEW S \in SUBSET Pbuf, Closed(f, S),
         b \in S \cup {NULL}
  PROVE  Reached(f, b) \subseteq S
  BY DEF Reached

\* What is reached from a pbuf of a chain is in the chain.
LEMMA ReachedOn ==
  ASSUME NEW f \in Links, NEW b \in PbufPtr, NEW x \in Reached(f, b)
  PROVE  Reached(f, x) \subseteq Reached(f, b) /\ Reached(f, f[x]) \subseteq Reached(f, b)
<1>1. /\ Reached(f, b) \in SUBSET Pbuf /\ Closed(f, Reached(f, b))
      /\ x \in Pbuf /\ f[x] \in Reached(f, b) \cup {NULL} /\ f[x] \in PbufPtr
  BY ReachedBasics DEF Closed, Links
<1> QED
  BY <1>1, ReachedLeast DEF PbufPtr

LEMMA ReachedUnfold ==
  ASSUME NEW f \in Links, NEW b \in Pbuf
  PROVE  Reached(f, b) = {b} \cup Reached(f, f[b])
<1>1. b \in PbufPtr /\ f[b] \in PbufPtr /\ b # NULL
  BY PbufFacts DEF Links, PbufPtr
<1>2. b \in Reached(f, b)
  BY <1>1, ReachedBasics
<1>3. Reached(f, f[b]) \subseteq Reached(f, b)
  BY <1>1, <1>2, ReachedOn
<1> DEFINE S == {b} \cup Reached(f, f[b])
<1>4. S \in SUBSET Pbuf /\ Closed(f, S)
  BY <1>1, ReachedBasics DEF Closed
<1>5. Reached(f, b) \subseteq S
  BY <1>1, <1>4, ReachedLeast
<1> QED
  BY <1>2, <1>3, <1>5

(***************************************************************************)
(* Links that are the same along a chain.                                  *)
(***************************************************************************)
LEMMA ReachedFrame ==
  ASSUME NEW f \in Links, NEW g \in Links, NEW b \in PbufPtr,
         \A x \in Reached(f, b) : g[x] = f[x]
  PROVE  Reached(g, b) = Reached(f, b)
<1>1. /\ Reached(f, b) \in SUBSET Pbuf /\ Closed(f, Reached(f, b))
      /\ b \in Reached(f, b) \cup {NULL}
      /\ Reached(g, b) \in SUBSET Pbuf /\ Closed(g, Reached(g, b))
      /\ b \in Reached(g, b) \cup {NULL}
  BY ReachedBasics
<1>2. Closed(g, Reached(f, b))
  BY <1>1 DEF Closed
<1>3. Reached(g, b) \subseteq Reached(f, b)
  BY <1>1, <1>2, ReachedLeast
<1>4. Closed(f, Reached(g, b))
  BY <1>1, <1>3 DEF Closed
<1>5. Reached(f, b) \subseteq Reached(g, b)
  BY <1>1, <1>4, ReachedLeast
<1> QED
  BY <1>3, <1>5

(***************************************************************************)
(* One link is changed, from a to c, where c's chain does not lead to a.   *)
(***************************************************************************)
Relink(f, a, c) == [f EXCEPT ![a] = c]

LEMMA Relinked ==
  ASSUME NEW f \in Links, NEW a \in Pbuf, NEW c \in PbufPtr, a \notin Reached(f, c)
  PROVE  /\ Relink(f, a, c) \in Links
         /\ Relink(f, a, c)[a] = c
         /\ \A x \in Pbuf \ {a} : Relink(f, a, c)[x] = f[x]
         /\ \A b \in PbufPtr : a \notin Reached(f, b)
              => Reached(Relink(f, a, c), b) = Reached(f, b)
         /\ \A b \in PbufPtr : a \in Reached(f, b) /\ f[a] = NULL
              => Reached(Relink(f, a, c), b) = Reached(f, b) \cup Reached(f, c)
         /\ Acyclic(f) => Acyclic(Relink(f, a, c))
<1> DEFINE g == Relink(f, a, c)
<1>1. g \in Links /\ g[a] = c /\ \A x \in Pbuf \ {a} : g[x] = f[x]
  BY DEF Links, Relink
<1> HIDE DEF g
<1>2. ASSUME NEW b \in PbufPtr, a \notin Reached(f, b) PROVE Reached(g, b) = Reached(f, b)
  <2>1. \A x \in Reached(f, b) : g[x] = f[x]
    BY <1>1, <1>2, ReachedBasics
  <2> QED
    BY <1>1, <2>1, ReachedFrame
<1>3. ASSUME NEW b \in PbufPtr PROVE Reached(g, b) \subseteq Reached(f, b) \cup Reached(f, c)
  <2> DEFINE S == Reached(f, b) \cup Reached(f, c)
  <2>1. /\ S \in SUBSET Pbuf /\ Closed(f, S) /\ b \in S \cup {NULL} /\ c \in S \cup {NULL}
    BY ReachedBasics DEF Closed
  <2>2. Closed(g, S)
    BY <1>1, <2>1 DEF Closed
  <2> QED
    BY <1>1, <2>1, <2>2, ReachedLeast
<1>4. ASSUME NEW b \in PbufPtr, a \in Reached(f, b), f[a] = NULL
      PROVE  Reached(f, b) \cup Reached(f, c) \subseteq Reached(g, b)
  <2>1. Reached(g, b) \in SUBSET Pbuf /\ Closed(g, Reached(g, b)) /\ b \in Reached(g, b) \cup {NULL}
    BY <1>1, ReachedBasics
  <2>2. Closed(f, Reached(g, b))
    BY <1>1, <1>4, <2>1 DEF Closed
  <2>3. Reached(f, b) \subseteq Reached(g, b)
    BY <2>1, <2>2, ReachedLeast
  <2>4. Reached(g, g[a]) \subseteq Reached(g, b)
    BY <1>1, <1>4, <2>3, ReachedOn
  <2> QED
    BY <1>1, <1>2, <2>3, <2>4
<1>5. ASSUME Acyclic(f), NEW x \in Pbuf PROVE x \notin Reached(g, g[x])
  <2>1. CASE x = a
    BY <1>1, <1>2, <2>1
  <2>2. CASE x # a
    <3>1. f[x] \in PbufPtr /\ x \in PbufPtr /\ g[x] = f[x]
      BY <1>1, <2>2 DEF Links, PbufPtr
    <3>2. x \notin Reached(f, f[x])
      BY <1>5 DEF Acyclic
    <3>3. CASE a \notin Reached(f, f[x])
      BY <1>2, <3>1, <3>2, <3>3
    <3>4. CASE a \in Reached(f, f[x])
      <4>1. x \notin Reached(f, c)
        BY <3>4, ReachedOn
      <4> QED
        BY <1>3, <3>1, <3>2, <4>1
    <3> QED
      BY <3>3, <3>4
  <2> QED
    BY <2>1, <2>2
<1> QED
  BY <1>1, <1>2, <1>3, <1>4, <1>5 DEF Acyclic, g
-----------------------------------------------------------------------------
(***************************************************************************)
(* The free list as memp_init_pool leaves it has every pbuf on it.         *)
(***************************************************************************)
LEMMA LeastMember ==
  ASSUME NEW S \in SUBSET Nat, S # {}
  PROVE  \E n \in S : \A k \in S : n <= k
<1> DEFINE R == {ss \in Nat \X Nat : ss[1] < ss[2]}
<1>1. IsWellFoundedOn(R, Nat)
  BY NatLessThanWellFounded DEF OpToRel
<1>2. \A x, y \in Nat : <<y, x>> \in R <=> y < x
  OBVIOUS
<1> HIDE DEF R
<1>3. \E x \in S : \A y \in S : ~(<<y, x>> \in R)
  BY <1>1, WFMin
<1>4. PICK x \in S : \A y \in S : ~(<<y, x>> \in R)
  BY <1>3
<1>5. ASSUME NEW y \in S PROVE x <= y
  <2>1. x \in Nat /\ y \in Nat
    OBVIOUS
  <2>2. ~(y < x)
    BY <1>2, <1>4, <2>1
  <2> QED
    BY <2>1, <2>2
<1> QED
  BY <1>5

InitialLinks == [b \in Pbuf |-> IF b < PBUF_POOL_SIZE THEN b + 1 ELSE NULL]

LEMMA InitialList ==
  /\ InitialLinks \in Links
  /\ 1 \in Pbuf
  /\ Reached(InitialLinks, 1) = Pbuf
  /\ Acyclic(InitialLinks)
<1>1. InitialLinks \in Links /\ 1 \in Pbuf
  BY PbufFacts DEF InitialLinks, Links, PbufPtr, Pbuf, NULL
<1>2. ASSUME NEW S \in SUBSET Pbuf, Closed(InitialLinks, S), 1 \in S, NEW x \in Pbuf \ S
      PROVE  FALSE
  <2>1. PICK n \in Pbuf \ S : \A k \in Pbuf \ S : n <= k
    BY PbufFacts, LeastMember
  <2>2. n - 1 \in Pbuf /\ n - 1 < PBUF_POOL_SIZE /\ n \in Nat
    BY <1>2, PbufFacts DEF Pbuf
  <2>3. n - 1 \in S
    BY <2>1, <2>2
  <2>4. InitialLinks[n - 1] = n
    BY <2>2 DEF InitialLinks
  <2> QED
    BY <1>2, <2>3, <2>4, PbufFacts DEF Closed
<1>3. Reached(InitialLinks, 1) = Pbuf
  <2>1. 1 # NULL
    BY DEF NULL
  <2>2. \A S \in SUBSET Pbuf : Closed(InitialLinks, S) /\ 1 \in S \cup {NULL} => Pbuf \subseteq S
    BY <1>2, <2>1
  <2> QED
    BY <2>2 DEF Reached
<1>4. ASSUME NEW x \in Pbuf PROVE x \notin Reached(InitialLinks, InitialLinks[x])
  <2> DEFINE S == {b \in Pbuf : x < b}
  <2>1. ASSUME NEW y \in S PROVE InitialLinks[y] \in S \cup {NULL}
    <3>1. x \in Nat /\ y \in Nat /\ y \in Pbuf /\ x < y
      BY PbufFacts
    <3>2. y < PBUF_POOL_SIZE => y + 1 \in Pbuf /\ x < y + 1
      BY <3>1, PbufFacts DEF Pbuf
    <3> QED
      BY <3>1, <3>2 DEF InitialLinks
  <2>2. InitialLinks[x] \in S \cup {NULL} /\ InitialLinks[x] \in PbufPtr /\ x \notin S
    BY PbufFacts DEF InitialLinks, Pbuf, PbufPtr
  <2> HIDE DEF S
  <2>3. Reached(InitialLinks, InitialLinks[x]) \subseteq S
    <3>1. S \in SUBSET Pbuf
      BY DEF S
    <3> QED
      BY <1>1, <2>1, <2>2, <3>1, ReachedLeast DEF Closed
  <2> QED
    BY <2>2, <2>3
<1> QED
  BY <1>1, <1>3, <1>4 DEF Acyclic
-----------------------------------------------------------------------------
(***************************************************************************)
(* Moves that keep the pbufs divided.                                      *)
(***************************************************************************)
LEMMA DividedSame ==
  ASSUME NEW pool, NEW slip, NEW main, NEW K, NEW C, NEW D,
         Divided(pool, slip, main, K, C), \A k \in K : D[k] = C[k]
  PROVE  Divided(pool, slip, main, K, D)
  BY DEF Divided

LEMMA DividedSwap ==
  ASSUME NEW pool, NEW slip, NEW main, NEW K, NEW C, Divided(pool, slip, main, K, C)
  PROVE  Divided(pool, main, slip, K, C)
  BY DEF Divided

\* A pbuf moves between the pool and the hand of the SLIP thread.
LEMMA DividedAlloc ==
  ASSUME NEW pool, NEW slip, NEW main, NEW K, NEW C, NEW b, b \notin pool,
         Divided({b} \cup pool, slip, main, K, C)
  PROVE  Divided(pool, slip \cup {b}, main, K, C)
  BY DEF Divided

LEMMA DividedFree ==
  ASSUME NEW pool, NEW slip, NEW main, NEW K, NEW C, NEW b, b \notin slip,
         Divided(pool, {b} \cup slip, main, K, C)
  PROVE  Divided({b} \cup pool, slip, main, K, C)
  BY DEF Divided

\* A chain moves between the hand of a thread and the waiting chains.
LEMMA DividedPut ==
  ASSUME NEW pool, NEW main, NEW K, NEW C, NEW k, k \notin K,
         Divided(pool, C[k], main, K, C)
  PROVE  Divided(pool, {}, main, K \cup {k}, C)
  BY DEF Divided

LEMMA DividedGet ==
  ASSUME NEW pool, NEW slip, NEW K, NEW C, NEW k \in K,
         Divided(pool, slip, {}, K, C)
  PROVE  Divided(pool, slip, C[k], K \ {k}, C)
  BY DEF Divided

(***************************************************************************)
(* The two places where links are written.  Unlink takes b, the first pbuf *)
(* of the free list, and puts it behind z, the last pbuf of the chain s.   *)
(***************************************************************************)
Taken(f, b, s, z) ==
  IF s = NULL THEN Relink(f, b, NULL) ELSE Relink(Relink(f, b, NULL), z, b)

LEMMA UnlinkDivides ==
  ASSUME NEW f \in Links, Acyclic(f), NEW b \in Pbuf, NEW s \in PbufPtr, NEW z \in PbufPtr,
         NEW main, NEW K \in SUBSET Pbuf,
         Divided(Reached(f, b), Reached(f, s), main, K, ChainsOf(f)),
         s # NULL => z \in Reached(f, s) /\ f[z] = NULL,
         NEW g, g = Taken(f, b, s, z),
         NEW h, h = IF s = NULL THEN b ELSE s
  PROVE  /\ g \in Links /\ Acyclic(g)
         /\ Divided(Reached(g, f[b]), Reached(g, h), main, K, ChainsOf(g))
         /\ \A x \in PbufPtr : Reached(f, x) \subseteq main => Reached(g, x) = Reached(f, x)
         /\ \A k \in K : Reached(g, k) = Reached(f, k)
         /\ b \in Reached(g, h) /\ g[b] = NULL
<1> DEFINE f1 == Relink(f, b, NULL)
<1>0. b \in PbufPtr /\ NULL \in PbufPtr /\ b # NULL /\ f[b] \in PbufPtr
  BY PbufFacts DEF PbufPtr, Links
<1>1. b \notin Reached(f, NULL)
  BY ReachedNone
<1>2. /\ f1 \in Links /\ Acyclic(f1)
      /\ \A x \in PbufPtr : b \notin Reached(f, x) => Reached(f1, x) = Reached(f, x)
  BY <1>0, <1>1, Relinked
<1>3. f1[b] = NULL /\ \A x \in Pbuf \ {b} : f1[x] = f[x]
  BY <1>0, <1>1, Relinked
<1> HIDE DEF f1
<1>4. Reached(f1, b) = {b}
  BY <1>2, <1>3, ReachedUnfold, ReachedNone
<1>5. Reached(f, b) = {b} \cup Reached(f, f[b]) /\ b \notin Reached(f, f[b])
  BY ReachedUnfold DEF Acyclic
<1>6. b \in Reached(f, b) /\ b \notin Reached(f, s) /\ b \notin main
  BY <1>5 DEF Divided
<1>7. \A k \in K : /\ k \in PbufPtr /\ ChainsOf(f)[k] = Reached(f, k)
                   /\ ChainsOf(g)[k] = Reached(g, k) /\ b \notin Reached(f, k)
  BY <1>6 DEF Divided, ChainsOf, PbufPtr
<1>8. Divided(Reached(f, f[b]), Reached(f, s) \cup {b}, main, K, ChainsOf(f))
  BY <1>5, DividedAlloc
<1>9. CASE s = NULL
  <2>1. g = f1 /\ h = b
    BY <1>9 DEF f1, Taken
  <2>2. Reached(f, s) \cup {b} = Reached(g, h)
    BY <1>4, <1>9, <2>1, ReachedNone
  <2>3. Reached(g, f[b]) = Reached(f, f[b])
    BY <1>0, <1>2, <1>5, <2>1
  <2>4. \A k \in K : ChainsOf(g)[k] = ChainsOf(f)[k]
    BY <1>2, <1>7, <2>1
  <2>5. \A x \in PbufPtr : Reached(f, x) \subseteq main => Reached(g, x) = Reached(f, x)
    BY <1>2, <1>6, <2>1
  <2>6. Divided(Reached(g, f[b]), Reached(g, h), main, K, ChainsOf(g))
    BY <1>8, <2>2, <2>3, <2>4, DividedSame
  <2> QED
    BY <1>2, <1>3, <1>4, <1>7, <2>1, <2>4, <2>5, <2>6
<1>10. CASE s # NULL
  <2>1. h = s /\ z \in Reached(f, s) /\ z \in Pbuf /\ f[z] = NULL
    BY <1>10, ReachedBasics
  <2>2. z # b /\ z \notin Reached(f, b) /\ z \notin main /\ \A k \in K : z \notin Reached(f, k)
    BY <1>6, <1>7, <2>1 DEF Divided
  <2>3. g = Relink(f1, z, b)
    BY <1>10 DEF f1, Taken
  <2>4. Reached(f1, s) = Reached(f, s) /\ f1[z] = NULL /\ z \notin Reached(f1, b)
    BY <1>2, <1>3, <1>4, <1>6, <2>1, <2>2
  <2>5. /\ g \in Links /\ (Acyclic(f1) => Acyclic(g))
        /\ \A x \in PbufPtr : z \notin Reached(f1, x) => Reached(g, x) = Reached(f1, x)
        /\ Reached(g, s) = Reached(f1, s) \cup Reached(f1, b)
    <3> DEFINE r == Relink(f1, z, b)
    <3>1. /\ r \in Links /\ (Acyclic(f1) => Acyclic(r))
          /\ \A x \in PbufPtr : z \notin Reached(f1, x) => Reached(r, x) = Reached(f1, x)
          /\ z \in Reached(f1, s) => Reached(r, s) = Reached(f1, s) \cup Reached(f1, b)
      BY <1>0, <1>2, <2>1, <2>4, Relinked
    <3> QED
      BY <2>1, <2>3, <2>4, <3>1
  <2>6. \A x \in PbufPtr : b \notin Reached(f, x) /\ z \notin Reached(f, x)
                             => Reached(g, x) = Reached(f, x)
    BY <1>2, <2>5
  <2>7. Reached(g, f[b]) = Reached(f, f[b])
    BY <1>0, <1>5, <2>2, <2>6
  <2>8. \A k \in K : ChainsOf(g)[k] = ChainsOf(f)[k]
    BY <1>7, <2>2, <2>6
  <2>9. \A x \in PbufPtr : Reached(f, x) \subseteq main => Reached(g, x) = Reached(f, x)
    BY <1>6, <2>2, <2>6
  <2>10. Reached(g, h) = Reached(f, s) \cup {b}
    BY <1>4, <2>1, <2>4, <2>5
  <2>11. g[b] = NULL
    BY <1>2, <1>3, <2>2, <2>3 DEF Links, Relink
  <2>12. Divided(Reached(g, f[b]), Reached(g, h), main, K, ChainsOf(g))
    BY <1>8, <2>7, <2>8, <2>10, DividedSame
  <2> QED
    BY <1>2, <1>7, <2>5, <2>8, <2>9, <2>10, <2>11, <2>12
<1> QED
  BY <1>9, <1>10

(***************************************************************************)
(* memp_free links a, the first pbuf of the chain in hand, to the head c   *)
(* of the free list.                                                       *)
(***************************************************************************)
LEMMA FreeDivides ==
  ASSUME NEW f \in Links, Acyclic(f), NEW a \in Pbuf, NEW c \in PbufPtr,
         NEW other, NEW K \in SUBSET Pbuf,
         Divided(Reached(f, c), Reached(f, a), other, K, ChainsOf(f)),
         NEW g, g = Relink(f, a, c)
  PROVE  /\ g \in Links /\ Acyclic(g)
         /\ Divided(Reached(g, c), {a} \cup Reached(g, f[a]), other, K, ChainsOf(g))
         /\ \A x \in PbufPtr : Reached(f, x) \subseteq other => Reached(g, x) = Reached(f, x)
         /\ \A k \in K : Reached(g, k) = Reached(f, k)
         /\ a \notin Reached(g, f[a]) /\ g[a] = c
<1>1. /\ Reached(f, a) = {a} \cup Reached(f, f[a]) /\ a \notin Reached(f, f[a])
      /\ f[a] \in PbufPtr
  BY ReachedUnfold DEF Acyclic, Links
<1>2. a \notin Reached(f, c) /\ a \notin other
  BY <1>1 DEF Divided
<1>3. \A k \in K : /\ k \in PbufPtr /\ ChainsOf(f)[k] = Reached(f, k)
                   /\ ChainsOf(g)[k] = Reached(g, k) /\ a \notin Reached(f, k)
  BY <1>1 DEF Divided, ChainsOf, PbufPtr
<1>4. /\ g \in Links /\ Acyclic(g) /\ g[a] = c
      /\ \A x \in PbufPtr : a \notin Reached(f, x) => Reached(g, x) = Reached(f, x)
  <2> DEFINE r == Relink(f, a, c)
  <2>1. /\ r \in Links /\ Acyclic(r) /\ r[a] = c
        /\ \A x \in PbufPtr : a \notin Reached(f, x) => Reached(r, x) = Reached(f, x)
    BY <1>2, Relinked
  <2> QED
    BY <2>1
<1>5. Reached(g, c) = Reached(f, c) /\ Reached(g, f[a]) = Reached(f, f[a])
  BY <1>1, <1>2, <1>4
<1>6. \A k \in K : ChainsOf(g)[k] = ChainsOf(f)[k]
  BY <1>3, <1>4
<1>7. Divided(Reached(f, c), Reached(f, a), other, K, ChainsOf(g))
  BY <1>6, DividedSame
<1> QED
  BY <1>1, <1>2, <1>3, <1>4, <1>5, <1>6, <1>7
-----------------------------------------------------------------------------
(***************************************************************************)
(* The pbufs in the hand of a thread, before and after a step.             *)
(***************************************************************************)
Holding == {"malloc", "unlink", "take", "put", "free"}

LEMMA HandFacts ==
  ASSUME NEW t \in Thread
  PROVE  /\ pc[t] \in {"recv", "loop"} => InHand(t) = {}
         /\ pc[t] \in Holding => InHand(t) = Reached(next, p[t])
         /\ pc[t] = "link" => InHand(t) = {p[t]} \cup Reached(next, m[t])
         /\ pc'[t] \in {"recv", "loop"} => InHand(t)' = {}
         /\ pc'[t] \in Holding => InHand(t)' = Reached(next', p'[t])
         /\ pc'[t] = "link" => InHand(t)' = {p'[t]} \cup Reached(next', m'[t])
  BY DEF InHand, Chain, Holding

\* A thread that takes no step, while no pbuf it has is relinked.
LEMMA HandKept ==
  ASSUME NEW t \in Thread, TypeOK, pc'[t] = pc[t], p'[t] = p[t], m'[t] = m[t],
         \A x \in PbufPtr : Reached(next, x) \subseteq InHand(t)
                              => Reached(next', x) = Reached(next, x)
  PROVE  InHand(t)' = InHand(t)
<1>1. p[t] \in PbufPtr /\ m[t] \in PbufPtr /\ pc[t] \in SlipPlace \cup MainPlace
  BY DEF TypeOK
<1>2. CASE pc[t] \in {"recv", "loop"}
  BY <1>2, HandFacts
<1>3. CASE pc[t] \in Holding
  <2>1. InHand(t) = Reached(next, p[t]) /\ InHand(t)' = Reached(next', p[t])
    BY <1>3, HandFacts
  <2> QED
    BY <1>1, <2>1
<1>4. CASE pc[t] = "link"
  <2>1. /\ InHand(t) = {p[t]} \cup Reached(next, m[t])
        /\ InHand(t)' = {p[t]} \cup Reached(next', m[t])
    BY <1>4, HandFacts
  <2> QED
    BY <1>1, <2>1
<1> QED
  BY <1>1, <1>2, <1>3, <1>4 DEF SlipPlace, MainPlace, Holding

\* The initial state: every pbuf is in the pool.
LEMMA InitPbufInv == Init => PbufInv
<1> SUFFICES ASSUME Init PROVE PbufInv
  OBVIOUS
<1>1. tab = 1 /\ next = InitialLinks
  BY DEF Init, InitialLinks
<1>2. TypeOK
  <2>1. 0 \in 0 .. MaxFrames /\ 0 \in 0 .. MaxChain /\ 0 <= QueueMax
    BY RxAssumption
  <2>2. queue \in Seq(Pbuf) /\ Len(queue) <= QueueMax
    BY <2>1 DEF Init
  <2>3. tab \in PbufPtr /\ next \in [Pbuf -> PbufPtr] /\ NULL \in PbufPtr
    BY <1>1, InitialList DEF Links, PbufPtr
  <2> QED
    BY <2>1, <2>2, <2>3 DEF Init, TypeOK, Thread, SlipPlace, MainPlace
<1>3. pc["slip"] = "recv" /\ pc["main"] = "loop"
  BY DEF Init, Thread
<1>4. Places
  BY <1>3 DEF Places, Thread
<1>5. Distinct /\ Waiting = {}
  BY DEF Init, Distinct, Waiting
<1>6. InHand("slip") = {} /\ InHand("main") = {} /\ Chain(tab) = Pbuf
  BY <1>1, <1>3, HandFacts, InitialList DEF Thread, Chain
<1>7. OnePlaceEach
  BY <1>5, <1>6 DEF OnePlaceEach, Divided
<1> QED
  BY <1>1, <1>2, <1>4, <1>5, <1>7, InitialList DEF PbufInv

(***************************************************************************)
(* Types.                                                                  *)
(***************************************************************************)
LEMMA StepType ==
  ASSUME PbufInv, [Next]_vars
  PROVE  TypeOK'
<1> USE DEF PbufInv
<1>0. NULL \in PbufPtr /\ Pbuf \subseteq PbufPtr /\ MaxFrames \in Nat /\ MaxChain \in Nat
  BY RxAssumption DEF PbufPtr
<1>1. CASE \E n \in 1 .. MaxChain : RecvFrame(n)
  <2>1. PICK n \in 1 .. MaxChain : RecvFrame(n)
    BY <1>1
  <2>2. n \in 0 .. MaxChain /\ (frames < MaxFrames => frames + 1 \in 0 .. MaxFrames)
    BY <1>0 DEF TypeOK
  <2> QED
    BY <1>0, <2>1, <2>2 DEF RecvFrame, Goto, TypeOK, Thread, SlipPlace, MainPlace, mainVars
<1>2. CASE AllocFails
  BY <1>2 DEF AllocFails, Goto, TypeOK, Thread, SlipPlace, MainPlace, mainVars, threadVars
<1>3. CASE memp_malloc
  BY <1>3 DEF memp_malloc, Enter, Goto, TypeOK, Thread, SlipPlace, MainPlace, mainVars, threadVars
<1>4. CASE Unlink
  <2>1. /\ m["slip"] \in Pbuf /\ rem - 1 \in 0 .. MaxChain
        /\ p["slip"] # NULL => last \in Pbuf
    <3>1. m["slip"] \in Pbuf /\ rem # 0
      BY <1>4 DEF Unlink, Places, TypeOK, PbufPtr
    <3>2. rem - 1 \in 0 .. MaxChain
      BY <1>0, <3>1 DEF TypeOK
    <3>3. ASSUME p["slip"] # NULL PROVE last \in Pbuf
      BY <1>4, <3>3 DEF Unlink, Places, Chain, Reached
    <3> QED
      BY <3>1, <3>2, <3>3
  <2>2. tab' \in PbufPtr /\ p' \in [Thread -> PbufPtr] /\ last' \in PbufPtr
    BY <1>0, <1>4, <2>1 DEF Unlink, TypeOK
  <2>3. next' \in [Pbuf -> PbufPtr]
    BY <1>0, <1>4, <2>1 DEF Unlink, TypeOK
  <2> QED
    BY <1>4, <2>1, <2>2, <2>3
       DEF Unlink, Leave, Goto, TypeOK, Thread, SlipPlace, MainPlace, mainVars
<1>5. CASE pbuf_take
  BY <1>5 DEF pbuf_take, Goto, TypeOK, Thread, SlipPlace, MainPlace, mainVars, threadVars
<1>6. CASE Put
  <2>1. p["slip"] \in Pbuf
    BY <1>6 DEF Put, TypeOK, Places, Thread, PbufPtr
  <2>2. queue' \in Seq(Pbuf) /\ Len(queue') <= QueueMax
    <3>1. CASE Full
      BY <1>6, <3>1 DEF Put, TypeOK
    <3>2. CASE ~Full
      <4>1. queue' = Append(queue, p["slip"]) /\ queue \in Seq(Pbuf)
        BY <1>6, <3>2 DEF Put, TypeOK
      <4>2. Len(queue') = Len(queue) + 1 /\ queue' \in Seq(Pbuf) /\ Len(queue) \in Nat
        BY <2>1, <4>1
      <4> QED
        BY <3>2, <4>2, RxAssumption DEF Full
    <3> QED
      BY <3>1, <3>2
  <2> QED
    BY <1>0, <1>6, <2>2
       DEF Put, Handed, Goto, TypeOK, Thread, SlipPlace, MainPlace, mainVars, threadVars
<1>7. CASE HandleFrame \/ KeepFrame
  <2>1. Take /\ queue # << >> /\ queue \in Seq(Pbuf)
    BY <1>7 DEF HandleFrame, KeepFrame, Take, TypeOK
  <2>2. Head(queue) \in Pbuf /\ queue' \in Seq(Pbuf) /\ Len(queue') <= QueueMax
    <3>1. /\ Tail(queue) \in Seq(Pbuf) /\ Head(queue) \in Pbuf
          /\ Len(Tail(queue)) = Len(queue) - 1 /\ Len(queue) \in Nat
      BY <2>1
    <3> QED
      BY <2>1, <3>1, RxAssumption DEF Take, TypeOK
  <2>3. CASE HandleFrame
    BY <1>0, <2>2, <2>3 DEF HandleFrame, Goto, TypeOK, Thread, SlipPlace, MainPlace, threadVars
  <2>4. CASE KeepFrame
    BY <1>0, <2>2, <2>4 DEF KeepFrame, TypeOK, threadVars
  <2> QED
    BY <1>7, <2>3, <2>4
<1>8. CASE \E t \in Thread : FreeStep(t)
  <2>1. PICK t \in Thread : FreeStep(t)
    BY <1>8
  <2>2. CASE memp_free(t)
    <3>1. p[t] \in Pbuf
      BY <2>2 DEF memp_free, Places, TypeOK, Thread, PbufPtr
    <3> QED
      BY <2>2, <3>1 DEF memp_free, Enter, Goto, TypeOK, Thread, SlipPlace, MainPlace,
                        mainVars, threadVars
  <2>3. CASE Link(t)
    <3>1. mutex' \in {"none", "slip"} /\ pc'[t] \in {"recv", "loop", "free"}
          /\ (t = "main" => pc'[t] # "recv") /\ (t = "slip" => pc'[t] # "loop")
          /\ pc' = [pc EXCEPT ![t] = pc'[t]]
      BY <2>3 DEF Link, AfterFree, Goto, TypeOK, Thread
    <3> QED
      BY <2>3, <3>1 DEF Link, Leave, TypeOK, Thread, SlipPlace, MainPlace,
                        mainVars, threadVars
  <2> QED
    BY <2>1, <2>2, <2>3 DEF FreeStep
<1>9. CASE \E b \in Pbuf : DropKept(b)
  BY <1>0, <1>9 DEF DropKept, Goto, TypeOK, Thread, SlipPlace, MainPlace, threadVars
<1>10. CASE UNCHANGED vars
  BY <1>10 DEF vars, TypeOK
<1> QED
  BY <1>1, <1>2, <1>3, <1>4, <1>5, <1>6, <1>7, <1>8, <1>9, <1>10
     DEF Next, SlipStep, MainStep, NothingQueued

(***************************************************************************)
(* Steps that move no pbuf.                                                *)
(***************************************************************************)
Rest == Acyclic(next) /\ Distinct /\ OnePlaceEach

LEMMA NoPbufMoves ==
  ASSUME Rest, UNCHANGED <<tab, next, queue, stack>>,
         InHand("slip")' = InHand("slip"), InHand("main")' = InHand("main")
  PROVE  Rest'
  BY DEF Rest, Distinct, OnePlaceEach, Waiting, Chain

LEMMA OtherKept ==
  ASSUME TypeOK, NEW t \in Thread, next' = next, pc'[t] = pc[t], p'[t] = p[t], m'[t] = m[t]
  PROVE  InHand(t)' = InHand(t)
  BY HandKept

\* As long as there is no race, a thread that enters finds the other outside.
LEMMA OtherOutside ==
  ASSUME ~raced', NEW t \in Thread, Enter(t)
  PROVE  \A u \in Thread \ {t} : pc[u] # "unlink" /\ pc[u] # "link"
  BY DEF Enter, Inside

LEMMA QuietSteps ==
  ASSUME ~raced', PbufInv,
         \/ \E n \in 1 .. MaxChain : RecvFrame(n)
         \/ AllocFails \/ memp_malloc \/ pbuf_take
         \/ Put /\ Full
  PROVE  Places' /\ Rest'
<1>0. "slip" \in Thread /\ "main" \in Thread
  BY DEF Thread
<1>1. /\ UNCHANGED <<tab, next, queue, stack>>
      /\ pc'["main"] = pc["main"] /\ p'["main"] = p["main"] /\ m'["main"] = m["main"]
  BY DEF PbufInv, TypeOK, RecvFrame, AllocFails, memp_malloc, pbuf_take, Put, Goto, mainVars,
         threadVars, Thread
<1>2. InHand("main")' = InHand("main")
  BY <1>0, <1>1, OtherKept DEF PbufInv
<1>3. next \in Links /\ Reached(next, NULL) = {}
  BY ReachedNone DEF PbufInv, TypeOK, Links
<1>4. CASE \E n \in 1 .. MaxChain : RecvFrame(n)
  <2>1. PICK n \in 1 .. MaxChain : RecvFrame(n)
    BY <1>4
  <2>2. /\ pc["slip"] = "recv" /\ pc'["slip"] = "malloc" /\ p'["slip"] = NULL
        /\ rem' = n /\ UNCHANGED m
    BY <2>1 DEF RecvFrame, Goto, PbufInv, TypeOK, Thread
  <2>3. InHand("slip")' = InHand("slip")
    BY <1>0, <1>1, <1>3, <2>2, HandFacts DEF Holding
  <2>4. rem' # 0
    BY <2>2
  <2>5. Places'
    BY <1>0, <1>1, <2>2, <2>4 DEF PbufInv, Places, Chain, Thread
  <2> QED
    BY <1>1, <1>2, <2>3, <2>5, NoPbufMoves DEF PbufInv, Rest
<1>5. CASE AllocFails
  <2>1. /\ pc["slip"] = "malloc" /\ pc'["slip"] = IF p["slip"] = NULL THEN "recv" ELSE "free"
        /\ UNCHANGED <<m, p, last, rem>>
    BY <1>5 DEF AllocFails, Goto, PbufInv, TypeOK, Thread, threadVars
  <2>2. InHand("slip")' = InHand("slip")
    BY <1>0, <1>1, <1>3, <2>1, HandFacts DEF Holding
  <2>3. Places'
    BY <1>0, <1>1, <2>1 DEF PbufInv, Places, Chain, Thread
  <2> QED
    BY <1>1, <1>2, <2>2, <2>3, NoPbufMoves DEF PbufInv, Rest
<1>6. CASE memp_malloc
  <2>1. /\ pc["slip"] = "malloc" /\ pc'["slip"] = "unlink"
        /\ tab # NULL /\ m'["slip"] = tab
        /\ UNCHANGED <<p, last, rem>>
    BY <1>6 DEF memp_malloc, Enter, Goto, PbufInv, TypeOK, Thread, threadVars
  <2>2. InHand("slip")' = InHand("slip")
    BY <1>0, <1>1, <1>3, <2>1, HandFacts DEF Holding
  <2>3. pc["main"] # "link"
    BY <1>6, OtherOutside DEF memp_malloc, Thread
  <2>4. Places'
    BY <1>0, <1>1, <2>1, <2>3 DEF PbufInv, Places, Chain, Thread
  <2> QED
    BY <1>1, <1>2, <2>2, <2>4, NoPbufMoves DEF PbufInv, Rest
<1>7. CASE pbuf_take \/ (Put /\ Full)
  <2>1. /\ pc["slip"] \in {"take", "put"} /\ pc'["slip"] \in {"put", "free"}
        /\ UNCHANGED <<m, p, last, rem>>
    BY <1>7 DEF pbuf_take, Put, Goto, PbufInv, TypeOK, Thread, threadVars
  <2>2. InHand("slip")' = InHand("slip")
    BY <1>0, <1>1, <1>3, <2>1, HandFacts DEF Holding
  <2>3. Places'
    BY <1>0, <1>1, <2>1 DEF PbufInv, Places, Chain, Thread
  <2> QED
    BY <1>1, <1>2, <2>2, <2>3, NoPbufMoves DEF PbufInv, Rest
<1> QED
  BY <1>4, <1>5, <1>6, <1>7

(***************************************************************************)
(* The second half of memp_malloc.                                         *)
(***************************************************************************)
LEMMA WaitingPbufs == ASSUME TypeOK PROVE Waiting \in SUBSET Pbuf
<1>1. \A i \in DOMAIN queue : queue[i] \in Pbuf
  BY DEF TypeOK
<1> QED
  BY <1>1 DEF Waiting, TypeOK

LEMMA UnlinkStep ==
  ASSUME PbufInv, Unlink
  PROVE  /\ Places' /\ Rest'
         /\ \A k \in Waiting : Reached(next', k) = Reached(next, k)
<1>0. "slip" \in Thread /\ "main" \in Thread
  BY DEF Thread
<1> DEFINE s == p["slip"]
           h == IF s = NULL THEN tab ELSE s
<1>1. /\ next \in Links /\ tab \in Pbuf /\ s \in PbufPtr /\ last \in PbufPtr
      /\ Waiting \in SUBSET Pbuf
  BY <1>0, WaitingPbufs DEF PbufInv, TypeOK, Places, Unlink, Links, PbufPtr
<1>2. /\ pc["slip"] = "unlink" /\ pc'["slip"] \in {"take", "malloc"}
      /\ next' = IF s = NULL THEN [next EXCEPT ![tab] = NULL]
                 ELSE [next EXCEPT ![tab] = NULL, ![last] = tab]
      /\ tab' = next[tab] /\ p'["slip"] = h /\ last' = tab
      /\ UNCHANGED <<queue, stack>>
      /\ pc'["main"] = pc["main"] /\ p'["main"] = p["main"] /\ m' = m
  BY <1>0 DEF PbufInv, TypeOK, Places, Unlink, Leave, Goto, mainVars
<1>3. s # NULL => last \in Reached(next, s) /\ next[last] = NULL
  BY <1>2 DEF PbufInv, Places, Chain
<1>4. rem # 0 /\ pc'["slip"] = "malloc" => rem' # 0
  <2>1. rem' = rem - 1 /\ rem \in Nat /\ (pc'["slip"] = "malloc" => rem # 1)
    BY <1>0, RxAssumption DEF Unlink, Goto, PbufInv, TypeOK
  <2> QED
    BY <2>1
<1>5. InHand("slip") = Reached(next, s)
  BY <1>0, <1>2, HandFacts DEF Holding
<1>6. /\ next' \in Links /\ Acyclic(next')
      /\ Divided(Reached(next', next[tab]), Reached(next', h), InHand("main"), Waiting,
                 ChainsOf(next'))
      /\ \A x \in PbufPtr : Reached(next, x) \subseteq InHand("main")
                              => Reached(next', x) = Reached(next, x)
      /\ \A k \in Waiting : Reached(next', k) = Reached(next, k)
      /\ tab \in Reached(next', h) /\ next'[tab] = NULL
  <2>1. Divided(Reached(next, tab), Reached(next, s), InHand("main"), Waiting, ChainsOf(next))
    BY <1>5 DEF PbufInv, OnePlaceEach, Chain
  <2>2. Acyclic(next)
    BY DEF PbufInv
  <2>3. next' = Taken(next, tab, s, last)
    BY <1>2 DEF Taken, Relink
  <2> HIDE DEF s
  <2> QED
    BY <1>1, <1>3, <2>1, <2>2, <2>3, UnlinkDivides
<1>7. InHand("main")' = InHand("main")
  BY <1>0, <1>2, <1>6, HandKept DEF PbufInv
<1>8. InHand("slip")' = Reached(next', h)
  BY <1>0, <1>2, HandFacts DEF Holding
<1>9. OnePlaceEach'
  BY <1>2, <1>6, <1>7, <1>8 DEF OnePlaceEach, Chain, Waiting
<1>10. h # NULL
  BY <1>1, PbufFacts
<1>11. Places'
  <2>1. pc["main"] # "link" /\ (pc["main"] = "free" => p["main"] # NULL) /\ rem # 0
    BY <1>2 DEF PbufInv, Places
  <2> HIDE DEF h
  <2> QED
    BY <1>2, <1>4, <1>6, <1>10, <2>1 DEF Places, Chain, Thread
<1> QED
  BY <1>2, <1>6, <1>9, <1>11 DEF Rest, PbufInv, Distinct

(***************************************************************************)
(* The two halves of memp_free.  The thread that frees and the other one   *)
(* take the two hands in either order.                                     *)
(***************************************************************************)
Other(t) == IF t = "slip" THEN "main" ELSE "slip"

LEMMA Hands ==
  ASSUME NEW t \in Thread, NEW pool, NEW K, NEW C
  PROVE  /\ Divided(pool, InHand("slip"), InHand("main"), K, C)
              <=> Divided(pool, InHand(t), InHand(Other(t)), K, C)
         /\ Divided(pool, InHand("slip")', InHand("main")', K, C)
              <=> Divided(pool, InHand(t)', InHand(Other(t))', K, C)
<1>1. CASE t = "slip"
  BY <1>1 DEF Other
<1>2. CASE t = "main"
  <2>1. Other(t) = "slip"
    BY <1>2 DEF Other
  <2> QED
    BY <1>2, <2>1, DividedSwap
<1> QED
  BY <1>1, <1>2 DEF Thread

LEMMA FreeFirstHalf ==
  ASSUME ~raced', PbufInv, NEW t \in Thread, memp_free(t)
  PROVE  /\ Places' /\ Rest'
         /\ \A k \in Waiting : Reached(next', k) = Reached(next, k)
         /\ InHand(Other(t))' = InHand(Other(t))
<1> DEFINE o == Other(t)
<1>0. o \in Thread /\ o # t /\ Thread = {t, o}
  BY DEF Thread, Other
<1>1. /\ next \in Links /\ tab \in PbufPtr /\ p[t] \in Pbuf /\ Waiting \in SUBSET Pbuf
  BY WaitingPbufs DEF PbufInv, TypeOK, Places, memp_free, Links, PbufPtr, Thread
<1>2. /\ pc[t] = "free" /\ pc'[t] = "link"
      /\ next' = [next EXCEPT ![p[t]] = tab] /\ m'[t] = next[p[t]]
      /\ pc'[o] = pc[o] /\ m'[o] = m[o]
      /\ UNCHANGED <<tab, p, queue, stack, last, rem>>
  BY <1>0 DEF PbufInv, TypeOK, memp_free, Enter, Goto, mainVars, threadVars
<1>3. InHand(t) = Reached(next, p[t]) /\ InHand(t)' = {p[t]} \cup Reached(next', next[p[t]])
  BY <1>2, HandFacts DEF Holding
<1>4. /\ next' \in Links /\ Acyclic(next')
      /\ Divided(Reached(next', tab), {p[t]} \cup Reached(next', next[p[t]]), InHand(o), Waiting,
                 ChainsOf(next'))
      /\ \A x \in PbufPtr : Reached(next, x) \subseteq InHand(o)
                              => Reached(next', x) = Reached(next, x)
      /\ \A k \in Waiting : Reached(next', k) = Reached(next, k)
      /\ p[t] \notin Reached(next', next[p[t]]) /\ next'[p[t]] = tab
  <2>1. Divided(Reached(next, tab), Reached(next, p[t]), InHand(o), Waiting, ChainsOf(next))
    BY <1>3, Hands DEF PbufInv, OnePlaceEach, Chain
  <2>2. Acyclic(next)
    BY DEF PbufInv
  <2>3. next' = Relink(next, p[t], tab)
    BY <1>2 DEF Relink
  <2> HIDE DEF o
  <2> QED
    BY <1>1, <2>1, <2>2, <2>3, FreeDivides
<1>5. InHand(o)' = InHand(o)
  BY <1>0, <1>2, <1>4, HandKept DEF PbufInv
<1>6. Divided(Reached(next', tab'), InHand(t)', InHand(o)', Waiting, ChainsOf(next'))
  BY <1>2, <1>3, <1>4, <1>5
<1>7. OnePlaceEach'
  <2>1. Waiting' = Waiting
    BY <1>2 DEF Waiting
  <2>2. Divided(Reached(next', tab'), InHand("slip")', InHand("main")', Waiting, ChainsOf(next'))
    BY <1>6, Hands
  <2> QED
    BY <2>1, <2>2 DEF OnePlaceEach, Chain
<1>8. ASSUME pc'["slip"] \in {"malloc", "unlink"}, p'["slip"] # NULL
      PROVE  last' \in Reached(next', p'["slip"]) /\ next'[last'] = NULL
  <2>1. o = "slip" /\ pc["slip"] \in {"malloc", "unlink"} /\ t = "main"
    BY <1>2, <1>8 DEF Other, Thread
  <2>2. last \in Reached(next, p["slip"]) /\ next[last] = NULL
    BY <1>2, <1>8, <2>1 DEF PbufInv, Places, Chain
  <2>3. InHand(o) = Reached(next, p["slip"]) /\ p["slip"] \in PbufPtr /\ last \in Pbuf
    <3>1. InHand("slip") = Reached(next, p["slip"])
      BY <2>1, <1>0, HandFacts DEF Holding
    <3> QED
      BY <2>1, <2>2, <3>1 DEF PbufInv, TypeOK, Thread, Reached
  <2>4. p[t] \notin InHand(o)
    BY <1>4 DEF Divided
  <2> QED
    BY <1>1, <1>2, <1>4, <2>2, <2>3, <2>4 DEF Links
<1>9. Places'
  <2>1. pc[o] # "link" /\ pc[o] # "unlink"
    BY <1>0, OtherOutside DEF memp_free
  <2>2. p[t] # NULL
    BY <1>1, PbufFacts
  <2> QED
    BY <1>0, <1>2, <1>4, <1>8, <2>1, <2>2 DEF PbufInv, Places, Chain, Thread
<1> QED
  BY <1>2, <1>4, <1>5, <1>7, <1>9 DEF Rest, PbufInv, Distinct

LEMMA FreeSecondHalf ==
  ASSUME PbufInv, NEW t \in Thread, Link(t)
  PROVE  Places' /\ Rest'
<1> DEFINE o == Other(t)
           back == IF t = "slip" THEN "recv" ELSE "loop"
<1>0. o \in Thread /\ o # t /\ Thread = {t, o}
  BY DEF Thread, Other
<1>1. /\ next \in Links /\ tab \in PbufPtr /\ p[t] \in Pbuf /\ p[t] \in PbufPtr
      /\ m[t] \in PbufPtr
  BY DEF PbufInv, TypeOK, Places, Link, Links, PbufPtr, Thread
<1>2. /\ pc[t] = "link" /\ pc'[t] = (IF m[t] = NULL THEN back ELSE "free")
      /\ tab' = p[t] /\ p'[t] = m[t]
      /\ pc'[o] = pc[o] /\ p'[o] = p[o]
      /\ UNCHANGED <<next, m, queue, stack, last, rem>>
  BY <1>0 DEF PbufInv, TypeOK, Link, Leave, AfterFree, Goto, mainVars, threadVars
<1>3. next[p[t]] = tab /\ p[t] \notin Reached(next, m[t])
  BY <1>2 DEF PbufInv, Places, Thread, Chain
<1>4. InHand(t) = {p[t]} \cup Reached(next, m[t])
  BY <1>2, HandFacts
<1>5. InHand(t)' = Reached(next, m[t])
  <2>1. CASE m[t] = NULL
    BY <1>1, <1>2, <2>1, HandFacts, ReachedNone
  <2>2. CASE m[t] # NULL
    BY <1>2, <2>2, HandFacts DEF Holding
  <2> QED
    BY <2>1, <2>2
<1>6. InHand(o)' = InHand(o)
  BY <1>0, <1>2, OtherKept DEF PbufInv
<1>7. Reached(next, p[t]) = {p[t]} \cup Reached(next, tab)
  BY <1>1, <1>3, ReachedUnfold
<1>8. Divided(Reached(next', tab'), InHand(t)', InHand(o)', Waiting', ChainsOf(next'))
  <2>1. Divided(Reached(next, tab), {p[t]} \cup Reached(next, m[t]), InHand(o), Waiting,
                ChainsOf(next))
    BY <1>4, Hands DEF PbufInv, OnePlaceEach, Chain
  <2>2. Divided({p[t]} \cup Reached(next, tab), Reached(next, m[t]), InHand(o), Waiting,
                ChainsOf(next))
    BY <1>3, <2>1, DividedFree
  <2>3. Waiting' = Waiting /\ next' = next /\ tab' = p[t]
    BY <1>2 DEF Waiting
  <2> QED
    BY <1>5, <1>6, <1>7, <2>2, <2>3
<1>9. OnePlaceEach'
  BY <1>8, Hands DEF OnePlaceEach, Chain
<1>10. pc[o] # "link" /\ pc[o] # "unlink"
  BY <1>0, <1>2 DEF PbufInv, TypeOK, MainPlace, Places, Thread
<1>11. Places'
  BY <1>0, <1>2, <1>10 DEF PbufInv, Places, Chain, Thread
<1> QED
  BY <1>2, <1>9, <1>11 DEF Rest, PbufInv, Distinct

(***************************************************************************)
(* A chain passes through the queue.                                       *)
(***************************************************************************)
LEMMA PutStep ==
  ASSUME PbufInv, Put, ~Full
  PROVE  Places' /\ Rest'
<1> DEFINE s == p["slip"]
<1>0. "slip" \in Thread /\ "main" \in Thread
  BY DEF Thread
<1>1. /\ pc["slip"] = "put" /\ pc'["slip"] = "recv" /\ pc'["main"] = pc["main"]
      /\ queue' = Append(queue, s) /\ p'["slip"] = NULL /\ p'["main"] = p["main"]
      /\ UNCHANGED <<tab, next, m, last, rem, stack>>
  BY <1>0 DEF PbufInv, TypeOK, Put, Handed, Goto, mainVars, threadVars
<1>2. s \in Pbuf /\ queue \in Seq(Pbuf) /\ next \in Links
  BY <1>0, <1>1 DEF PbufInv, TypeOK, Places, PbufPtr, Links
<1>3. InHand("slip") = Reached(next, s) /\ InHand("slip")' = {}
  BY <1>0, <1>1, HandFacts DEF Holding
<1>4. InHand("main")' = InHand("main")
  BY <1>0, <1>1, OtherKept DEF PbufInv
<1>5. s \in Reached(next, s) /\ ChainsOf(next)[s] = Reached(next, s)
  BY <1>2, ReachedUnfold DEF ChainsOf
<1>6. s \notin Waiting
  <2>1. ASSUME s \in Waiting PROVE FALSE
    BY <1>3, <1>5, <2>1 DEF PbufInv, OnePlaceEach, Divided
  <2> QED
    BY <2>1
<1>7. /\ DOMAIN queue' = DOMAIN queue \cup {Len(queue) + 1} /\ Len(queue) + 1 \notin DOMAIN queue
      /\ \A i \in DOMAIN queue : queue'[i] = queue[i]
      /\ queue'[Len(queue) + 1] = s
  BY <1>1, <1>2
<1>8. Waiting' = Waiting \cup {s}
  BY <1>1, <1>7 DEF Waiting
<1>9. OnePlaceEach'
  <2>1. Divided(Reached(next, tab), ChainsOf(next)[s], InHand("main"), Waiting, ChainsOf(next))
    BY <1>3, <1>5 DEF PbufInv, OnePlaceEach, Chain
  <2>2. Divided(Reached(next, tab), {}, InHand("main"), Waiting \cup {s}, ChainsOf(next))
    BY <1>6, <2>1, DividedPut
  <2> QED
    BY <1>1, <1>3, <1>4, <1>8, <2>2 DEF OnePlaceEach, Chain
<1>10. Distinct'
  BY <1>1, <1>6, <1>7 DEF PbufInv, Distinct, Waiting
<1>11. Places'
  BY <1>0, <1>1 DEF PbufInv, Places, Chain, Thread
<1> QED
  BY <1>1, <1>9, <1>10, <1>11 DEF Rest, PbufInv

LEMMA TakenFromQueue ==
  ASSUME TypeOK, Take
  PROVE  /\ 1 \in DOMAIN queue /\ Head(queue) = queue[1]
         /\ \A i \in DOMAIN queue' : i + 1 \in DOMAIN queue /\ queue'[i] = queue[i + 1]
         /\ \A i \in DOMAIN queue : i # 1 => i - 1 \in DOMAIN queue' /\ queue'[i - 1] = queue[i]
         /\ \A i \in DOMAIN queue' : i \in Int /\ i + 1 # 1
         /\ \A i, j \in DOMAIN queue' : i # j => i + 1 # j + 1
         /\ \A i, j \in DOMAIN queue' : i < j => i + 1 < j + 1
  BY DEF TypeOK, Take

LEMMA TakeStep ==
  ASSUME PbufInv, HandleFrame \/ KeepFrame
  PROVE  Places' /\ Rest'
<1> DEFINE b == queue[1]
<1>0. "slip" \in Thread /\ "main" \in Thread
  BY DEF Thread
<1>1. /\ Take /\ pc["main"] = "loop" /\ pc'["slip"] = pc["slip"] /\ p'["slip"] = p["slip"]
      /\ UNCHANGED <<tab, next, m, last, rem>>
  BY <1>0 DEF PbufInv, TypeOK, HandleFrame, KeepFrame, Take, Goto, threadVars
<1>2. /\ 1 \in DOMAIN queue /\ Head(queue) = b
      /\ \A i \in DOMAIN queue' : i + 1 \in DOMAIN queue /\ queue'[i] = queue[i + 1]
      /\ \A i \in DOMAIN queue : i # 1 => i - 1 \in DOMAIN queue' /\ queue'[i - 1] = queue[i]
      /\ \A i \in DOMAIN queue' : i + 1 # 1
      /\ \A i, j \in DOMAIN queue' : i # j => i + 1 # j + 1
  BY <1>1, TakenFromQueue DEF PbufInv
<1>3. b \in Pbuf /\ b \in Waiting /\ b \notin stack /\ next \in Links
  BY <1>2 DEF PbufInv, TypeOK, Waiting, Distinct, Links
<1>4. InHand("slip")' = InHand("slip")
  BY <1>0, <1>1, OtherKept DEF PbufInv
<1>5. InHand("main") = {}
  BY <1>0, <1>1, HandFacts
<1>6. \A i, j \in DOMAIN queue : i # j => queue[i] # queue[j]
  BY DEF PbufInv, Distinct
<1>7. \A i \in DOMAIN queue' : queue'[i] # b
  BY <1>2, <1>6
<1>8. {queue'[i] : i \in DOMAIN queue'} = {queue[i] : i \in DOMAIN queue} \ {b}
  <2>1. ASSUME NEW i \in DOMAIN queue, queue[i] # b
        PROVE  queue[i] \in {queue'[j] : j \in DOMAIN queue'}
    BY <1>2, <2>1
  <2>2. ASSUME NEW i \in DOMAIN queue'
        PROVE  queue'[i] \in {queue[j] : j \in DOMAIN queue} \ {b}
    BY <1>2, <1>7
  <2> QED
    BY <2>1, <2>2
<1>9. \A i, j \in DOMAIN queue' : i # j => queue'[i] # queue'[j]
  BY <1>2, <1>6
<1>10. CASE HandleFrame
  <2>1. /\ stack' = stack /\ p'["main"] = b /\ pc'["main"] = "free"
    BY <1>0, <1>2, <1>10 DEF HandleFrame, Goto, PbufInv, TypeOK
  <2>2. Waiting' = Waiting \ {b}
    BY <1>3, <1>8, <2>1 DEF Waiting
  <2>3. InHand("main")' = ChainsOf(next)[b]
    BY <1>0, <1>1, <1>3, <2>1, HandFacts DEF Holding, ChainsOf
  <2>4. OnePlaceEach'
    <3>1. Divided(Reached(next, tab), InHand("slip"), {}, Waiting, ChainsOf(next))
      BY <1>5 DEF PbufInv, OnePlaceEach, Chain
    <3>2. Divided(Reached(next, tab), InHand("slip"), ChainsOf(next)[b], Waiting \ {b},
                  ChainsOf(next))
      BY <1>3, <3>1, DividedGet
    <3> QED
      BY <1>1, <1>4, <2>2, <2>3, <3>2 DEF OnePlaceEach, Chain
  <2>5. Distinct'
    BY <1>2, <1>9, <2>1 DEF PbufInv, Distinct
  <2>6. Places'
    <3>1. b # NULL
      BY <1>3, PbufFacts
    <3> QED
      BY <1>0, <1>1, <2>1, <3>1 DEF PbufInv, Places, Chain, Thread
  <2> QED
    BY <1>1, <2>4, <2>5, <2>6 DEF Rest, PbufInv
<1>11. CASE KeepFrame
  <2>1. stack' = stack \cup {b} /\ UNCHANGED <<pc, p>>
    BY <1>2, <1>11 DEF KeepFrame
  <2>2. Waiting' = Waiting
    BY <1>3, <1>8, <2>1 DEF Waiting
  <2>3. InHand("main")' = InHand("main")
    BY <1>0, <1>1, <2>1, OtherKept DEF PbufInv
  <2>4. OnePlaceEach'
    BY <1>1, <1>4, <2>2, <2>3 DEF PbufInv, OnePlaceEach, Chain
  <2>5. Distinct'
    BY <1>2, <1>7, <1>9, <2>1 DEF PbufInv, Distinct
  <2>6. Places'
    BY <1>0, <1>1, <2>1 DEF PbufInv, Places, Chain, Thread
  <2> QED
    BY <1>1, <2>4, <2>5, <2>6 DEF Rest, PbufInv
<1> QED
  BY <1>10, <1>11

LEMMA DropStep ==
  ASSUME PbufInv, NEW b \in Pbuf, DropKept(b)
  PROVE  Places' /\ Rest'
<1>0. "slip" \in Thread /\ "main" \in Thread
  BY DEF Thread
<1>1. /\ pc["main"] = "loop" /\ pc'["main"] = "free" /\ p'["main"] = b
      /\ pc'["slip"] = pc["slip"] /\ p'["slip"] = p["slip"]
      /\ b \in stack /\ stack' = stack \ {b}
      /\ UNCHANGED <<tab, next, m, last, rem, queue>>
  BY <1>0 DEF PbufInv, TypeOK, DropKept, Goto, threadVars
<1>2. b # NULL
  BY PbufFacts
<1>3. InHand("slip")' = InHand("slip")
  BY <1>0, <1>1, OtherKept DEF PbufInv
<1>4. InHand("main") = {} /\ InHand("main")' = ChainsOf(next)[b]
  BY <1>0, <1>1, HandFacts DEF Holding, ChainsOf
<1>5. Waiting' = Waiting \ {b} /\ b \in Waiting
  BY <1>1 DEF Waiting, PbufInv, Distinct
<1>6. OnePlaceEach'
  <2>1. Divided(Reached(next, tab), InHand("slip"), {}, Waiting, ChainsOf(next))
    BY <1>4 DEF PbufInv, OnePlaceEach, Chain
  <2>2. Divided(Reached(next, tab), InHand("slip"), ChainsOf(next)[b], Waiting \ {b},
                ChainsOf(next))
    BY <1>5, <2>1, DividedGet
  <2> QED
    BY <1>1, <1>3, <1>4, <1>5, <2>2 DEF OnePlaceEach, Chain
<1>7. Distinct'
  BY <1>1 DEF PbufInv, Distinct
<1>8. Places'
  BY <1>0, <1>1, <1>2 DEF PbufInv, Places, Chain, Thread
<1> QED
  BY <1>1, <1>6, <1>7, <1>8 DEF Rest, PbufInv
-----------------------------------------------------------------------------
(***************************************************************************)
(* The invariant holds until the two threads race.                         *)
(***************************************************************************)
LEMMA StepPbufInv ==
  ASSUME ~raced', PbufInv, [Next]_vars
  PROVE  PbufInv'
<1>1. TypeOK'
  BY StepType
<1>2. Places' /\ Rest'
  <2>1. CASE UNCHANGED vars
    <3>1. UNCHANGED <<tab, next, queue, stack, pc, p, m, last, rem>>
      BY <2>1 DEF vars
    <3>2. InHand("slip")' = InHand("slip") /\ InHand("main")' = InHand("main")
      BY <3>1, OtherKept DEF PbufInv, Thread
    <3>3. Places'
      BY <3>1 DEF PbufInv, Places, Chain
    <3> QED
      BY <3>1, <3>2, <3>3, NoPbufMoves DEF PbufInv, Rest
  <2>2. CASE Put
    BY <2>2, PutStep, QuietSteps
  <2>3. CASE \E t \in Thread : FreeStep(t)
    BY <2>3, FreeFirstHalf, FreeSecondHalf DEF FreeStep
  <2>4. CASE \E b \in Pbuf : DropKept(b)
    BY <2>4, DropStep
  <2>5. CASE (\E n \in 1 .. MaxChain : RecvFrame(n)) \/ AllocFails \/ memp_malloc \/ pbuf_take
    BY <2>5, QuietSteps
  <2> QED
    BY <2>1, <2>2, <2>3, <2>4, <2>5, UnlinkStep, TakeStep
       DEF Next, SlipStep, MainStep, NothingQueued
<1> QED
  BY <1>1, <1>2 DEF PbufInv, Rest

\* A race is not forgotten.
LEMMA RacedStays == ASSUME [Next]_vars, ~raced' PROVE ~raced
<1>1. CASE \E n \in 1 .. MaxChain : RecvFrame(n)
  BY <1>1 DEF RecvFrame
<1>2. CASE AllocFails \/ pbuf_take \/ Put
  BY <1>2 DEF AllocFails, pbuf_take, Put
<1>3. CASE memp_malloc \/ Unlink
  BY <1>3 DEF memp_malloc, Unlink, Enter, Leave
<1>4. CASE \E t \in Thread : FreeStep(t)
  BY <1>4 DEF FreeStep, memp_free, Link, Enter, Leave
<1>5. CASE MainStep \/ (\E b \in Pbuf : DropKept(b)) \/ UNCHANGED vars
  BY <1>5 DEF MainStep, NothingQueued, HandleFrame, KeepFrame, DropKept, vars
<1> QED
  BY <1>1, <1>2, <1>3, <1>4, <1>5 DEF Next, SlipStep

PbufInvUntilRace == ~raced => PbufInv

LEMMA AlwaysPbufInv == Spec => []PbufInvUntilRace
<1>1. PbufInvUntilRace /\ [Next]_vars => PbufInvUntilRace'
  BY StepPbufInv, RacedStays DEF PbufInvUntilRace
<1>2. Init => PbufInvUntilRace
  BY InitPbufInv DEF PbufInvUntilRace
<1> QED
  BY <1>1, <1>2, PTL DEF Spec

(***************************************************************************)
(* Divided is what PbufsConserved counts.                                  *)
(***************************************************************************)
LEMMA OnePlace ==
  ASSUME PbufInv, NEW b \in Pbuf
  PROVE  \E q : {pl \in Place : b \in pl[3]} = {q}
<1> DEFINE inQueue(i) == b \in Chain(queue[i])
           inStack(x) == b \in Chain(x)
<1>1. /\ \A i \in DOMAIN queue : queue[i] \in Waiting /\ ChainsOf(next)[queue[i]] = Chain(queue[i])
      /\ \A x \in stack : x \in Waiting /\ ChainsOf(next)[x] = Chain(x)
  <2>1. \A k \in Waiting : ChainsOf(next)[k] = Chain(k)
    BY WaitingPbufs DEF PbufInv, ChainsOf, Chain
  <2> QED
    BY <2>1 DEF Waiting
<1>2. /\ b \in Chain(tab) \/ b \in InHand("slip") \/ b \in InHand("main")
           \/ (\E i \in DOMAIN queue : inQueue(i)) \/ (\E x \in stack : inStack(x))
      /\ ~(b \in Chain(tab) /\ b \in InHand("slip"))
      /\ ~(b \in Chain(tab) /\ b \in InHand("main"))
      /\ ~(b \in InHand("slip") /\ b \in InHand("main"))
      /\ \A i \in DOMAIN queue : inQueue(i) =>
           b \notin Chain(tab) /\ b \notin InHand("slip") /\ b \notin InHand("main")
      /\ \A x \in stack : inStack(x) =>
           b \notin Chain(tab) /\ b \notin InHand("slip") /\ b \notin InHand("main")
  <2>1. Divided(Chain(tab), InHand("slip"), InHand("main"), Waiting, ChainsOf(next))
    BY DEF PbufInv, OnePlaceEach
  <2>2. (\E k \in Waiting : b \in ChainsOf(next)[k])
           => (\E i \in DOMAIN queue : inQueue(i)) \/ (\E x \in stack : inStack(x))
    BY <1>1 DEF Waiting
  <2> QED
    BY <1>1, <2>1, <2>2 DEF Divided
<1>3. \A k, l \in Waiting : b \in ChainsOf(next)[k] /\ b \in ChainsOf(next)[l] => k = l
  BY DEF PbufInv, OnePlaceEach, Divided
<1>4. /\ \A i, j \in DOMAIN queue : inQueue(i) /\ inQueue(j) => i = j
      /\ \A x, y \in stack : inStack(x) /\ inStack(y) => x = y
      /\ \A i \in DOMAIN queue, x \in stack : ~(inQueue(i) /\ inStack(x))
  BY <1>1, <1>3 DEF PbufInv, Distinct
<1>5. \A pl : pl \in Place <=>
        \/ pl = <<"pool", 0, Chain(tab)>>
        \/ pl = <<"slip", 0, InHand("slip")>>
        \/ pl = <<"main", 0, InHand("main")>>
        \/ \E i \in DOMAIN queue : pl = <<"queue", i, Chain(queue[i])>>
        \/ \E x \in stack : pl = <<"stack", x, Chain(x)>>
  BY DEF Place, Thread
<1>6. CASE b \in Chain(tab)
  <2>1. {pl \in Place : b \in pl[3]} = {<<"pool", 0, Chain(tab)>>}
    BY <1>2, <1>5, <1>6
  <2> QED
    BY <2>1
<1>7. CASE b \in InHand("slip")
  <2>1. {pl \in Place : b \in pl[3]} = {<<"slip", 0, InHand("slip")>>}
    BY <1>2, <1>5, <1>7
  <2> QED
    BY <2>1
<1>8. CASE b \in InHand("main")
  <2>1. {pl \in Place : b \in pl[3]} = {<<"main", 0, InHand("main")>>}
    BY <1>2, <1>5, <1>8
  <2> QED
    BY <2>1
<1>9. CASE \E i \in DOMAIN queue : inQueue(i)
  <2>1. PICK i \in DOMAIN queue : inQueue(i)
    BY <1>9
  <2>2. {pl \in Place : b \in pl[3]} = {<<"queue", i, Chain(queue[i])>>}
    BY <1>2, <1>4, <1>5, <2>1
  <2> QED
    BY <2>2
<1>10. CASE \E x \in stack : inStack(x)
  <2>1. PICK x \in stack : inStack(x)
    BY <1>10
  <2>2. {pl \in Place : b \in pl[3]} = {<<"stack", x, Chain(x)>>}
    BY <1>2, <1>4, <1>5, <2>1
  <2> QED
    BY <2>2
<1> QED
  BY <1>2, <1>6, <1>7, <1>8, <1>9, <1>10

(***************************************************************************)
(* Until two threads are inside the functions of the pool at once, every   *)
(* pbuf is in exactly one place: pbuf_alloc, pbuf_free, the queue and the  *)
(* early returns of both threads, whatever the order of their steps,       *)
(* neither leak a pbuf nor put it on two chains.  This is about the build  *)
(* that lwipopts.h makes as well as about one with critical sections.      *)
(***************************************************************************)
THEOREM PbufsInOnePlace == Spec => []PbufsUntilRace
<1>1. PbufInvUntilRace => PbufsUntilRace
  BY OnePlace, FS_Singleton DEF PbufInvUntilRace, PbufsUntilRace, PbufsConserved
<1> QED
  BY <1>1, AlwaysPbufInv, PTL
-----------------------------------------------------------------------------
(***************************************************************************)
(* The order of the frames.  Steps that neither copy nor move a frame.     *)
(***************************************************************************)
LEMMA FramesKept ==
  ASSUME FrameInv, UNCHANGED <<queue, data, frames, seen>>, Busy' => Busy,
         \A i \in DOMAIN queue : Reached(next', queue[i]) = Reached(next, queue[i]),
         pc'["slip"] = "put" => /\ pc["slip"] = "put"
                                /\ Reached(next', p'["slip"]) = Reached(next, p["slip"])
  PROVE  FrameInv'
<1>1. \A x : Older(x) => Older(x)'
  BY DEF Older
<1>2. \A s : SeenAre(s) => SeenAre(s)'
  BY <1>1 DEF SeenAre
<1>3. (\E s \in Seq(0 .. MaxFrames) : SeenAre(s))'
  BY <1>2 DEF FrameInv
<1>4. \A i \in DOMAIN queue' : Older(data[queue[i]])'
  BY DEF FrameInv, Older
<1> QED
  BY <1>3, <1>4 DEF FrameInv, Chain

LEMMA KeptSteps ==
  ASSUME ~raced', PbufInv, FrameInv,
         \/ AllocFails \/ memp_malloc \/ Unlink
         \/ Put /\ Full
         \/ \E t \in Thread : FreeStep(t)
         \/ \E b \in Pbuf : DropKept(b)
         \/ UNCHANGED vars
  PROVE  FrameInv'
<1>0. \A i \in DOMAIN queue : queue[i] \in Waiting
  BY DEF Waiting
<1>1. CASE AllocFails \/ memp_malloc \/ Unlink
  <2>1. /\ UNCHANGED <<queue, data, frames, seen>> /\ pc["slip"] \in {"malloc", "unlink"}
        /\ pc'["slip"] # "put"
    BY <1>1 DEF AllocFails, memp_malloc, Unlink, Goto, mainVars, PbufInv, TypeOK, Thread
  <2>2. \A i \in DOMAIN queue : Reached(next', queue[i]) = Reached(next, queue[i])
    BY <1>0, <1>1, UnlinkStep DEF AllocFails, memp_malloc
  <2> QED
    BY <2>1, <2>2, FramesKept DEF Busy
<1>2. CASE Put /\ Full
  <2>1. /\ UNCHANGED <<queue, data, frames, seen, next>> /\ pc["slip"] = "put"
        /\ pc'["slip"] = "free"
    BY <1>2 DEF Put, Goto, mainVars, PbufInv, TypeOK, Thread
  <2> QED
    BY <2>1, FramesKept DEF Busy
<1>3. ASSUME NEW t \in Thread, memp_free(t) PROVE FrameInv'
  <2>1. /\ UNCHANGED <<queue, data, frames, seen, p>> /\ pc[t] = "free"
        /\ pc' = [pc EXCEPT ![t] = "link"] /\ pc \in [Thread -> SlipPlace \cup MainPlace]
    BY <1>3 DEF memp_free, Goto, mainVars, PbufInv, TypeOK
  <2>2. \A i \in DOMAIN queue : Reached(next', queue[i]) = Reached(next, queue[i])
    BY <1>0, <1>3, FreeFirstHalf
  <2>3. ASSUME pc'["slip"] = "put"
        PROVE  pc["slip"] = "put" /\ Reached(next', p'["slip"]) = Reached(next, p["slip"])
    <3>1. t = "main" /\ pc["slip"] = "put" /\ "slip" \in Thread /\ Other(t) = "slip"
      BY <2>1, <2>3 DEF Thread, Other
    <3>2. InHand("slip")' = InHand("slip")
      BY <1>3, <3>1, FreeFirstHalf
    <3> QED
      BY <2>3, <3>1, <3>2, HandFacts DEF Holding
  <2>4. Busy' => Busy
    BY <2>1 DEF Busy, Thread
  <2> QED
    BY <2>1, <2>2, <2>3, <2>4, FramesKept
<1>4. ASSUME NEW t \in Thread, Link(t) PROVE FrameInv'
  <2>1. /\ UNCHANGED <<queue, data, frames, seen, next>> /\ pc[t] = "link"
        /\ pc'[t] \in {"recv", "loop", "free"} /\ \A u \in Thread \ {t} : pc'[u] = pc[u]
        /\ \A u \in Thread \ {t} : p'[u] = p[u]
    BY <1>4 DEF Link, AfterFree, Goto, mainVars, PbufInv, TypeOK, Thread
  <2>2. Busy' => Busy
    BY <2>1 DEF Busy, Thread
  <2>3. pc'["slip"] = "put" => pc["slip"] = "put" /\ p'["slip"] = p["slip"]
    BY <2>1 DEF Thread
  <2> QED
    BY <2>1, <2>2, <2>3, FramesKept
<1>5. ASSUME NEW b \in Pbuf, DropKept(b) PROVE FrameInv'
  <2>1. /\ UNCHANGED <<queue, data, frames, seen, next>> /\ pc'["slip"] = pc["slip"]
        /\ p'["slip"] = p["slip"]
    BY <1>5 DEF DropKept, Goto, PbufInv, TypeOK, Thread
  <2> QED
    BY <2>1, FramesKept DEF Busy
<1>6. CASE UNCHANGED vars
  BY <1>6, FramesKept DEF vars, Busy
<1> QED
  BY <1>1, <1>2, <1>3, <1>4, <1>5, <1>6 DEF FreeStep

LEMMA ElementOfSeq ==
  ASSUME NEW S, NEW s \in Seq(S), NEW k \in DOMAIN s
  PROVE  s[k] \in S
  OBVIOUS

LEMMA QueuedData ==
  ASSUME TypeOK
  PROVE  /\ \A i \in DOMAIN queue : queue[i] \in Pbuf /\ data[queue[i]] \in 0 .. MaxFrames
         /\ frames \in Nat /\ MaxFrames \in Nat
<1>1. \A i \in DOMAIN queue : queue[i] \in Pbuf
  BY DEF TypeOK
<1> QED
  BY <1>1, RxAssumption DEF TypeOK

\* A new frame: everything queued or seen is older.
LEMMA RecvFrames ==
  ASSUME PbufInv, FrameInv, NEW n \in 1 .. MaxChain, RecvFrame(n)
  PROVE  FrameInv'
<1>1. /\ UNCHANGED <<queue, data, next, seen>> /\ frames' = frames + 1
      /\ pc'["slip"] = "malloc"
  BY DEF RecvFrame, Goto, mainVars, PbufInv, TypeOK, Thread
<1>2. \A x \in 0 .. MaxFrames : Older(x) => Older(x)'
  <2>1. \A x \in 0 .. MaxFrames : x <= frames => x <= frames + 1 /\ x < frames + 1
    BY QueuedData DEF PbufInv
  <2> QED
    BY <1>1, <2>1 DEF Older
<1>3. \A i \in DOMAIN queue' : Older(data[queue[i]])'
  <2>1. \A i \in DOMAIN queue : data[queue[i]] \in 0 .. MaxFrames /\ data[queue[i]] <= frames
    BY QueuedData DEF PbufInv, FrameInv, Older
  <2>2. \A x \in 0 .. MaxFrames : x <= frames => x <= frames + 1 /\ x < frames + 1
    BY QueuedData DEF PbufInv
  <2> QED
    BY <1>1, <2>1, <2>2 DEF Older
<1>4. PICK s \in Seq(0 .. MaxFrames) : SeenAre(s)
  BY DEF FrameInv
<1>5. \A k \in DOMAIN s : s[k] \in 0 .. MaxFrames
  BY ElementOfSeq
<1>6. SeenAre(s)'
  BY <1>1, <1>2, <1>4, <1>5 DEF SeenAre
<1> QED
  BY <1>1, <1>3, <1>6 DEF FrameInv, Chain

\* pbuf_take writes to no pbuf of a queued chain.
LEMMA CopyFrames ==
  ASSUME PbufInv, FrameInv, pbuf_take
  PROVE  FrameInv'
<1>1. /\ UNCHANGED <<queue, frames, next, seen, p>>
      /\ pc["slip"] = "take" /\ pc'["slip"] = "put"
      /\ data' = [b \in Pbuf |-> IF b \in Chain(p["slip"]) THEN frames ELSE data[b]]
  BY DEF pbuf_take, Goto, mainVars, PbufInv, TypeOK, Thread
<1>2. InHand("slip") = Chain(p["slip"])
  BY <1>1, HandFacts DEF Thread, Holding, Chain
<1>3. ASSUME NEW i \in DOMAIN queue
      PROVE  /\ queue[i] \in Chain(queue[i]) /\ queue[i] \in Pbuf
             /\ Chain(queue[i]) \subseteq Pbuf /\ Chain(queue[i]) \cap Chain(p["slip"]) = {}
  <2>1. queue[i] \in Pbuf /\ queue[i] \in Waiting /\ next \in Links
    BY QueuedData DEF PbufInv, Waiting, TypeOK, Links
  <2>2. ChainsOf(next)[queue[i]] = Chain(queue[i])
    BY <2>1 DEF ChainsOf, Chain
  <2>3. Chain(queue[i]) \cap Chain(p["slip"]) = {}
    BY <1>2, <2>1, <2>2 DEF PbufInv, OnePlaceEach, Divided
  <2>4. queue[i] \in Chain(queue[i]) /\ Chain(queue[i]) \subseteq Pbuf
    BY <2>1, ReachedUnfold DEF Chain, Reached
  <2> QED
    BY <2>1, <2>3, <2>4
<1>4. \A i \in DOMAIN queue : \A b \in Chain(queue[i]) : data'[b] = data[b]
  BY <1>1, <1>3
<1>5. \A i \in DOMAIN queue : data'[queue[i]] = data[queue[i]]
  BY <1>3, <1>4
<1>6. \A x : Older(x) => Older(x)'
  BY <1>1 DEF Older, Busy
<1>7. \A s : SeenAre(s) => SeenAre(s)'
  BY <1>1, <1>5, <1>6 DEF SeenAre
<1>8. \A b \in Chain(p["slip"]) : data'[b] = frames
  BY <1>1 DEF Chain, Reached
<1>9. (\E s \in Seq(0 .. MaxFrames) : SeenAre(s))'
  BY <1>7 DEF FrameInv
<1>10. \A i \in DOMAIN queue' : Older(data[queue[i]])'
  BY <1>1, <1>5 DEF FrameInv, Older, Busy
<1>11. \A i \in DOMAIN queue' : \A b \in Chain(queue[i])' : data'[b] = data'[queue'[i]]
  BY <1>1, <1>4, <1>5 DEF FrameInv, Chain
<1>12. \A i, j \in DOMAIN queue' : i < j => data'[queue'[i]] < data'[queue'[j]]
  BY <1>1, <1>5 DEF FrameInv
<1>13. pc'["slip"] = "put" => \A b \in Chain(p["slip"])' : data'[b] = frames'
  BY <1>1, <1>8 DEF Chain
<1> QED
  BY <1>9, <1>10, <1>11, <1>12, <1>13 DEF FrameInv

\* The frame that is queued is the newest.
LEMMA PutFrames ==
  ASSUME PbufInv, FrameInv, Put, ~Full
  PROVE  FrameInv'
<1> DEFINE b0 == p["slip"]
           n == Len(queue) + 1
<1>1. /\ UNCHANGED <<data, frames, next, seen>>
      /\ pc["slip"] = "put" /\ pc'["slip"] = "recv" /\ queue' = Append(queue, b0)
  BY DEF Put, Goto, mainVars, PbufInv, TypeOK, Thread
<1>2. /\ DOMAIN queue' = DOMAIN queue \cup {n}
      /\ \A i \in DOMAIN queue : i < n /\ ~(n < i) /\ ~(n < n)
      /\ \A i \in DOMAIN queue : queue'[i] = queue[i]
      /\ queue'[n] = b0
  BY <1>1 DEF PbufInv, TypeOK
<1>3. b0 \in Pbuf /\ next \in Links /\ b0 \in Chain(b0)
  <2>1. b0 \in Pbuf /\ next \in Links
    BY <1>1 DEF PbufInv, TypeOK, Places, PbufPtr, Links, Thread
  <2> QED
    BY <2>1, ReachedUnfold DEF Chain
<1>4. \A b \in Chain(b0) : data[b] = frames
  BY <1>1 DEF FrameInv
<1>5. data[b0] = frames /\ \A b \in Chain(b0) : data[b] = data[b0]
  BY <1>3, <1>4
<1>6. Busy /\ ~Busy'
  BY <1>1 DEF Busy
<1>7. \A i \in DOMAIN queue : data[queue[i]] < data[b0] /\ data[queue[i]] <= frames
  BY <1>5, <1>6 DEF FrameInv, Older
<1> HIDE DEF n, b0
<1>8. \A i, j \in DOMAIN queue' : i < j => data'[queue'[i]] < data'[queue'[j]]
  <2> SUFFICES ASSUME NEW i \in DOMAIN queue', NEW j \in DOMAIN queue', i < j
               PROVE  data[queue'[i]] < data[queue'[j]]
    BY <1>1
  <2>1. i \in DOMAIN queue
    BY <1>2 DEF n
  <2>2. CASE j = n
    BY <1>2, <1>7, <2>1, <2>2
  <2>3. CASE j \in DOMAIN queue
    BY <1>2, <2>1, <2>3 DEF FrameInv
  <2> QED
    BY <1>2, <2>2, <2>3
<1>9. \A i \in DOMAIN queue' : \A b \in Chain(queue[i])' : data'[b] = data'[queue'[i]]
  BY <1>1, <1>2, <1>5 DEF FrameInv, Chain
<1>10. \A i \in DOMAIN queue' : Older(data[queue[i]])'
  <2>1. frames <= frames
    BY QueuedData DEF PbufInv
  <2> QED
    BY <1>1, <1>2, <1>5, <1>6, <1>7, <2>1 DEF Older
<1>11. PICK s \in Seq(0 .. MaxFrames) : SeenAre(s)
  BY DEF FrameInv
<1>12. \A k \in DOMAIN s : s[k] < data[b0] /\ Older(s[k])'
  BY <1>1, <1>5, <1>6, <1>11 DEF SeenAre, Older
<1>13. \A k \in DOMAIN s, i \in DOMAIN queue' : s[k] < data'[queue'[i]]
  BY <1>1, <1>2, <1>11, <1>12 DEF SeenAre
<1>14. SeenAre(s)'
  BY <1>1, <1>11, <1>12, <1>13 DEF SeenAre
<1> QED
  BY <1>1, <1>8, <1>9, <1>10, <1>14 DEF FrameInv

\* The frame that is taken is newer than the ones seen and older than the
\* ones that stay in the queue.
LEMMA AppendSeen ==
  ASSUME NEW S, NEW s \in Seq(S), NEW x \in S, NEW n, n = Len(s) + 1
  PROVE  /\ Append(s, x) \in Seq(S) /\ DOMAIN Append(s, x) = DOMAIN s \cup {n}
         /\ \A k \in DOMAIN s : Append(s, x)[k] = s[k] /\ k # n /\ ~(n < k)
         /\ Append(s, x)[n] = x /\ ~(n < n)
  OBVIOUS

LEMMA AppendSingletons ==
  ASSUME NEW S, NEW s \in Seq(S), NEW x \in S
  PROVE  Append(Singletons(s), {x}) = Singletons(Append(s, x))
<1> DEFINE t == [k \in DOMAIN s |-> {s[k]}]
           n == Len(s) + 1
           r == Append(s, x)
           u == [k \in DOMAIN r |-> {r[k]}]
<1>1. t \in Seq(SUBSET S) /\ Len(t) = Len(s) /\ \A k \in DOMAIN s : t[k] = {s[k]}
  <2>1. Len(s) \in Nat /\ DOMAIN s = 1 .. Len(s)
    OBVIOUS
  <2>2. \A k \in DOMAIN s : {s[k]} \in SUBSET S
    BY ElementOfSeq
  <2>3. t \in [1 .. Len(s) -> SUBSET S]
    BY <2>1, <2>2
  <2> QED
    BY <2>1, <2>3
<1>2. r \in Seq(S) /\ DOMAIN r = 1 .. n /\ Len(r) = n /\ n \in Nat
      /\ r[n] = x /\ \A k \in 1 .. Len(s) : r[k] = s[k]
  OBVIOUS
<1> HIDE DEF t, r
<1>3. /\ Append(t, {x}) \in Seq(SUBSET S) /\ Len(Append(t, {x})) = n
      /\ Append(t, {x})[n] = {x} /\ \A k \in 1 .. Len(s) : Append(t, {x})[k] = {s[k]}
  BY <1>1
<1>4. u \in Seq(SUBSET S) /\ Len(u) = n /\ \A k \in 1 .. n : u[k] = {r[k]}
  <2>1. \A k \in DOMAIN r : {r[k]} \in SUBSET S
    BY <1>2, ElementOfSeq
  <2>2. u \in [1 .. n -> SUBSET S]
    BY <1>2, <2>1
  <2> QED
    BY <1>2, <2>2
<1> HIDE DEF u
<1>5. \A k \in 1 .. n : Append(t, {x})[k] = u[k]
  <2> TAKE k \in 1 .. n
  <2>1. k = n \/ k \in 1 .. Len(s)
    OBVIOUS
  <2> QED
    BY <1>2, <1>3, <1>4, <2>1
<1>6. Append(t, {x}) = u
  BY <1>3, <1>4, <1>5
<1> QED
  BY <1>6 DEF t, u, r, Singletons

LEMMA TakeFrames ==
  ASSUME PbufInv, FrameInv, HandleFrame \/ KeepFrame
  PROVE  FrameInv'
<1> DEFINE b0 == queue[1]
<1>1. /\ Take /\ UNCHANGED <<data, frames, next>> /\ pc'["slip"] = pc["slip"]
      /\ p'["slip"] = p["slip"]
  BY DEF PbufInv, TypeOK, HandleFrame, KeepFrame, Take, Goto, Thread
<1>2. /\ 1 \in DOMAIN queue /\ Head(queue) = b0
      /\ \A i \in DOMAIN queue' : i + 1 \in DOMAIN queue /\ queue'[i] = queue[i + 1]
      /\ \A i, j \in DOMAIN queue' : i < j => i + 1 < j + 1
  BY <1>1, TakenFromQueue DEF PbufInv
<1>3. \A i \in DOMAIN queue' : 1 < i + 1
  BY <1>1 DEF Take, PbufInv, TypeOK
<1>0. b0 \in Pbuf /\ data[b0] \in 0 .. MaxFrames /\ b0 \in Chain(b0)
  <2>1. b0 \in Pbuf /\ data[b0] \in 0 .. MaxFrames /\ next \in Links
    BY <1>2, QueuedData DEF PbufInv, TypeOK, Links
  <2> QED
    BY <2>1, ReachedUnfold DEF Chain
<1>4. PICK x \in 0 .. MaxFrames : x = data[b0]
  BY <1>0
<1>5. seen' = Append(seen, {x})
  <2>1. {data[b] : b \in Chain(b0)} = {x}
    BY <1>0, <1>2, <1>4 DEF FrameInv
  <2> QED
    BY <1>1, <1>2, <2>1 DEF Take
<1>6. Older(x) /\ \A y : Older(y) => Older(y)'
  BY <1>1, <1>2, <1>4 DEF FrameInv, Older, Busy
<1>7. \A i \in DOMAIN queue' : x < data'[queue'[i]]
  BY <1>1, <1>2, <1>3, <1>4 DEF FrameInv
<1>8. PICK s \in Seq(0 .. MaxFrames) : SeenAre(s)
  BY DEF FrameInv
<1>9. \A k \in DOMAIN s : s[k] < x
  BY <1>2, <1>4, <1>8 DEF SeenAre
<1>10. \A k \in DOMAIN s, i \in DOMAIN queue' : s[k] < data'[queue'[i]]
  BY <1>1, <1>2, <1>8 DEF SeenAre
<1> DEFINE r == Append(s, x)
           n == Len(s) + 1
<1> HIDE DEF b0
<1>11. /\ r \in Seq(0 .. MaxFrames) /\ DOMAIN r = DOMAIN s \cup {n}
       /\ \A k \in DOMAIN s : r[k] = s[k] /\ k # n /\ ~(n < k)
       /\ r[n] = x /\ ~(n < n)
  BY <1>4, AppendSeen
<1>12. seen' = Singletons(r)
  BY <1>5, <1>8, AppendSingletons DEF SeenAre
<1> HIDE DEF r, n
<1>13. \A k \in DOMAIN r : Older(r[k])'
  BY <1>6, <1>8, <1>11 DEF SeenAre
<1>14. \A k, l \in DOMAIN r : k < l => r[k] < r[l]
  BY <1>8, <1>9, <1>11 DEF SeenAre
<1>15. \A k \in DOMAIN r, i \in DOMAIN queue' : r[k] < data'[queue'[i]]
  BY <1>7, <1>10, <1>11
<1>16. SeenAre(r)'
  BY <1>12, <1>13, <1>14, <1>15 DEF SeenAre
<1>17. \A i \in DOMAIN queue' : Older(data[queue[i]])'
  BY <1>1, <1>2 DEF FrameInv, Older, Busy
<1>18. \A i, j \in DOMAIN queue' : i < j => data'[queue'[i]] < data'[queue'[j]]
  BY <1>1, <1>2 DEF FrameInv
<1>19. \A i \in DOMAIN queue' : \A b \in Chain(queue[i])' : data'[b] = data'[queue'[i]]
  BY <1>1, <1>2 DEF FrameInv, Chain
<1>20. pc'["slip"] = "put" => \A b \in Chain(p["slip"])' : data'[b] = frames'
  BY <1>1 DEF FrameInv, Chain
<1> QED
  BY <1>11, <1>16, <1>17, <1>18, <1>19, <1>20 DEF FrameInv

FrameInvUntilRace == ~raced => FrameInv

(***************************************************************************)
(* Until two threads are inside the functions of the pool at once, what    *)
(* the main thread takes from the queue is one frame's bytes, and it meets *)
(* the frames in the order in which recv_packet returned them.             *)
(***************************************************************************)
THEOREM FramesWholeInOrder == Spec => []FramesUntilRace
<1>1. Init => FrameInv
  <2> SUFFICES ASSUME Init PROVE FrameInv
    OBVIOUS
  <2>1. queue = << >> /\ seen = << >> /\ pc["slip"] = "recv"
    BY DEF Init, Thread
  <2>2. << >> \in Seq(0 .. MaxFrames) /\ SeenAre(<< >>)
    BY <2>1 DEF SeenAre, Singletons
  <2>3. DOMAIN queue = {}
    BY <2>1
  <2> QED
    BY <2>1, <2>2, <2>3 DEF FrameInv
<1>2. ASSUME ~raced', PbufInv, FrameInv, [Next]_vars PROVE FrameInv'
  <2>1. CASE Put
    BY <1>2, <2>1, PutFrames, KeptSteps
  <2>2. CASE \E n \in 1 .. MaxChain : RecvFrame(n)
    BY <1>2, <2>2, RecvFrames
  <2>3. CASE AllocFails \/ memp_malloc \/ Unlink \/ (\E t \in Thread : FreeStep(t))
             \/ (\E b \in Pbuf : DropKept(b)) \/ UNCHANGED vars
    BY <1>2, <2>3, KeptSteps
  <2> QED
    BY <1>2, <2>1, <2>2, <2>3, CopyFrames, TakeFrames
       DEF Next, SlipStep, MainStep, NothingQueued
<1>3. FrameInv => FramesIntactInOrder
  <2> SUFFICES ASSUME FrameInv PROVE FramesIntactInOrder
    OBVIOUS
  <2>1. PICK s \in Seq(0 .. MaxFrames) : SeenAre(s)
    BY DEF FrameInv
  <2>2. DOMAIN seen = DOMAIN s /\ \A k \in DOMAIN s : seen[k] = {s[k]}
    BY <2>1 DEF SeenAre, Singletons
  <2>3. \A k \in DOMAIN seen : Cardinality(seen[k]) = 1
    BY <2>2, FS_Singleton
  <2>4. \A k, l \in DOMAIN seen : k < l => \A x \in seen[k], y \in seen[l] : x < y
    BY <2>1, <2>2 DEF SeenAre
  <2> QED
    BY <2>3, <2>4 DEF FramesIntactInOrder
<1>4. Init => FrameInvUntilRace
  BY <1>1 DEF FrameInvUntilRace
<1>5. PbufInvUntilRace /\ FrameInvUntilRace /\ [Next]_vars => FrameInvUntilRace'
  BY <1>2, RacedStays DEF PbufInvUntilRace, FrameInvUntilRace
<1>6. FrameInvUntilRace => FramesUntilRace
  BY <1>3 DEF FrameInvUntilRace, FramesUntilRace
<1> QED
  BY <1>4, <1>5, <1>6, AlwaysPbufInv, PTL DEF Spec
-----------------------------------------------------------------------------
OneInside ==
  /\ pc \in [Thread -> SlipPlace \cup MainPlace]
  /\ \A t \in Thread : Inside(t) => prot = t
  /\ raced = FALSE

(***************************************************************************)
(* What SYS_LIGHTWEIGHT_PROT = 1 would buy: SYS_ARCH_PROTECT lets one      *)
(* thread in at a time, so that the two never race.                        *)
(***************************************************************************)
THEOREM ProtectedNeverRaces ==
  ASSUME SYS_LIGHTWEIGHT_PROT = 1
  PROVE  Spec => []OneInside
<1>1. Init => OneInside
  BY DEF Init, OneInside, Inside, Thread, SlipPlace, MainPlace
<1>2. OneInside /\ [Next]_vars => OneInside'
  <2> SUFFICES ASSUME OneInside, [Next]_vars PROVE OneInside'
    OBVIOUS
  <2> USE DEF OneInside, Inside, Thread, SlipPlace, MainPlace, Goto
  <2>1. CASE \E n \in 1 .. MaxChain : RecvFrame(n)
    BY <2>1 DEF RecvFrame
  <2>2. CASE AllocFails \/ pbuf_take \/ Put
    BY <2>2 DEF AllocFails, pbuf_take, Put
  <2>3. CASE memp_malloc
    BY <2>3 DEF memp_malloc, Enter
  <2>4. CASE Unlink
    BY <2>4 DEF Unlink, Leave
  <2>5. ASSUME NEW t \in Thread, memp_free(t) PROVE OneInside'
    BY <2>5 DEF memp_free, Enter
  <2>6. ASSUME NEW t \in Thread, Link(t) PROVE OneInside'
    BY <2>6 DEF Link, AfterFree, Leave
  <2>7. CASE MainStep \/ (\E b \in Pbuf : DropKept(b)) \/ UNCHANGED vars
    BY <2>7 DEF MainStep, NothingQueued, HandleFrame, KeepFrame, DropKept, vars
  <2> QED
    BY <2>1, <2>2, <2>3, <2>4, <2>5, <2>6, <2>7 DEF Next, SlipStep, FreeStep
<1> QED
  BY <1>1, <1>2, PTL DEF Spec

\* In such a build every pbuf is in one place, without any condition.
COROLLARY ProtectedConserves ==
  ASSUME SYS_LIGHTWEIGHT_PROT = 1
  PROVE  Spec => [](PbufsConserved /\ FramesIntactInOrder)
<1>1. OneInside /\ PbufsUntilRace /\ FramesUntilRace
        => PbufsConserved /\ FramesIntactInOrder
  BY DEF OneInside, PbufsUntilRace, FramesUntilRace
<1> QED
  BY <1>1, ProtectedNeverRaces, PbufsInOnePlace, FramesWholeInOrder, PTL
=============================================================================
