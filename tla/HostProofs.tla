----------------------------- MODULE HostProofs -----------------------------
(***************************************************************************)
(* Two parts of ethoslip_lwip.                                             *)
(*                                                                         *)
(* The ring of queue.c, for every ring size: its type invariant and that,  *)
(* where a pointer fits an int, it implements BoundedFifo.                 *)
(*                                                                         *)
(* The bring-up of the interface, for every VMIN, every set of frames the  *)
(* line may lose, and any number of losses and failed allocations.         *)
(***************************************************************************)
EXTENDS SqQueue, WlanApi, SequenceTheorems, TLAPS
-----------------------------------------------------------------------------
(***************************************************************************)
(* The remainders the ring computes are at most one turn away.             *)
(***************************************************************************)
LEMMA ModTurn ==
  ASSUME NEW n \in Nat \ {0}, NEW x \in 0 .. 2 * n - 1
  PROVE  x % n = IF x < n THEN x ELSE x - n
  OBVIOUS

(***************************************************************************)
(* queue.c's casts: (int)p is a C int, and (void * )(int)p is p when       *)
(* pointers and ints have the same width.                                  *)
(***************************************************************************)
LEMMA CastType ==
  ASSUME NEW p \in Int
  PROVE  ToInt(p) \in IntVal
  BY QueueAssumption DEF ToInt, IntVal

LEMMA CastRoundTrip ==
  ASSUME PTR_SPAN = INT_SPAN, NEW p \in Ptr
  PROVE  ToPtr(ToInt(p)) = p
<1>1. p \in 1 .. INT_SPAN - 1 /\ INT_SPAN \in Nat \ {0}
  BY QueueAssumption
<1>2. p % INT_SPAN = p
  BY <1>1
<1>3. ToInt(p) = p \/ ToInt(p) = p - INT_SPAN
  BY <1>2 DEF ToInt
<1>4. (p - INT_SPAN) % INT_SPAN = p
  BY <1>1
<1> QED
  BY <1>2, <1>3, <1>4 DEF ToPtr

(***************************************************************************)
(* The ring as a function of its fields: the number of elements between f  *)
(* and r, and the n pointers that start at slot f of the array b.          *)
(***************************************************************************)
Count(f, r) == (r - f + MAX_QSIZE) % MAX_QSIZE
Ring(b, f, n) == [i \in 1 .. n |-> ToPtr(b[(f + i - 1) % MAX_QSIZE])]

LEMMA SlotType ==
  /\ MAX_QSIZE \in Nat \ {0}
  /\ Slot = 0 .. MAX_QSIZE - 1
  /\ 0 \in Slot
  BY QueueAssumption DEF Slot

(***************************************************************************)
(* One slot further, as Q_Put and Q_Poll compute it.                       *)
(***************************************************************************)
LEMMA NextSlot ==
  ASSUME NEW r \in Slot
  PROVE  /\ (r + 1) % MAX_QSIZE = IF r + 1 < MAX_QSIZE THEN r + 1 ELSE 0
         /\ (r + 1) % MAX_QSIZE \in Slot
<1> DEFINE x == r + 1
<1>1. x \in 0 .. 2 * MAX_QSIZE - 1
  BY SlotType
<1>2. x % MAX_QSIZE = IF x < MAX_QSIZE THEN x ELSE x - MAX_QSIZE
  <2> HIDE DEF x
  <2> QED BY SlotType, <1>1, ModTurn
<1> QED
  BY SlotType, <1>2

(***************************************************************************)
(* Q_Length without the remainder.                                         *)
(***************************************************************************)
LEMMA CountValue ==
  ASSUME NEW f \in Slot, NEW r \in Slot
  PROVE  /\ Count(f, r) = IF f <= r THEN r - f ELSE r - f + MAX_QSIZE
         /\ Count(f, r) \in 0 .. MAX_QSIZE - 1
         /\ f = r <=> Count(f, r) = 0
         /\ (r + 1) % MAX_QSIZE = f <=> Count(f, r) = MAX_QSIZE - 1
<1>1. Count(f, r) = IF f <= r THEN r - f ELSE r - f + MAX_QSIZE
  <2> DEFINE x == r - f + MAX_QSIZE
  <2>1. x \in 0 .. 2 * MAX_QSIZE - 1
    BY SlotType
  <2>2. x % MAX_QSIZE = IF x < MAX_QSIZE THEN x ELSE x - MAX_QSIZE
    <3> HIDE DEF x
    <3> QED BY SlotType, <2>1, ModTurn
  <2> QED
    BY SlotType, <2>2 DEF Count
<1> QED
  BY <1>1, SlotType, NextSlot

(***************************************************************************)
(* The i-th queued pointer sits in a slot of the array.                    *)
(***************************************************************************)
LEMMA IndexValue ==
  ASSUME NEW f \in Slot, NEW i \in 1 .. MAX_QSIZE
  PROVE  /\ (f + i - 1) % MAX_QSIZE \in Slot
         /\ (f + i - 1) % MAX_QSIZE =
              IF f + i - 1 < MAX_QSIZE THEN f + i - 1
              ELSE f + i - 1 - MAX_QSIZE
<1> DEFINE x == f + i - 1
<1>1. x \in 0 .. 2 * MAX_QSIZE - 1
  BY SlotType
<1>2. x % MAX_QSIZE = IF x < MAX_QSIZE THEN x ELSE x - MAX_QSIZE
  <2> HIDE DEF x
  <2> QED BY SlotType, <1>1, ModTurn
<1> QED
  BY SlotType, <1>1, <1>2

(***************************************************************************)
(* The contents of a ring of C ints are a sequence of pointers.            *)
(***************************************************************************)
LEMMA RingSeq ==
  ASSUME NEW b \in [Slot -> IntVal], NEW f \in Slot, NEW n \in 0 .. MAX_QSIZE
  PROVE  /\ Ring(b, f, n) \in Seq(Int)
         /\ Len(Ring(b, f, n)) = n
         /\ \A i \in 1 .. n :
              Ring(b, f, n)[i] = ToPtr(b[(f + i - 1) % MAX_QSIZE])
<1>1. ASSUME NEW i \in 1 .. n
      PROVE  ToPtr(b[(f + i - 1) % MAX_QSIZE]) \in Int
  <2>1. (f + i - 1) % MAX_QSIZE \in Slot
    BY SlotType, IndexValue
  <2>2. b[(f + i - 1) % MAX_QSIZE] \in Int
    BY <2>1, QueueAssumption DEF IntVal
  <2> QED
    BY <2>2, QueueAssumption DEF ToPtr
<1>2. n \in Nat
  BY SlotType
<1> QED
  BY <1>1, <1>2 DEF Ring

(***************************************************************************)
(* Storing e in the slot after the newest element appends it.              *)
(***************************************************************************)
LEMMA RingAppend ==
  ASSUME NEW b \in [Slot -> IntVal], NEW f \in Slot, NEW r \in Slot,
         NEW e \in IntVal, (r + 1) % MAX_QSIZE # f
  PROVE  LET r1 == (r + 1) % MAX_QSIZE
             b1 == [b EXCEPT ![r] = e]
         IN  /\ Count(f, r) < MAX_QSIZE - 1
             /\ Ring(b1, f, Count(f, r1)) = Append(Ring(b, f, Count(f, r)), ToPtr(e))
<1> DEFINE n  == Count(f, r)
           r1 == (r + 1) % MAX_QSIZE
           b1 == [b EXCEPT ![r] = e]
           s  == Ring(b, f, n)
<1>1. /\ n = IF f <= r THEN r - f ELSE r - f + MAX_QSIZE
      /\ n \in 0 .. MAX_QSIZE - 1 /\ n < MAX_QSIZE - 1 /\ n \in 0 .. MAX_QSIZE
  <2>1. /\ n = IF f <= r THEN r - f ELSE r - f + MAX_QSIZE
        /\ n \in 0 .. MAX_QSIZE - 1
        /\ n # MAX_QSIZE - 1
    BY CountValue
  <2> HIDE DEF n
  <2> QED BY <2>1, SlotType
<1>2. r1 \in Slot /\ r1 = IF r + 1 < MAX_QSIZE THEN r + 1 ELSE 0
  BY NextSlot
<1>3. Count(f, r1) = IF f <= r1 THEN r1 - f ELSE r1 - f + MAX_QSIZE
  <2> HIDE DEF r1
  <2> QED BY <1>2, CountValue
<1>4. Count(f, r1) = n + 1
  <2> HIDE DEF n, r1
  <2> QED BY <1>1, <1>2, <1>3, SlotType
<1>5. b1 \in [Slot -> IntVal]
  OBVIOUS
<1>6. s \in Seq(Int) /\ Len(s) = n
      /\ \A i \in 1 .. n : s[i] = ToPtr(b[(f + i - 1) % MAX_QSIZE])
  <2> HIDE DEF n
  <2> QED BY <1>1, RingSeq
<1>7. Ring(b1, f, n + 1) \in Seq(Int) /\ Len(Ring(b1, f, n + 1)) = n + 1
      /\ \A i \in 1 .. n + 1 :
           Ring(b1, f, n + 1)[i] = ToPtr(b1[(f + i - 1) % MAX_QSIZE])
  <2> DEFINE m == n + 1
  <2>1. m \in 0 .. MAX_QSIZE
    BY <1>1, SlotType
  <2> HIDE DEF m, b1
  <2>2. Ring(b1, f, m) \in Seq(Int) /\ Len(Ring(b1, f, m)) = m
        /\ \A i \in 1 .. m : Ring(b1, f, m)[i] = ToPtr(b1[(f + i - 1) % MAX_QSIZE])
    BY <1>5, <2>1, RingSeq
  <2> QED
    BY <2>2 DEF m
<1>8. ToPtr(e) \in Int
  BY QueueAssumption DEF ToPtr, IntVal
<1>9. Append(s, ToPtr(e)) \in Seq(Int) /\ Len(Append(s, ToPtr(e))) = n + 1
      /\ \A i \in 1 .. n : Append(s, ToPtr(e))[i] = s[i]
      /\ Append(s, ToPtr(e))[n + 1] = ToPtr(e)
  <2> HIDE DEF s, n
  <2> QED BY <1>6, <1>8, AppendProperties
<1>10. ASSUME NEW i \in 1 .. n + 1
       PROVE  Ring(b1, f, n + 1)[i] = Append(s, ToPtr(e))[i]
  <2> DEFINE k == (f + i - 1) % MAX_QSIZE
  <2>1. i \in 1 .. MAX_QSIZE
    BY <1>1, SlotType
  <2>2. k \in Slot /\ k = IF f + i - 1 < MAX_QSIZE THEN f + i - 1
                          ELSE f + i - 1 - MAX_QSIZE
    BY <2>1, IndexValue
  <2>3. Ring(b1, f, n + 1)[i] = ToPtr(b1[k])
    BY <1>7
  <2>4. CASE i \in 1 .. n
    <3>1. k # r
      <4> HIDE DEF k, n
      <4> QED BY <1>1, <2>2, <2>4, SlotType
    <3>2. b1[k] = b[k]
      <4> HIDE DEF k
      <4> QED BY <2>2, <3>1
    <3> QED
      BY <1>6, <1>9, <2>3, <2>4, <3>2
  <2>5. CASE i = n + 1
    <3>1. k = r
      <4> HIDE DEF k, n
      <4> QED BY <1>1, <2>2, <2>5, SlotType
    <3>2. b1[k] = e
      <4> HIDE DEF k
      <4> QED BY <3>1
    <3> QED
      BY <1>9, <2>3, <2>5, <3>2
  <2> QED
    BY <1>1, <2>4, <2>5, SlotType
<1>11. Ring(b1, f, n + 1) = Append(s, ToPtr(e))
  <2> HIDE DEF s, b1, n
  <2> QED BY <1>7, <1>9, <1>10, SeqEqual
<1> QED
  BY <1>1, <1>4, <1>11

(***************************************************************************)
(* Moving front on drops the oldest pointer.                               *)
(***************************************************************************)
LEMMA RingTail ==
  ASSUME NEW b \in [Slot -> IntVal], NEW f \in Slot, NEW r \in Slot, f # r
  PROVE  LET f1 == (f + 1) % MAX_QSIZE
             s  == Ring(b, f, Count(f, r))
         IN  /\ s # << >>
             /\ Head(s) = ToPtr(b[f])
             /\ Ring(b, f1, Count(f1, r)) = Tail(s)
<1> DEFINE n  == Count(f, r)
           f1 == (f + 1) % MAX_QSIZE
           s  == Ring(b, f, n)
<1>1. /\ n = IF f <= r THEN r - f ELSE r - f + MAX_QSIZE
      /\ n \in 1 .. MAX_QSIZE - 1 /\ n \in 0 .. MAX_QSIZE
  <2>1. /\ n = IF f <= r THEN r - f ELSE r - f + MAX_QSIZE
        /\ n \in 0 .. MAX_QSIZE - 1
        /\ n # 0
    BY CountValue
  <2> HIDE DEF n
  <2> QED BY <2>1, SlotType
<1>2. f1 \in Slot /\ f1 = IF f + 1 < MAX_QSIZE THEN f + 1 ELSE 0
  BY NextSlot
<1>3. Count(f1, r) = n - 1
  <2>1. Count(f1, r) = IF f1 <= r THEN r - f1 ELSE r - f1 + MAX_QSIZE
    <3> HIDE DEF f1
    <3> QED BY <1>2, CountValue
  <2> HIDE DEF n, f1
  <2> QED BY <1>1, <1>2, <2>1, SlotType
<1>4. s \in Seq(Int) /\ Len(s) = n
      /\ \A i \in 1 .. n : s[i] = ToPtr(b[(f + i - 1) % MAX_QSIZE])
  <2> HIDE DEF n
  <2> QED BY <1>1, RingSeq
<1>5. s # << >>
  <2> HIDE DEF s, n
  <2> QED BY <1>1, <1>4
<1>6. Tail(s) \in Seq(Int) /\ Len(Tail(s)) = n - 1
      /\ \A i \in 1 .. n - 1 : Tail(s)[i] = s[i + 1]
  <2> HIDE DEF s, n
  <2> QED BY <1>4, <1>5, HeadTailProperties
<1>7. Ring(b, f1, n - 1) \in Seq(Int) /\ Len(Ring(b, f1, n - 1)) = n - 1
      /\ \A i \in 1 .. n - 1 :
           Ring(b, f1, n - 1)[i] = ToPtr(b[(f1 + i - 1) % MAX_QSIZE])
  <2> DEFINE m == n - 1
  <2>1. m \in 0 .. MAX_QSIZE
    BY <1>1, SlotType
  <2> HIDE DEF m, f1
  <2>2. Ring(b, f1, m) \in Seq(Int) /\ Len(Ring(b, f1, m)) = m
        /\ \A i \in 1 .. m : Ring(b, f1, m)[i] = ToPtr(b[(f1 + i - 1) % MAX_QSIZE])
    BY <1>2, <2>1, RingSeq
  <2> QED
    BY <2>2 DEF m
<1>8. ASSUME NEW i \in 1 .. n - 1
      PROVE  Ring(b, f1, n - 1)[i] = Tail(s)[i]
  <2> DEFINE j  == i + 1
             k  == (f + j - 1) % MAX_QSIZE
             k1 == (f1 + i - 1) % MAX_QSIZE
  <2>1. i \in 1 .. MAX_QSIZE /\ j \in 1 .. MAX_QSIZE /\ j \in 1 .. n
    BY <1>1, SlotType
  <2>2. k = IF f + j - 1 < MAX_QSIZE THEN f + j - 1 ELSE f + j - 1 - MAX_QSIZE
    <3> HIDE DEF j
    <3> QED BY <2>1, IndexValue
  <2>3. k1 = IF f1 + i - 1 < MAX_QSIZE THEN f1 + i - 1 ELSE f1 + i - 1 - MAX_QSIZE
    <3> HIDE DEF f1
    <3> QED BY <1>2, <2>1, IndexValue
  <2>4. k = k1
    <3> HIDE DEF k, k1, f1, n
    <3> QED BY <1>1, <1>2, <2>1, <2>2, <2>3, SlotType
  <2>5. s[j] = ToPtr(b[k])
    <3> HIDE DEF s, j, n
    <3> QED BY <1>4, <2>1 DEF k
  <2> QED
    BY <1>6, <1>7, <2>4, <2>5
<1>9. Ring(b, f1, n - 1) = Tail(s)
  <2> HIDE DEF s, f1, n
  <2> QED BY <1>6, <1>7, <1>8, SeqEqual
<1>10. Head(s) = ToPtr(b[f])
  <2>1. s[1] = ToPtr(b[(f + 1 - 1) % MAX_QSIZE])
    BY <1>1, <1>4
  <2>2. (f + 1 - 1) % MAX_QSIZE = f
    BY SlotType
  <2>3. Head(s) = s[1]
    OBVIOUS
  <2> QED
    BY <2>1, <2>2, <2>3
<1> QED
  BY <1>3, <1>5, <1>9, <1>10
-----------------------------------------------------------------------------
(***************************************************************************)
(* For every ring size and every pointer set, front and rear never leave   *)
(* the array and every slot holds a C int.                                 *)
(***************************************************************************)
THEOREM TypeCorrect == QueueSpec => []QueueTypeOK
<1>0. 0 \in Slot /\ Junk \subseteq IntVal
  BY SlotType, QueueAssumption
<1>1. QueueInit => QueueTypeOK
  <2> SUFFICES ASSUME QueueInit PROVE QueueTypeOK
    OBVIOUS
  <2>1. base \in [Slot -> IntVal]
    BY <1>0 DEF QueueInit
  <2>2. live \in BOOLEAN
    BY Zenon DEF QueueInit
  <2> QED
    BY <1>0, <2>1, <2>2 DEF QueueInit, QueueTypeOK, Ret, NULL
<1>2. QueueTypeOK /\ [QueueNext]_queueVars => QueueTypeOK'
  <2> SUFFICES ASSUME QueueTypeOK, [QueueNext]_queueVars
               PROVE  QueueTypeOK'
    OBVIOUS
  <2> USE DEF QueueTypeOK, Ret, NULL
  <2>1. CASE Q_Init
    <3>1. base' \in [Slot -> IntVal]
      BY <1>0, <2>1 DEF Q_Init
    <3>2. live' \in BOOLEAN
      BY <2>1, Zenon DEF Q_Init
    <3> QED
      BY <1>0, <2>1, <3>1, <3>2 DEF Q_Init
  <2>2. CASE Q_Destroy
    <3>1. live' \in BOOLEAN
      BY <2>2, Zenon DEF Q_Destroy
    <3> QED
      BY <1>0, <2>2, <3>1 DEF Q_Destroy
  <2>3. CASE Q_Clear
    BY <1>0, <2>3 DEF Q_Clear
  <2>4. ASSUME NEW p \in Ptr, queue_try_put(p)
        PROVE  QueueTypeOK'
    <3>1. ToInt(p) \in IntVal
      BY CastType, QueueAssumption
    <3>2. (rear + 1) % MAX_QSIZE \in Slot
      BY NextSlot
    <3> QED
      BY <2>4, <3>1, <3>2 DEF queue_try_put, Q_Put
  <2>5. CASE queue_try_get
    <3>1. (front + 1) % MAX_QSIZE \in Slot
      BY NextSlot
    <3>2. ToPtr(base[front]) \in Int
      BY QueueAssumption DEF ToPtr, IntVal
    <3> QED
      BY <2>5, <3>1, <3>2 DEF queue_try_get, Q_Poll
  <2>6. CASE Q_Length
    <3>1. QLength \in Int
      BY CountValue, SlotType DEF QLength, Count
    <3> QED
      BY <2>6, <3>1 DEF Q_Length
  <2>7. CASE Q_Empty
    BY <2>7 DEF Q_Empty
  <2>8. CASE UNCHANGED queueVars
    BY <2>8 DEF queueVars
  <2> QED
    BY <2>1, <2>2, <2>3, <2>4, <2>5, <2>6, <2>7, <2>8 DEF QueueNext
<1> QED
  BY <1>1, <1>2, PTL DEF QueueSpec
-----------------------------------------------------------------------------
(***************************************************************************)
(* The ring refines BoundedFifo for every size, provided a pointer fits an *)
(* int: each call of queue.c appends, removes or reports exactly what the  *)
(* abstract queue does.  In a build where pointers are wider the casts     *)
(* lose bits and the hypothesis fails.                                     *)
(***************************************************************************)
THEOREM RefinesFifo ==
  ASSUME PTR_SPAN = INT_SPAN
  PROVE  QueueSpec => FifoSpec
<1> USE DEF Ret, NULL, Fifo!Ret, Fifo!NULL
<1>1. QueueInit => Fifo!Init
  <2> SUFFICES ASSUME QueueInit PROVE Fifo!Init
    OBVIOUS
  <2>1. QLength = 0
    BY SlotType, CountValue DEF QueueInit, QLength, Count
  <2> QED
    BY <2>1 DEF QueueInit, Fifo!Init, Contents
<1>2. QueueTypeOK /\ QueueTypeOK' /\ [QueueNext]_queueVars => [Fifo!Next]_(Fifo!vars)
  <2> SUFFICES ASSUME QueueTypeOK, QueueTypeOK', [QueueNext]_queueVars
               PROVE  Fifo!Next \/ UNCHANGED Fifo!vars
    BY DEF Fifo!vars
  <2>1. /\ Contents = Ring(base, front, Count(front, rear))
        /\ Contents' = Ring(base', front', Count(front', rear'))
    BY DEF Contents, Ring, Count, QLength, ToPtr
  <2>2. /\ Count(front, rear) \in 0 .. MAX_QSIZE - 1
        /\ Count(front, rear) \in 0 .. MAX_QSIZE
        /\ QLength = Count(front, rear)
        /\ QEmpty <=> Count(front, rear) = 0
        /\ QFull <=> Count(front, rear) = MAX_QSIZE - 1
    <3>1. /\ Count(front, rear) \in 0 .. MAX_QSIZE - 1
          /\ front = rear <=> Count(front, rear) = 0
          /\ (rear + 1) % MAX_QSIZE = front <=> Count(front, rear) = MAX_QSIZE - 1
      BY CountValue DEF QueueTypeOK
    <3>2. QLength = Count(front, rear)
      BY DEF QLength, Count
    <3>3. Count(front, rear) \in 0 .. MAX_QSIZE
      BY <3>1, SlotType
    <3> QED
      BY <3>1, <3>2, <3>3 DEF QEmpty, QFull
  <2>3. Contents \in Seq(Int) /\ Len(Contents) = Count(front, rear)
    BY <2>1, <2>2, RingSeq DEF QueueTypeOK
  <2>4. ASSUME front' = 0, rear' = 0
        PROVE  Contents' = << >>
    <3>1. Count(0, 0) = 0
      BY SlotType, CountValue
    <3> QED
      BY <2>1, <2>4, <3>1 DEF Ring
  <2>5. CASE Q_Init \/ Q_Destroy \/ Q_Clear
    BY <2>4, <2>5 DEF Q_Init, Q_Destroy, Q_Clear, Fifo!Next, Fifo!Clear
  <2>6. ASSUME UNCHANGED <<base, front, rear>>
        PROVE  Contents' = Contents
    BY <2>1, <2>6
  <2>7. ASSUME NEW p \in Ptr, queue_try_put(p)
        PROVE  Fifo!Put(p)
    <3>1. CASE Q_Put(ToInt(p)) /\ ret' = Ret("put", 1)
      <4>1. ToInt(p) \in IntVal
        BY CastType, QueueAssumption
      <4>2. /\ Count(front, rear) < MAX_QSIZE - 1
            /\ Contents' = Append(Contents, ToPtr(ToInt(p)))
        <5>1. /\ (rear + 1) % MAX_QSIZE # front
              /\ base' = [base EXCEPT ![rear] = ToInt(p)]
              /\ rear' = (rear + 1) % MAX_QSIZE /\ front' = front
          BY <3>1 DEF Q_Put, QFull
        <5>2. base \in [Slot -> IntVal] /\ front \in Slot /\ rear \in Slot
          BY DEF QueueTypeOK
        <5> QED
          BY <2>1, <4>1, <5>1, <5>2, RingAppend
      <4>3. Contents' = Append(Contents, p)
        BY <4>2, CastRoundTrip
      <4> QED
        BY <2>3, <3>1, <4>2, <4>3 DEF Fifo!Put
    <3>2. CASE QFull /\ UNCHANGED <<base, front, rear>> /\ ret' = Ret("put", 0)
      <4>1. ~(Len(Contents) < MAX_QSIZE - 1)
        BY <2>2, <2>3, <3>2, SlotType
      <4> QED
        BY <2>6, <3>2, <4>1 DEF Fifo!Put
    <3> QED
      BY <2>7, <3>1, <3>2 DEF queue_try_put
  <2>8. CASE queue_try_get
    <3>1. CASE Q_Poll /\ ret' = Ret("get", ToPtr(base[front]))
      <4>1. /\ Contents # << >>
            /\ Head(Contents) = ToPtr(base[front])
            /\ Contents' = Tail(Contents)
        BY <2>1, <3>1, RingTail DEF Q_Poll, QEmpty, QueueTypeOK
      <4> QED
        BY <3>1, <4>1 DEF Fifo!Next, Fifo!Get
    <3>2. CASE QEmpty /\ UNCHANGED <<base, front, rear>> /\ ret' = Ret("get", NULL)
      <4>1. Contents = << >>
        BY <2>2, <2>3, <3>2
      <4> QED
        BY <2>6, <3>2, <4>1 DEF Fifo!Next, Fifo!Get
    <3> QED
      BY <2>8, <3>1, <3>2 DEF queue_try_get
  <2>9. CASE Q_Length
    BY <2>2, <2>3, <2>6, <2>9 DEF Q_Length, Fifo!Next, Fifo!Length
  <2>10. CASE Q_Empty
    <3>1. QEmpty <=> Contents = << >>
      BY <2>2, <2>3
    <3> QED
      BY <2>6, <2>10, <3>1 DEF Q_Empty, Fifo!Next, Fifo!Empty
  <2>11. CASE UNCHANGED queueVars
    BY <2>6, <2>11 DEF queueVars, Fifo!vars
  <2> QED
    BY <2>5, <2>7, <2>8, <2>9, <2>10, <2>11 DEF QueueNext, Fifo!Next
<1>3. QueueSpec => []QueueTypeOK
  BY TypeCorrect
<1> QED
  BY <1>1, <1>2, <1>3, PTL DEF QueueSpec, FifoSpec, Fifo!Spec
-----------------------------------------------------------------------------
\* What the three pieces of host state are to each other: a request is
\* pending, or its timer on, only in the state that waits for the answer.
Pending == /\ wifi_status \in WifiStatus
           /\ gs_wlan_api_status \in {"FREE", "GET_HWADDR"}
           /\ timer \in {0, 1}
           /\ timer = 1 => wifi_status = WIFI_FREE
           /\ gs_wlan_api_status = "GET_HWADDR" => wifi_status = WIFI_FREE

IInv == Pending /\ fails \in Nat /\ WaitsWithRetry

hostVars == <<wifi_status, gs_wlan_api_status, timer, fails>>

\* The numbers of the states are those of user_main.c.
LEMMA StatusNumbers ==
  /\ WifiStatus = {0, 1, 2, 3, 4, 5, 255}
  /\ WIFI_FREE = 255 /\ WIFI_NOT_HWADDR = 0 /\ WIFI_GOT_HWADDR = 1
  /\ WIFI_CONNECTED = 2 /\ WIFI_DHCP_NOT_IP = 3 /\ WIFI_DHCP_GOT_IP = 4
  /\ WIFI_RUNING = 5
BY DEF WifiStatus, WIFI_FREE, WIFI_NOT_HWADDR, WIFI_GOT_HWADDR, WIFI_CONNECTED,
       WIFI_DHCP_NOT_IP, WIFI_DHCP_GOT_IP, WIFI_RUNING

\* The order of the states of the bring-up, one by one.
LEMMA Stages ==
  /\ Stage(0) = 0 /\ Stage(255) = 1 /\ Stage(1) = 2 /\ Stage(2) = 3
  /\ Stage(3) = 4 /\ Stage(4) = 5 /\ Stage(5) = 6
BY StatusNumbers DEF Stage

\* Either kind of step of the host that changes the four variables.
LEMMA RequestFacts ==
  ASSUME RequestHwaddr, IInv
  PROVE  \/ gs_wlan_api_status' = "GET_HWADDR" /\ timer' = 1 /\ fails' = fails
         \/ /\ gs_wlan_api_status' = gs_wlan_api_status /\ timer' = 0
            /\ fails' = fails + 1
BY DEF RequestHwaddr, MallocFails

\* The initial state: nothing asked, nothing awaited.
LEMMA InitIInv == Init => IInv
BY StatusNumbers DEF Init, IInv, Pending, WaitsWithRetry

\* Every step preserves the invariant and moves the bring-up forward only.
LEMMA StepIInv == 
  ASSUME IInv, [Next]_vars
  PROVE  IInv' /\ Stage(wifi_status') >= Stage(wifi_status)
<1> USE StatusNumbers, Stages
<1> DEFINE Goal == IInv' /\ Stage(wifi_status') >= Stage(wifi_status)
<1>1. ASSUME UNCHANGED hostVars PROVE Goal
  <2>1. Stage(wifi_status) \in Int
    BY DEF IInv, Pending
  <2> QED
    BY <1>1, <2>1 DEF hostVars, IInv, Pending, WaitsWithRetry
<1>2. CASE wlan_api_rx_proc
  <2>1. /\ wifi_status = 255 /\ wifi_status' = 1
        /\ timer' = 0 /\ gs_wlan_api_status' = "FREE" /\ fails' = fails
    BY <1>2 DEF wlan_api_rx_proc, get_hwaddr_callback, IInv, Pending
  <2> QED
    BY <2>1 DEF IInv, Pending, WaitsWithRetry
<1>3. CASE get_hwaddr_timeout_callback
  <2>1. wifi_status = 255 /\ wifi_status' = 255
    BY <1>3 DEF get_hwaddr_timeout_callback, IInv, Pending
  <2>2. RequestHwaddr
    BY <1>3 DEF get_hwaddr_timeout_callback
  <2> QED
    BY <2>1, <2>2, RequestFacts DEF IInv, Pending, WaitsWithRetry
<1>4. CASE user_loop
  <2>1. CASE wifi_status = WIFI_NOT_HWADDR /\ RequestHwaddr /\ wifi_status' = WIFI_FREE
    BY <2>1, RequestFacts DEF IInv, Pending, WaitsWithRetry
  <2>2. ASSUME UNCHANGED <<gs_wlan_api_status, timer>>,
               wifi_status \in 1 .. 4, wifi_status' = wifi_status + 1,
               fails' \in {fails, fails + 1}
        PROVE Goal
    BY <2>2 DEF IInv, Pending, WaitsWithRetry
  <2>3. CASE /\ wifi_status = WIFI_GOT_HWADDR /\ wlan_api_connect
             /\ wifi_status' = WIFI_CONNECTED
             /\ UNCHANGED <<gs_wlan_api_status, timer>>
    BY <2>2, <2>3 DEF wlan_api_connect, MallocFails
  <2>4. CASE /\ wifi_status = WIFI_CONNECTED /\ wifi_status' = WIFI_DHCP_NOT_IP
             /\ UNCHANGED <<gs_wlan_api_status, timer, fails>>
    BY <2>2, <2>4
  <2>5. CASE /\ wifi_status = WIFI_DHCP_NOT_IP
             /\ wifi_status' = IF bound THEN WIFI_DHCP_GOT_IP ELSE wifi_status
             /\ UNCHANGED <<gs_wlan_api_status, timer, fails>>
    BY <1>1, <2>2, <2>5 DEF hostVars
  <2>6. CASE /\ wifi_status = WIFI_DHCP_GOT_IP /\ wifi_status' = WIFI_RUNING
             /\ UNCHANGED <<gs_wlan_api_status, timer, fails>>
    BY <2>2, <2>6
  <2>7. CASE UNCHANGED <<wifi_status, gs_wlan_api_status, timer, fails>>
    BY <1>1, <2>7 DEF hostVars
  <2> QED
    BY <1>4, <2>1, <2>3, <2>4, <2>5, <2>6, <2>7 DEF user_loop
<1>5. CASE NetifInput \/ NothingQueued \/ TimersDone
  BY <1>1, <1>5 DEF hostVars, NetifInput, NothingQueued, TimersDone
<1>6. CASE wlan_api_pack_proc \/ from_ap_input \/ SerialRead
  BY <1>1, <1>6 DEF hostVars, loopVars, wlan_api_pack_proc, from_ap_input, SerialRead
<1>7. CASE UNCHANGED vars
  BY <1>1, <1>7 DEF hostVars, loopVars, vars
<1> QED
  BY <1>2, <1>3, <1>4, <1>5, <1>6, <1>7 DEF Next, MainStep

(***************************************************************************)
(* user_loop waits for the address exactly while the retry timer is on and *)
(* the answer is accepted, as long as no malloc has failed.                *)
(***************************************************************************)
THEOREM RetryWhileWaiting == Spec => []WaitsWithRetry
<1>1. IInv => WaitsWithRetry
  BY DEF IInv
<1>2. IInv /\ [Next]_vars => IInv'
  BY StepIInv
<1> QED
  BY InitIInv, <1>1, <1>2, PTL DEF Spec

(***************************************************************************)
(* No late or repeated answer and no timer takes user_loop back to an      *)
(* earlier state of the bring-up, failed allocations included.             *)
(***************************************************************************)
THEOREM BringUpMovesForward == Spec => NeverStartsOver
<1>1. IInv /\ [Next]_vars => IInv'
  BY StepIInv
<1>2. IInv /\ [Next]_vars => [Stage(wifi_status') >= Stage(wifi_status)]_vars
  BY StepIInv
<1> QED
  BY InitIInv, <1>1, <1>2, PTL DEF Spec, NeverStartsOver
=============================================================================
