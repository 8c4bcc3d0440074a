------------------------------- MODULE SqQueue -------------------------------
(***************************************************************************)
(* The ring of queue.c (ethoslip_lwip): base is an array of MAX_QSIZE C    *)
(* ints, front the oldest element, rear the slot after the newest one.     *)
(* One slot stays unused, so that front = rear means empty.                *)
(*                                                                         *)
(* The ring stores the pbuf pointers of its callers as C ints.  A pointer  *)
(* is a number below PTR_SPAN (2^pointer width), an int has INT_SPAN       *)
(* values: both spans are 2^32 in the 32-bit build the repository ships.   *)
(***************************************************************************)
EXTENDS Integers, Sequences

CONSTANTS MAX_QSIZE,   \* slots of the ring
          Ptr,         \* the non-null pointers the program queues
          INT_SPAN,    \* number of values of a C int
          PTR_SPAN,    \* number of values of a pointer
          Junk         \* what malloc may leave in a slot

Slot == 0 .. MAX_QSIZE - 1
IntVal == -(INT_SPAN \div 2) .. (INT_SPAN \div 2) - 1

ASSUME QueueAssumption ==
  /\ MAX_QSIZE \in Nat \ {0}
  /\ INT_SPAN \in Nat \ {0} /\ INT_SPAN % 2 = 0
  /\ PTR_SPAN \in Nat \ {0}
  /\ Ptr \subseteq 1 .. PTR_SPAN - 1
  /\ Junk # {} /\ Junk \subseteq IntVal

NULL == 0

VARIABLES live,    \* base # NULL: malloc has succeeded and free was not called
          base, front, rear,
          ret      \* what the last call returned

queueVars == <<live, base, front, rear, ret>>

Ret(op, val) == [op |-> op, val |-> val]

(***************************************************************************)
(* The casts (int)p and (void * )e: a pointer keeps its low bits and is    *)
(* read as a signed int; an int is sign-extended back to a pointer.        *)
(***************************************************************************)
ToInt(p) == LET low == p % INT_SPAN
            IN  IF low < INT_SPAN \div 2 THEN low ELSE low - INT_SPAN

ToPtr(e) == e % PTR_SPAN

\* Variant: the test for a full ring forgets that the ring turns.
QFullMutant == rear + 1 = front

QFull == (rear + 1) % MAX_QSIZE = front
QEmpty == front = rear
QLength == (rear - front + MAX_QSIZE) % MAX_QSIZE
-----------------------------------------------------------------------------
(***************************************************************************)
(* Q_Init: the array malloc returns holds anything; when malloc fails the  *)
(* fields are left alone and the queue cannot be used.                     *)
(***************************************************************************)
Q_Init == /\ ~live
          /\ live' = TRUE
          /\ base' \in [Slot -> Junk]
          /\ front' = 0 /\ rear' = 0
          /\ ret' = Ret("void", NULL)

Q_Destroy == /\ live
             /\ live' = FALSE
             /\ front' = 0 /\ rear' = 0
             /\ ret' = Ret("void", NULL)
             /\ UNCHANGED base

Q_Clear == /\ live
           /\ front' = 0 /\ rear' = 0
           /\ ret' = Ret("void", NULL)
           /\ UNCHANGED <<live, base>>

Q_Put(e) == /\ ~QFull
            /\ base' = [base EXCEPT ![rear] = e]
            /\ rear' = (rear + 1) % MAX_QSIZE
            /\ UNCHANGED front

queue_try_put(p) ==
  /\ live
  /\ \/ Q_Put(ToInt(p)) /\ ret' = Ret("put", 1)
     \/ QFull /\ UNCHANGED <<base, front, rear>> /\ ret' = Ret("put", 0)
  /\ UNCHANGED live

Q_Poll == /\ ~QEmpty
          /\ front' = (front + 1) % MAX_QSIZE
          /\ UNCHANGED <<base, rear>>

queue_try_get ==
  /\ live
  /\ \/ Q_Poll /\ ret' = Ret("get", ToPtr(base[front]))
     \/ QEmpty /\ UNCHANGED <<base, front, rear>> /\ ret' = Ret("get", NULL)
  /\ UNCHANGED live

Q_Length == /\ live
            /\ ret' = Ret("length", QLength)
            /\ UNCHANGED <<live, base, front, rear>>

Q_Empty == /\ live
           /\ ret' = Ret("empty", IF QEmpty THEN 1 ELSE -1)
           /\ UNCHANGED <<live, base, front, rear>>

QueueInit == /\ live = FALSE
             /\ base \in [Slot -> Junk]
             /\ front = 0 /\ rear = 0
             /\ ret = Ret("none", NULL)

QueueNext == \/ Q_Init \/ Q_Destroy \/ Q_Clear
             \/ \E p \in Ptr : queue_try_put(p)
             \/ queue_try_get \/ Q_Length \/ Q_Empty

QueueSpec == QueueInit /\ [][QueueNext]_queueVars
-----------------------------------------------------------------------------
\* The queued pointers, oldest first: the slots from front up to rear.
Contents == [i \in 1 .. QLength |-> ToPtr(base[(front + i - 1) % MAX_QSIZE])]

Fifo == INSTANCE BoundedFifo WITH items <- Contents, Capacity <- MAX_QSIZE - 1

(***************************************************************************)
(* front and rear stay inside the array and the array holds C ints.        *)
(***************************************************************************)
QueueTypeOK ==
  /\ live \in BOOLEAN
  /\ base \in [Slot -> IntVal]
  /\ front \in Slot /\ rear \in Slot
  /\ ret \in [op : {"none", "void", "put", "get", "length", "empty"}, val : Int]

(***************************************************************************)
(* queue.c is a first-in first-out queue of MAX_QSIZE - 1 pointers (the    *)
(* "MAX_QSIZE = largest length + 1" of queue.h): every call changes the    *)
(* queue and returns what the abstract queue does, across any number of    *)
(* turns of the ring.                                                      *)
(***************************************************************************)
FifoSpec == Fifo!Spec
=============================================================================
