----------------------------- MODULE BoundedFifo -----------------------------
(***************************************************************************)
(* What the packet queue between the SLIP receive thread and the main loop *)
(* promises: a first-in first-out queue of at most Capacity pointers.      *)
(* ret is the value the last call returned to its caller.                  *)
(***************************************************************************)
EXTENDS Integers, Sequences

CONSTANTS Ptr,       \* the non-null pointers callers put into the queue
          Capacity   \* most pointers the queue holds

NULL == 0

VARIABLES items, ret

vars == <<items, ret>>

Ret(op, val) == [op |-> op, val |-> val]

Init == items = << >> /\ ret = Ret("none", NULL)

Put(p) == IF Len(items) < Capacity
          THEN items' = Append(items, p) /\ ret' = Ret("put", 1)
          ELSE UNCHANGED items /\ ret' = Ret("put", 0)

Get == IF items # << >>
       THEN items' = Tail(items) /\ ret' = Ret("get", Head(items))
       ELSE UNCHANGED items /\ ret' = Ret("get", NULL)

Length == UNCHANGED items /\ ret' = Ret("length", Len(items))

Empty == UNCHANGED items /\ ret' = Ret("empty", IF items = << >> THEN 1 ELSE -1)

\* Emptying, creating and destroying a queue return nothing.
Clear == items' = << >> /\ ret' = Ret("void", NULL)

Next == (\E p \in Ptr : Put(p)) \/ Get \/ Length \/ Empty \/ Clear

Spec == Init /\ [][Next]_vars
=============================================================================
