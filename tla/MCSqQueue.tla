------------------------------ MODULE MCSqQueue ------------------------------
(* Instances of the ring: four slots, so that it turns several times, and  *)
(* three pointers, one of them in the upper half of the address space,     *)
(* whose (int) cast is negative.                                           *)
EXTENDS SqQueue

MCPtr32 == {1, 3, 7}
MCJunk == {-1, 2}
=============================================================================
