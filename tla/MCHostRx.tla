------------------------------ MODULE MCHostRx ------------------------------
(* Four pbufs, frames of one or two of them and a queue of two chains:     *)
(* both the pool and the queue run full, and frames wait behind others.    *)
EXTENDS HostRx
=============================================================================
