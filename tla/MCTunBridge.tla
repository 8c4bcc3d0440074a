---------------------------- MODULE MCTunBridge -----------------------------
(* Two packets a read and three in all, so that the buffer is filled a     *)
(* second time and partly.                                                 *)
EXTENDS TunBridge
=============================================================================
