----------------------------- MODULE MCDeviceTx -----------------------------
(* Three packets from each side, frames of three characters.               *)
EXTENDS DeviceTx
=============================================================================
