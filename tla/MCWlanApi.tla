----------------------------- MODULE MCWlanApi ------------------------------
(* read() waits for two frames, so a single answer is never read: it takes *)
(* a retry or a data frame.                                                *)
EXTENDS WlanApi
=============================================================================
