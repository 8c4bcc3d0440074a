---------------------------- MODULE MCSoftTimer -----------------------------
(* Two timers; clock() wraps every six ticks.                            *)
EXTENDS SoftTimer

MCTimeout == [t \in Timer |-> IF t = 0 THEN 2 ELSE 3]
=============================================================================
