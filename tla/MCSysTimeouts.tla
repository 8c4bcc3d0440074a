--------------------------- MODULE MCSysTimeouts ----------------------------
(* A clock_t of 32 bits: the clock runs from -4 to 4, across the wrap of   *)
(* u32_t at 0, and then overflows, at any point of the timers' intervals;  *)
(* a handler may take longer than the shortest interval.                   *)
EXTENDS SysTimeouts

MCInterval == [i \in Timer |-> CASE i = "arp" -> 3 [] i = "dhcp" -> 2 [] OTHER -> 1]
=============================================================================
