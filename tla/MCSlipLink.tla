----------------------------- MODULE MCSlipLink -----------------------------
(* Packets end in a checksum byte below 0x80 and hold the two bytes that   *)
(* need stuffing.  The line adds one character of each kind the codec      *)
(* tells apart.                                                            *)
EXTENDS SlipLink, SequencesExt

MCPacket == {<<END, 65>>, <<ESC, 66>>, <<7, END, 67>>}
MCNoise == {END, ESC, 7}

\* The frame is what the loop of send_packet makes byte by byte.
Loop(p) == <<END>> \o FlattenSeq([i \in DOMAIN p |-> Stuff(p[i])]) \o <<END>>

ASSUME FrameIsLoop ==
  \A len \in 0 .. 4 : \A p \in [1 .. len -> {END, ESC, ESC_END, 7}] : Frame(p) = Loop(p)
=============================================================================
