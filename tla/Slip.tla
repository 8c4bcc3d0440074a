-------------------------------- MODULE Slip --------------------------------
(***************************************************************************)
(* The SLIP codec of slip.c, the same file in the firmware and in both     *)
(* host programs.  A line character is a record whose field c is the       *)
(* character; its other fields say where the character comes from and are  *)
(* never looked at by the codec.                                           *)
(***************************************************************************)
EXTENDS Integers, Sequences, FiniteSets

END     == 192     \* 0300
ESC     == 219     \* 0333
ESC_END == 220     \* 0334
ESC_ESC == 221     \* 0335

Char == 0 .. 255

\* The characters send_packet sends for the byte b of a packet.
Stuff(b) == CASE b = END -> <<ESC, ESC_END>>
              [] b = ESC -> <<ESC, ESC_ESC>>
              [] OTHER   -> <<b>>

(***************************************************************************)
(* The place in the frame of p where byte i begins: behind the first END,  *)
(* the bytes before it and their escapes.  Byte Len(p) + 1 is the last END.*)
(***************************************************************************)
Place(p, i) == i + 1 + Cardinality({j \in 1 .. i - 1 : p[j] \in {END, ESC}})

\* The byte of p that the character at place n belongs to.
ByteAt(p, n) == CHOOSE i \in DOMAIN p : Place(p, i) <= n /\ n < Place(p, i + 1)

\* What send_packet sends for the packet p.
Frame(p) ==
  LET last == Place(p, Len(p) + 1)
  IN  [n \in 1 .. last |->
         IF n \in {1, last} THEN END
         ELSE LET i == ByteAt(p, n) IN Stuff(p[i])[n - Place(p, i) + 1]]
-----------------------------------------------------------------------------
(***************************************************************************)
(* recv_packet between two calls of recv_char: buf is what it has stored   *)
(* so far and esc says that the last character was an ESC.                 *)
(***************************************************************************)
Receiving(buf, esc) == [buf |-> buf, esc |-> esc]
Idle == Receiving(<< >>, FALSE)

\* Variant: a stuffed ESC is not recognised.
UnstuffMutant(c) == IF c = ESC_END THEN END ELSE c

Unstuff(c) == CASE c = ESC_END -> END
                [] c = ESC_ESC -> ESC
                [] OTHER       -> c

\* Variants: no check of the buffer's end; an escape that is never left.
StoreMutant(r, x, len) == Receiving(Append(r.buf, x), FALSE)
StoreEscMutant(r, x, len) ==
  Receiving(IF Len(r.buf) < len THEN Append(r.buf, x) ELSE r.buf, r.esc)

\* A character beyond the caller's buffer of len bytes is thrown away.
Store(r, x, len) ==
  Receiving(IF Len(r.buf) < len THEN Append(r.buf, x) ELSE r.buf, FALSE)

\* recv_packet returns r.buf to its caller when the character x arrives.
Completes(r, x) == ~r.esc /\ x.c = END /\ r.buf # << >>

\* Variant: received is not reset for the next packet.
ReceivedMutant(r, x, len) ==
  CASE r.esc            -> Store(r, [x EXCEPT !.c = Unstuff(x.c)], len)
    [] ~r.esc /\ x.c = ESC -> Receiving(r.buf, TRUE)
    [] ~r.esc /\ x.c = END -> r
    [] OTHER            -> Store(r, x, len)

\* The state of recv_packet after the character x.
Received(r, x, len) ==
  CASE r.esc            -> Store(r, [x EXCEPT !.c = Unstuff(x.c)], len)
    [] ~r.esc /\ x.c = ESC -> Receiving(r.buf, TRUE)
    [] ~r.esc /\ x.c = END -> Idle
    [] OTHER            -> Store(r, x, len)
=============================================================================
