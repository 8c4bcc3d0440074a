------------------------------- MODULE Codec --------------------------------
(***************************************************************************)
(* What happens to the bytes of one frame between the network interface of *)
(* ethoslip_lwip and the UDP tunnel of the firmware: a chain of pbufs is   *)
(* copied into one buffer, gets its checksum, crosses the line, which may  *)
(* damage it, is checked, and is combined with the key.  The firmware also *)
(* combines frames with the key where they lie, in a chain.                *)
(*                                                                         *)
(* Of a long frame only the last bytes are kept; those in front, which no  *)
(* step touches, are known by their sum.                                   *)
(***************************************************************************)
EXTENDS Checksum, Sequences, SequencesExt

CONSTANTS Bytes,      \* values of bytes
          MaxLen,     \* longest frame
          MaxPbufs,   \* longest chain
          FrontSums,  \* sums of the bytes in front
          KeySize     \* BUF_SIZE, the length of the key

ASSUME CodecAssumption == /\ Bytes \subseteq Byte /\ FrontSums \subseteq Nat
                          /\ MaxLen \in Nat /\ KeySize \in Nat /\ MaxLen <= KeySize
                          /\ MaxPbufs \in Nat

VARIABLES stage,
          chain,    \* the frame, as the stack hands it over
          front,    \* sum of the bytes in front of it
          buf,      \* the packet, in the sender's buffer, then the receiver's
          damage,   \* what the line did to it
          len,      \* result of if_api_check
          tunnelled \* what goes out through the tunnel

codecVars == <<stage, chain, front, buf, damage, len, tunnelled>>

NoDamage == [kind |-> "none", at |-> 0, delta |-> 0]
-----------------------------------------------------------------------------
\* sums[i] is the sum when the loop has added i bytes.
SumsFrom(base, s) ==
  LET sums[i \in 0 .. Len(s)] == IF i = 0 THEN base ELSE sums[i - 1] + s[i]
  IN  sums

SumOf(s) == SumsFrom(front, s)[Len(s)]

if_api_calculate_checksum(s) == s \o <<High(SumOf(s)), Low(SumOf(s))>>

\* The number of bytes in front of a correct checksum, or -1.
if_api_check(s) ==
  LET n == Len(s) - 2
      data == SubSeq(s, 1, n)
  IN  IF n >= 0 /\ s = if_api_calculate_checksum(data) THEN n ELSE -1

\* ^ of two bytes, bit by bit.
ByteXor(a, b) ==
  LET bit(w) == w * ((a \div w + b \div w) % 2)
  IN  bit(1) + bit(2) + bit(4) + bit(8) + bit(16) + bit(32) + bit(64) + bit(128)

\* (unsigned char)(i*i + 128)
key == [i \in 0 .. KeySize - 1 |-> (i * i + 128) % 256]

\* The end of the key serves for a frame that is shorter.
key_xor(s) == [i \in DOMAIN s |-> ByteXor(s[i], key[KeySize - Len(s) + i - 1])]

\* Variant: each pbuf starts at the same place of the key.
sbufMutant(c) ==
  LET j == KeySize - Len(FlattenSeq(c))
  IN  [p \in DOMAIN c |-> [k \in DOMAIN c[p] |-> ByteXor(c[p][k], key[j + k - 1])]]

\* j runs on from one pbuf of the chain to the next.
sbuf_key_xor(c) ==
  LET j(p) == KeySize - Len(FlattenSeq(c)) + Len(FlattenSeq(SubSeq(c, 1, p - 1)))
  IN  [p \in DOMAIN c |-> [k \in DOMAIN c[p] |-> ByteXor(c[p][k], key[j(p) + k - 1])]]
-----------------------------------------------------------------------------
\* Variant: the first pbuf only.
outputMutant ==
  /\ stage = "output"
  /\ stage' = "line"
  /\ buf' = if_api_calculate_checksum(Head(chain))
  /\ UNCHANGED <<chain, front, damage, len, tunnelled>>

ethoslipif_low_level_output ==
  /\ stage = "output"
  /\ stage' = "line"
  /\ buf' = if_api_calculate_checksum(FlattenSeq(chain))
  /\ UNCHANGED <<chain, front, damage, len, tunnelled>>

\* The line changes a byte, exchanges two, loses the last ones, or does nothing.
Transfer ==
  /\ stage = "line"
  /\ stage' = "check"
  /\ \/ UNCHANGED <<buf, damage>>
     \/ \E k \in DOMAIN buf : \E b \in Bytes \ {buf[k]} :
          /\ buf' = [buf EXCEPT ![k] = b]
          /\ damage' = [kind |-> "change", at |-> k, delta |-> b - buf[k]]
     \/ \E k \in 1 .. Len(buf) - 1 :
          /\ buf[k] # buf[k + 1]
          /\ buf' = [buf EXCEPT ![k] = buf[k + 1], ![k + 1] = buf[k]]
          /\ damage' = [kind |-> "exchange", at |-> k, delta |-> 0]
     \/ \E k \in 0 .. Len(buf) - 1 :
          /\ front = 0
          /\ buf' = SubSeq(buf, 1, k)
          /\ damage' = [kind |-> "cut", at |-> k, delta |-> 0]
  /\ UNCHANGED <<chain, front, len, tunnelled>>

Check ==
  /\ stage = "check"
  /\ len' = if_api_check(buf)
  /\ stage' = IF len' >= 0 THEN "accepted" ELSE "rejected"
  /\ UNCHANGED <<chain, front, buf, damage, tunnelled>>

\* slip2ip_task_proc of the build with the tunnel.
Tunnel ==
  /\ stage = "accepted"
  /\ stage' = "tunnelled"
  /\ tunnelled' = key_xor(SubSeq(buf, 1, len))
  /\ UNCHANGED <<chain, front, buf, damage, len>>

\* A frame cut into a chain of pbufs, empty ones too.
CodecInit ==
  /\ stage = "output"
  /\ \E s \in BoundedSeq(Bytes, MaxLen), n \in 1 .. MaxPbufs :
     \E cuts \in [0 .. n -> 0 .. Len(s)] :
       /\ cuts[0] = 0 /\ cuts[n] = Len(s)
       /\ \A p \in 1 .. n : cuts[p - 1] <= cuts[p]
       /\ chain = [p \in 1 .. n |-> SubSeq(s, cuts[p - 1] + 1, cuts[p])]
  /\ front \in FrontSums
  /\ buf = << >> /\ damage = NoDamage /\ len = 0 /\ tunnelled = << >>

CodecNext == ethoslipif_low_level_output \/ Transfer \/ Check \/ Tunnel

CodecSpec == CodecInit /\ [][CodecNext]_codecVars
-----------------------------------------------------------------------------
CodecTypeOK ==
  /\ stage \in {"output", "line", "check", "accepted", "rejected", "tunnelled"}
  /\ chain \in Seq(Seq(Byte)) /\ front \in Nat
  /\ buf \in Seq(Byte) /\ Len(buf) <= MaxLen + 2
  /\ damage \in [kind : {"none", "change", "exchange", "cut"}, at : Nat, delta : Int]
  /\ len \in -1 .. MaxLen /\ tunnelled \in Seq(Byte)

(***************************************************************************)
(* A frame that the line leaves alone is accepted, and it is the frame     *)
(* that the stack handed over, checksum removed.                           *)
(***************************************************************************)
IntactAccepted ==
  damage = NoDamage
    => /\ stage # "rejected"
       /\ stage = "accepted" => SubSeq(buf, 1, len) = FlattenSeq(chain)

(***************************************************************************)
(* One changed byte is noticed wherever it lies, unless it is a byte of    *)
(* the frame that changed by exactly 128: bit 7 of the sum is not sent.    *)
(***************************************************************************)
ChangeCaught ==
  stage = "accepted" /\ damage.kind = "change"
    => damage.at <= len /\ damage.delta \in {-128, 128}

(***************************************************************************)
(* Combining a chain with the key where it lies gives what combining the   *)
(* copied frame gives, and the other end gets the frame back by doing the  *)
(* same once more.                                                         *)
(***************************************************************************)
TunnelAgrees ==
  stage = "tunnelled" /\ damage = NoDamage
    => /\ tunnelled = FlattenSeq(sbuf_key_xor(chain))
       /\ key_xor(tunnelled) = FlattenSeq(chain)
=============================================================================
