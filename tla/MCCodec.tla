------------------------------ MODULE MCCodec -------------------------------
(* Bytes and sums at the ends of their ranges: with these the sum crosses  *)
(* each bit of the checksum, and 65536.                                    *)
EXTENDS Codec, Bitwise

\* ByteXor, written for the proofs, is the exclusive or of the library.
ASSUME XorIsExclusiveOr == \A a, b \in Byte : ByteXor(a, b) = a ^^ b

MCBytes == {0, 1, 64, 127, 128, 255}
MCFrontSums == {0, 127, 255, 32640, 65408, 65535}
=============================================================================
