------------------------------ MODULE Checksum ------------------------------
(***************************************************************************)
(* The checksum at the end of every packet on the serial line.  The three  *)
(* copies of if_api_calculate_checksum and if_api_check, in the firmware,  *)
(* in ethoslip_lwip and in ethoslip_tun, are identical.                    *)
(***************************************************************************)
EXTENDS Integers

Byte == 0 .. 255

\* (sum % 65536) ^ 0xffff
Complement(sum) == 65535 - (sum % 65536)

\* (sum & 0x7f00) >> 8 and sum & 0x7f: bits 7 and 15 are thrown away.
High(sum) == (Complement(sum) \div 256) % 128

\* Variant: one bit less.
LowMutant(sum) == Complement(sum) % 64

Low(sum) == Complement(sum) % 128
=============================================================================
