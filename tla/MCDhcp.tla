------------------------------- MODULE MCDhcp -------------------------------
(***************************************************************************)
(* Time in half minutes: a coarse tick is two.  Leases: of five ticks, of  *)
(* less than one, too long for 16 bits, and unlimited but with a T1 and T2 *)
(* that end; an acknowledgement may also leave the lease out.              *)
(***************************************************************************)
EXTENDS Dhcp

Default(t) == [t0 |-> t, t1 |-> Absent, t2 |-> Absent]
MCLease == {Default(10), Default(1), Default(40), Default(Absent),
            [t0 |-> Forever, t1 |-> 2, t2 |-> 6]}
=============================================================================
