SPECIFICATION Spec
CONSTANTS
  Addr = {a1}
  NoAddr = NoAddr
  Lease <- MCLease
  Absent = Absent
  TICK = 2
  U32 = 1024
  U16 = 6
  SelectTries = 1
  MaxTries = 2
  SlowTries = 2
  MaxFaults = 2
INVARIANTS NeverWaitsInVain WithinLease SuppliedHasAddress
PROPERTIES RenewsBeforeGivingUp GetsAddress
