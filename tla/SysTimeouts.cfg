SPECIFICATION Spec
CONSTANTS
  Mod = 32
  ClockMax = 4
  Cyclic = {"arp", "dhcp"}
  Interval <- MCInterval
  PoolSize = 4
  MaxLag = 4
INVARIANTS NeverEarly Sorted EachTimerOnce
PROPERTIES CheckEnds AllServed
