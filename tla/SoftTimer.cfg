SPECIFICATION Spec
CONSTANTS
  MAX_TIMER = 2
  Timeout <- MCTimeout
  Half = 3
  MaxLag = 1
INVARIANTS OnWhileArmed NeverLate
PROPERTIES NeverEarly EventuallyCalled
