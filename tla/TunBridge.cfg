SPECIFICATION Spec
CONSTANTS
  MaxRx = 3
  VMin = 1
  BufLen = 2
  PtrMod = 4
INVARIANTS InOrderOnce OneMoreAfterStop JoinsRealThread TunFdAlive
PROPERTY StopsOrStuckInRecv
CHECK_DEADLOCK FALSE
