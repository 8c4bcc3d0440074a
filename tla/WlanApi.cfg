SPECIFICATION Spec
CONSTANTS
  VMin = 2
  CanLose <- Frame
  MaxLoss = 2
  MaxFails = 1
  MaxInFlight = 3
  MaxQueued = 4
INVARIANT WaitsWithRetry
PROPERTIES NeverStartsOver GetsHwaddr
