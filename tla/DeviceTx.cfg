SPECIFICATION TxSpec
CONSTANTS
  SlipPrio = 8
  RxPrio = 9
  FrameLen = 3
  PoolSize = 2
  MaxIn = 3
INVARIANTS FramesContiguous NoPbufLeak
CHECK_DEADLOCK FALSE
