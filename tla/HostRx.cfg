SPECIFICATION Spec
CONSTANTS
  SYS_LIGHTWEIGHT_PROT = 0
  PBUF_POOL_SIZE = 4
  QueueMax = 2
  MaxChain = 2
  MaxFrames = 3
INVARIANTS PbufsUntilRace FramesUntilRace
PROPERTY QueuedIsHandled
