SPECIFICATION Spec
CONSTANTS
  Packet <- MCPacket
  Noise <- MCNoise
  TX_MAX_NUM = 5
  RX_MAX_NUM = 2
  BUF_SIZE = 3
  MaxSent = 3
  MaxLine = 1
  MaxFault = 2
INVARIANTS TypeOK ResyncWithinOneFrame CleanLineInOrder
PROPERTY EventuallyDelivered
CHECK_DEADLOCK FALSE
