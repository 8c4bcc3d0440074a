SPECIFICATION CodecSpec
CONSTANTS
  Bytes <- MCBytes
  MaxLen = 3
  MaxPbufs = 3
  FrontSums <- MCFrontSums
  KeySize = 16
INVARIANTS IntactAccepted ChangeCaught TunnelAgrees
CHECK_DEADLOCK FALSE
