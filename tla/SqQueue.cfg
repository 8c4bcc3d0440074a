SPECIFICATION QueueSpec
CONSTANTS
  MAX_QSIZE = 4
  Ptr <- MCPtr32
  INT_SPAN = 8
  PTR_SPAN = 8
  Junk <- MCJunk
PROPERTY FifoSpec
