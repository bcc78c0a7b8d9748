SPECIFICATION RadioSpec
CONSTANTS
  Bytes <- MCLong
  MaxData = 2
  MaxFrame = 6
  Overhead = 2
  SizeCount = 8
  IdCount = 2
  Burst = 2
  MaxReceive = 3
  MaxLost = 0
INVARIANT FullMessageSize
CHECK_DEADLOCK FALSE
