SPECIFICATION Spec
CONSTANTS
  MYS_MAX_PACKET_LENGTH = 16
  Len1 = 2
  Len2 = 5
  Len3 = 16
  SizeT = 1024
  PayloadBufSize = 12
  MaxAllocSize = 36
  Null = Null
  Columns <- MCColumns
  MaxCols = 3
INVARIANT FramedBinary
CHECK_DEADLOCK FALSE
