SPECIFICATION Spec
CONSTANTS
  MYS_MAX_PACKET_LENGTH = 16
  Len1 = 2
  Len2 = 5
  Len3 = 16
  Null = Null
  Lens <- MCLens
  MaxCols = 3
INVARIANTS TypeOK Framed Reassembles
CHECK_DEADLOCK FALSE
