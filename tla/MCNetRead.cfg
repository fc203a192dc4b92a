SPECIFICATION FairSpec
CONSTANTS
  SINGLE_PACKET_MAX_PAYLOAD_LENGTH = 2
  max_allowed_packet = 5
  MaxAllocSize = 6
  Offset = 1
  SeqIds = 4
  Lens <- MCLens
  MaxReply = 6
  MaxWire = 3
INVARIANTS TypeOK WholeCommands AnswerInSequence
PROPERTIES RefusedOnlyTooLong SessionEnds
CHECK_DEADLOCK FALSE
