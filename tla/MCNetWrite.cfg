SPECIFICATION FairSpec
CONSTANTS
  WBuffSize = 7
  SINGLE_PACKET_MAX_PAYLOAD_LENGTH = 4
  Header = 2
  Room = 4
  Pieces = {0, 1, 2}
  Copies = {0, 1, 3, 4, 9}
  MaxAnswer = 16
INVARIANTS TypeOK
PROPERTIES ImplementsStream CatchesUp
CHECK_DEADLOCK FALSE
