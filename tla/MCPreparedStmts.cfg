SPECIFICATION Spec
CONSTANTS
  PRE_STMT_NUM_MAX = 3
  Plain = {p, q, r}
  Text <- MCText
  ReadOffsets = {1, 6}
  remainOffset = 1
  PrefixLen = 3
  Columns <- MCColumns
  Types = {t1, t2}
  p = p
  q = q
  r = r
  t1 = t1
  t2 = t2
  NoStmt = NoStmt
  Garbled = Garbled
  NoTypes = NoTypes
  MaxColumns = 2
INVARIANTS TypeOK ExecutesWhatWasPrepared DecodedAsBound
SYMMETRY MCSymmetry
CONSTRAINT MCNotFull
