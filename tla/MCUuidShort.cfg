SPECIFICATION UuidSpec
CONSTANTS
  Backends = {b1, b2, b3}
  Base = 5
  MaxIssue = 5
SYMMETRY BackendSymmetry
INVARIANTS UuidTypeOK UuidMutexUnlessOverlap UuidSequentialUnlessOverlap
CHECK_DEADLOCK FALSE
