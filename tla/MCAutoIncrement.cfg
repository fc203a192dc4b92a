SPECIFICATION Spec
CONSTANTS
  s1 = s1
  s2 = s2
  Session = {s1, s2}
  NoOne = NoOne
  MaxVal = 3
  LogVals = 1
  MaxWal = 4
  MaxStmts = 3
  MaxCrashes = 1
INVARIANTS TypeOK RecoveryKeepsValues
PROPERTY GivesFreshValue
SYMMETRY MCSymmetry
CHECK_DEADLOCK FALSE
