SPECIFICATION Spec
CONSTANTS
    MaxStmts = 2
INVARIANTS
    EveryCommandAnswered
CHECK_DEADLOCK FALSE
