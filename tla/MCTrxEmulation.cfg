SPECIFICATION Spec
CONSTANTS
    MaxStmts = 2
INVARIANTS
    TypeOK
    NeverBothAnswers
    AnsweredUnlessStale
    StatusTracksBlock
    NewTrxOnlyWithAutocommitOff
    AutocommitOffProtected
    AutoRollbackRecovers
    RollbackOnlyOfAborted
CHECK_DEADLOCK FALSE
VIEW MCView
