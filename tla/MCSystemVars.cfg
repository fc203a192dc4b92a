SPECIFICATION FairSpec
CONSTANTS
    Session = {p1, p2}
    Vars <- MCVars
    Row <- MCRow
    Late = {"g", "s"}
    Switch = {"s"}
    Checked = {"w"}
    NoDefault = {"r"}
    Listed = {"g"}
    NoLookup = {"g"}
    Values = {0, 1, 2}
    Empty = 2
    BaseValue = 0
    Statements <- MCStatements
    MaxCommands = 3
CHECK_DEADLOCK FALSE
INVARIANT TypeOK
INVARIANT LockHasOneHolder
INVARIANT ReadsWhole
INVARIANT CopyCurrent
PROPERTY EveryStatementEnds
CONSTRAINT MCBound
