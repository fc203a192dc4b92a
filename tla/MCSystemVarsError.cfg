SPECIFICATION Spec
CONSTANTS
    Session = {p1, p2}
    Vars <- MCVars
    Row <- MCRow
    Late = {}
    Switch = {"s"}
    Checked = {}
    NoDefault = {"r"}
    Listed = {"g"}
    NoLookup = {"g"}
    Values = {0, 1, 2}
    Empty = 2
    BaseValue = 0
    Statements <- MCStatements
    MaxCommands = 3
CHECK_DEADLOCK FALSE
INVARIANT TakenIsHeld
