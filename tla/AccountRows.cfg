CONSTANTS
    NoRow = NoRow
    MaxLag = 1
    MaxEvents = 4
    MaxRebuilds = 1
    MaxFaults = 1

SPECIFICATION Spec

INVARIANTS
    TypeOK
    RowIsCurrent

PROPERTIES
    RowLagsConsistently
    VersionsMoveForward
    RowCatchesUp

CHECK_DEADLOCK FALSE
