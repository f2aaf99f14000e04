CONSTANTS
    p1 = p1
    p2 = p2
    east = east
    west = west
    None = None
    Processes <- MCProcesses
    Regions <- MCRegions
    RegionOf <- MCRegionOf
    acc = acc
    tx = tx
    Aggregates <- MCAggregates
    Times = {1, 2}
    MaxEvents = 3
    MaxCounter = 2
    MaxRestarts = 1

SYMMETRY MCSymmetry

SPECIFICATION Spec

INVARIANTS
    TypeOK
    CausesPrecede
    NoInventedTime

PROPERTY ClocksMoveForward

CHECK_DEADLOCK FALSE
