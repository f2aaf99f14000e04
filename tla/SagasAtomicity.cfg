CONSTANTS
    ann = ann
    bob = bob
    t1 = t1
    t2 = t2
    here = here
    NoLimit = NoLimit
    NoRow = NoRow
    Accounts <- MCAccounts
    Regions <- MCRegions
    MinBalance <- MCMin
    MaxBalance <- MCMax
    LowWater = 1
    Transactions <- MCOne
    KindsOf <- MCTransfer
    Source <- MCSource
    Dest <- MCDest
    Amount <- MCAmount
    Here = here
    Funds <- MCFunds
    MaxLag = 0
    MaxFaults = 1
    MaxCrashes = 0
    MaxStatus <- MCStatus

SPECIFICATION Spec

INVARIANT TransfersAreAtomic

CHECK_DEADLOCK FALSE
