CONSTANTS
    ann = ann
    bob = bob
    t1 = t1
    t2 = t2
    here = here
    NoLimit = NoLimit
    NoRow = NoRow
    Accounts <- MCAccounts
    Regions <- MCRegions
    MinBalance <- MCMin
    MaxBalance <- MCMax
    LowWater = 1
    Transactions <- MCOne
    KindsOf <- MCPayment
    Source <- MCSource
    Dest <- MCDest
    Amount <- MCAmount
    Here = here
    Funds <- MCFunds
    MaxLag = 0
    MaxFaults = 0
    MaxCrashes = 1
    MaxStatus <- MCStatus

SPECIFICATION Spec

PROPERTY EveryTransactionEnds

CHECK_DEADLOCK FALSE
