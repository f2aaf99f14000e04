CONSTANTS
    acc = acc
    home = home
    remote = remote
    NoLimit = NoLimit
    Idle = Idle
    Accounts <- MCAccounts
    Regions <- MCRegions
    MinBalance <- MCMin
    MaxBalance <- MCMax
    LowWater = 1
    Handlers = {h1, h2}
    Amounts = {1, 2}
    MaxEvents = 5

SYMMETRY MCSymmetry

SPECIFICATION Spec

INVARIANT NoDoubleSpend

CHECK_DEADLOCK FALSE
