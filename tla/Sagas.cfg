CONSTANTS
    ann = ann
    bob = bob
    t1 = t1
    t2 = t2
    here = here
    NoLimit = NoLimit
    NoRow = NoRow
    Accounts <- MCAccounts
    Regions <- MCRegions
    MinBalance <- MCMin
    MaxBalance <- MCMax
    LowWater = 1
    Transactions <- MCTransactions
    KindsOf <- MCKinds
    Source <- MCSource
    Dest <- MCDest
    Amount <- MCAmount
    Here = here
    Funds <- MCFunds
    MaxLag = 1
    MaxFaults = 1
    MaxCrashes = 1
    MaxStatus <- MCStatus

SPECIFICATION Spec

INVARIANTS
    TypeOK
    OutcomesAreEarned
    AccountsMatchTransactions
    
    MissingMoneyIsListed
    CompletedRowIsCompletedTransaction

PROPERTIES
    MoneyIsEscrowed
    TerminalIsFinal
    EndsUnlessEscaped

CHECK_DEADLOCK FALSE
