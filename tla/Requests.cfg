CONSTANTS
    ann = ann
    bob = bob
    t1 = t1
    t2 = t2
    k1 = k1
    k2 = k2
    eur = eur
    NoRow = NoRow
    Transactions <- MCTransactions
    Forms <- MCForms
    Accounts <- MCAccounts
    Currency <- MCCurrency
    AccountRows <- MCAccountRows
    MaxLag = 1
    MaxRebuilds = 1
    MaxFaults = 1

SPECIFICATION Spec

INVARIANTS
    TypeOK
    
    RetriesAreRefused
    RowsAreCurrent

PROPERTIES
    RowsMoveForward
    PollersSeeTheEnd

CHECK_DEADLOCK FALSE
