CONSTANTS
    ann = ann
    bob = bob
    t1 = t1
    t2 = t2
    k1 = k1
    k2 = k2
    eur = eur
    NoRow = NoRow
    Transactions <- MCTransactions
    Forms <- MCRetry
    Accounts <- MCAccounts
    Currency <- MCCurrency
    AccountRows <- MCAccountRows
    MaxLag = 1
    MaxRebuilds = 0
    MaxFaults = 0

SPECIFICATION Spec

INVARIANT OneTransactionPerKey

CHECK_DEADLOCK FALSE
