--------------------------- MODULE AccountLedgerMC ---------------------------
(* Small instances of AccountLedger for TLC. *)
EXTENDS AccountLedger, TLC

CONSTANTS acc, home, remote

MCAccounts == {acc}
MCRegions  == {home, remote}
MCMin      == [a \in MCAccounts |-> 1]
MCSymmetry == Permutations(Handlers)
MCMax      == [a \in MCAccounts |-> 3]

==============================================================================
