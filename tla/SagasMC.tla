------------------------------- MODULE SagasMC -------------------------------
(* Small instances of Sagas for TLC. *)
EXTENDS Sagas

CONSTANTS ann, bob, t1, t2, here

MCAccounts == {ann, bob}
MCRegions  == {here}
MCMin      == [a \in MCAccounts |-> 0]
\* bob can take t1's money or t2's, not both.
MCMax      == [a \in MCAccounts |-> IF a = bob THEN 3 ELSE NoLimit]
\* ann can pay t1 or t2, not both.
MCFunds    == [a \in MCAccounts |-> IF a = ann THEN 2 ELSE 1]

\* ann may be suspended or closed once, at any moment.
MCStatus   == [a \in MCAccounts |-> IF a = ann THEN 3 ELSE 0]

MCTransactions == {t1, t2}
MCSource == [t \in Transactions |-> ann]
MCDest   == [t \in Transactions |-> bob]
MCAmount == [t \in Transactions |-> IF t = t1 THEN 1 ELSE 2]

\* A two-legged saga next to one that competes with it for ann's balance, and
\* next to one that competes for the room below bob's limit.
MCKinds ==
    {[t \in MCTransactions |-> IF t = t1 THEN p[1] ELSE p[2]] :
        p \in {<<"withdrawal", "transfer">>, <<"topup", "payment">>, <<"topup", "refund">>}}

\* One saga alone.
MCOne      == {t1}
MCTransfer == {[t \in MCOne |-> "transfer"]}
MCPayment  == {[t \in MCOne |-> "payment"]}

==============================================================================
