------------------------------ MODULE RequestsMC ------------------------------
(* Small instances of Requests for TLC. *)
EXTENDS Requests

CONSTANTS ann, bob, t1, t2, k1, k2, eur

MCTransactions == {t1, t2}
MCAccounts == {ann, bob}
MCCurrency == [a \in MCAccounts |-> eur]

\* ann and bob can pay 1, or cannot, or are suspended.
MCAccountRows ==
    {[status |-> "ACTIVE", balance |-> 1], [status |-> "ACTIVE", balance |-> 0],
     [status |-> "SUSPENDED", balance |-> 1]}

Ask(kind, key, amount) ==
    [kind |-> kind, key |-> key, source |-> ann, dest |-> bob, amount |-> amount,
     currency |-> eur, original |-> t1]

Case(first, second) == [t \in MCTransactions |-> IF t = t1 THEN first ELSE second]

\* A retry under one key, two kinds under one key, a payment and its refund.
MCForms ==
    {Case(Ask("transfer", k1, 1), Ask("transfer", k1, 1)),
     Case(Ask("topup", k1, 1), Ask("withdrawal", k1, 1)),
     Case(Ask("payment", k1, 1), [Ask("refund", k2, 1) EXCEPT !.source = bob, !.dest = ann])}

MCRetry == {Case(Ask("topup", k1, 1), Ask("topup", k1, 1))}

\* A refund of more than the payment.
MCRefund ==
    {Case(Ask("payment", k1, 1), [Ask("refund", k2, 2) EXCEPT !.source = bob, !.dest = ann])}

==============================================================================
