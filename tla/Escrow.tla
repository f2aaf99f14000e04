-------------------------------- MODULE Escrow --------------------------------
(***************************************************************************)
(* What the sagas promise about money: each movement is one indivisible     *)
(* step that happens at most once and only where the movements before it    *)
(* allow it, an outcome is reported once and only when it is earned, and    *)
(* the balance of every account is the movements' and nothing else's.       *)
(* The promise for an account's balance and for a transaction's single      *)
(* outcome ends with the first step that makes it `broken`.                 *)
(***************************************************************************)
EXTENDS Integers

CONSTANTS
    Transactions, Accounts,
    Source, Dest, Amount, Funds,
    MinBalance, MaxBalance, NoLimit

VARIABLES
    kind,       \* transaction -> kind
    moved,      \* transaction -> the movements of its money
    reported,   \* transaction -> the statuses its log shows, {} before the request
    balance,    \* account -> balance
    broken      \* accounts and transactions the promise no longer covers

evars == <<kind, moved, reported, balance, broken>>

TwoLegged(t) == kind[t] \in {"transfer", "payment", "refund"}

\* The movements that a completed transaction made.
Owed(t) ==
    CASE kind[t] = "topup"      -> {"credit"}
      [] kind[t] = "withdrawal" -> {"debit"}
      [] OTHER                  -> {"debit", "credit"}

Outcomes == {"COMPLETED", "COMPENSATED", "FAILED"}

Init ==
    /\ kind \in [Transactions -> {"topup", "withdrawal", "transfer", "payment", "refund"}]
    /\ moved    = [t \in Transactions |-> {}]
    /\ reported = [t \in Transactions |-> {}]
    /\ balance  = Funds
    /\ broken   = {}

\* From the step that breaks account a on, it may show any balance.
Breaks(a) ==
    /\ broken' = broken \cup {a}
    /\ \A b \in Accounts \ {a} : balance'[b] = balance[b]

\* The balance moves by x within the account's limits.
Pays(a, x) ==
    /\ a \notin broken
    /\ balance[a] + x >= MinBalance[a]
    /\ MaxBalance[a] # NoLimit => balance[a] + x <= MaxBalance[a]
    /\ balance' = [balance EXCEPT ![a] = @ + x]
    /\ UNCHANGED broken

Moves(t, movement) ==
    /\ Amount[t] > 0
    /\ movement \notin moved[t]
    /\ moved' = [moved EXCEPT ![t] = @ \cup {movement}]
    /\ UNCHANGED <<kind, reported>>

Request(t) ==
    /\ reported[t] = {}
    /\ reported' = [reported EXCEPT ![t] = {"PENDING"}]
    /\ UNCHANGED <<kind, moved, balance, broken>>

\* Money leaves the source.
Take(t) ==
    /\ kind[t] # "topup"
    /\ reported[t] = {"PENDING"} /\ moved[t] = {}
    /\ Moves(t, "debit")
    /\ Pays(Source[t], -Amount[t]) \/ Breaks(Source[t])

\* Money arrives: only what was taken, and not what was given back.
Give(t) ==
    /\ kind[t] # "withdrawal"
    /\ reported[t] = {"PENDING"}
    /\ moved[t] = IF TwoLegged(t) THEN {"debit"} ELSE {}
    /\ Moves(t, "credit")
    /\ Pays(Dest[t], Amount[t]) \/ Breaks(Dest[t])

\* The source gets its money back.  The promise does not say that the
\* destination did not get it, nor that completion was not reported.
GiveBack(t) ==
    /\ TwoLegged(t)
    /\ reported[t] \in {{"PENDING"}, {"PENDING", "COMPLETED"}}
    /\ "debit" \in moved[t]
    /\ Moves(t, "refund")
    /\ Pays(Source[t], Amount[t]) \/ Breaks(Source[t])

\* Only a completed and a compensated transaction say what moved.
Report(t, outcome) ==
    /\ reported[t] # {}
    /\ outcome = "COMPLETED" => Owed(t) \subseteq moved[t]
    /\ outcome = "COMPENSATED" => "refund" \in moved[t]
    /\ \/ reported[t] = {"PENDING"} /\ UNCHANGED broken
       \/ broken' = broken \cup {t}
    /\ reported' = [reported EXCEPT ![t] = @ \cup {outcome}]
    /\ UNCHANGED <<kind, moved, balance>>

\* An operator's command, or a reservation, on an old read of the account.
Break(a) == Breaks(a) /\ UNCHANGED <<kind, moved, reported>>

Next ==
    \/ \E t \in Transactions :
          \/ Request(t) \/ Take(t) \/ Give(t) \/ GiveBack(t)
          \/ \E outcome \in Outcomes : Report(t, outcome)
    \/ \E a \in Accounts : Break(a)

Spec == Init /\ [][Next]_evars

==============================================================================
