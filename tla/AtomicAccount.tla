---------------------------- MODULE AtomicAccount ----------------------------
(***************************************************************************)
(* What an account promises: each accepted command is one indivisible step  *)
(* on the current balance, reservations and status.  The promise for an     *)
(* account ends with the first step that makes it `broken`.                 *)
(***************************************************************************)
EXTENDS Integers

CONSTANTS
    Accounts, Regions, Amounts,
    MinBalance, MaxBalance, NoLimit

VARIABLES
    opened,     \* accounts that exist
    status,     \* account -> status
    balance,    \* account -> balance
    reserved,   \* account -> region -> share of the balance it may spend
    unreserved, \* account -> balance above the minimum not given to any region
    broken      \* accounts the promise no longer covers

avars == <<opened, status, balance, reserved, unreserved, broken>>

Init ==
    /\ opened = {}
    /\ broken = {}
    /\ status     = [a \in Accounts |-> "CLOSED"]
    /\ balance    = [a \in Accounts |-> 0]
    /\ reserved   = [a \in Accounts |-> [r \in Regions |-> 0]]
    /\ unreserved = [a \in Accounts |-> -MinBalance[a]]

Open(a) ==
    /\ a \notin opened
    /\ opened' = opened \cup {a}
    /\ status' = [status EXCEPT ![a] = "ACTIVE"]
    /\ UNCHANGED <<balance, reserved, unreserved, broken>>

Serves(a) == a \in opened \ broken

\* Money in: nobody's reservation changes.
Credit(a, x) ==
    /\ Serves(a)
    /\ status[a] = "ACTIVE"
    /\ balance[a] + x >= MinBalance[a]
    /\ MaxBalance[a] # NoLimit => balance[a] + x <= MaxBalance[a]
    /\ balance'    = [balance EXCEPT ![a] = @ + x]
    /\ unreserved' = [unreserved EXCEPT ![a] = @ + x]
    /\ UNCHANGED <<opened, status, reserved, broken>>

\* Money out: covered by the reservation of the region that spends it.
Debit(a, r, x) ==
    /\ Serves(a)
    /\ status[a] = "ACTIVE"
    /\ reserved[a][r] >= x
    /\ balance[a] - x >= MinBalance[a]
    /\ MaxBalance[a] # NoLimit => balance[a] - x <= MaxBalance[a]
    /\ balance'  = [balance EXCEPT ![a] = @ - x]
    /\ reserved' = [reserved EXCEPT ![a][r] = @ - x]
    /\ UNCHANGED <<opened, status, unreserved, broken>>

\* A region gets a share of what no region holds yet.
Reserve(a, r, x) ==
    /\ Serves(a)
    /\ unreserved[a] >= x
    /\ reserved'   = [reserved EXCEPT ![a][r] = @ + x]
    /\ unreserved' = [unreserved EXCEPT ![a] = @ - x]
    /\ UNCHANGED <<opened, status, balance, broken>>

SetStatus(a, s) ==
    /\ Serves(a)
    /\ status[a] # "CLOSED"
    /\ s # status[a]
    /\ status' = [status EXCEPT ![a] = s]
    /\ UNCHANGED <<opened, balance, reserved, unreserved, broken>>

\* From the step that breaks account a on, a may show any state.  No other
\* account is affected.
Break(a) ==
    /\ a \in opened
    /\ broken' = broken \cup {a}
    /\ \A b \in Accounts \ {a} :
          /\ status'[b] = status[b]
          /\ balance'[b] = balance[b]
          /\ reserved'[b] = reserved[b]
          /\ unreserved'[b] = unreserved[b]
    /\ UNCHANGED opened

Next ==
    \E a \in Accounts :
        \/ Open(a)
        \/ Break(a)
        \/ \E x \in Amounts : Credit(a, x)
        \/ \E x \in Amounts, r \in Regions : Debit(a, r, x) \/ Reserve(a, r, x)
        \/ \E s \in {"ACTIVE", "SUSPENDED", "CLOSED"} : SetStatus(a, s)

Spec == Init /\ [][Next]_avars

==============================================================================
