---------------------------- MODULE AccountLedger ----------------------------
(***************************************************************************)
(* Accounts in the event store under concurrent command handlers.          *)
(*                                                                         *)
(* A handler loads the account (getEvents, fromEvents), decides on what it *)
(* has read, and appends its events some time later; no handler passes     *)
(* expectedVersion, so append() checks nothing.  getEvents() returns what  *)
(* its consumer has read when a 15 s timer fires: any prefix of the log.   *)
(* A load of no events is "Account not found".                             *)
(*                                                                         *)
(* history[a][n] is the state fromEvents() rebuilds from the first n       *)
(* events of a, so Len(history[a]) is the length of a's log.               *)
(***************************************************************************)
EXTENDS Account, Sequences, Functions

CONSTANTS
    Handlers,   \* slots for commands in flight
    Amounts,    \* amounts commands may carry
    Idle,       \* a slot with no command past its decision
    MaxEvents   \* bound of the model: events per account

ASSUME LedgerAssumption ==
    /\ Amounts \subseteq Int
    /\ MaxEvents \in Nat
    /\ Idle \notin [account : Accounts, base : Nat, event : Events, refill : BOOLEAN]

VARIABLES
    history,    \* account -> states after each event of its log
    pending,    \* handler -> the decided, not yet appended events
    raced,      \* ghost: accounts that got events decided on an older log
    posted      \* ghost: account -> sum of signedAmount over its log

vars == <<history, pending, raced, posted>>

\* What a handler holds between its decision and append(): the account, how
\* many events it had read, its event, and whether a ReplenishmentRequested
\* event follows it.
Commands == [account : Accounts, base : Nat, event : Events, refill : BOOLEAN]

Opened(a) == history[a] # <<>>

Current(a) == history[a][Len(history[a])]

Init ==
    /\ history = [a \in Accounts |-> <<>>]
    /\ pending = [h \in Handlers |-> Idle]
    /\ raced   = {}
    /\ posted  = [a \in Accounts |-> 0]

\* CreateAccountHandler: a fresh id, so nothing to load and nothing to race.
CreateAccount(a, r) ==
    /\ ~Opened(a)
    /\ MaxEvents >= 1
    /\ history' = [history EXCEPT ![a] = <<Created(r)>>]
    /\ UNCHANGED <<pending, raced, posted>>

\* getEvents() and fromEvents(): a free handler reads a non-empty prefix.
Loads(h, a, n) ==
    /\ pending[h] = Idle
    /\ n \in 1 .. Len(history[a])

\* The decision succeeded: the events wait for append().
Decides(h, a, n, e, needsRefill) ==
    /\ pending' = [pending EXCEPT ![h] = [account |-> a, base |-> n,
                                          event |-> e, refill |-> needsRefill]]
    /\ UNCHANGED <<history, raced, posted>>

\* UpdateBalanceHandler in region r, up to the await of append().
UpdateBalance(h, a, n, r, change, x) ==
    /\ Loads(h, a, n)
    /\ LET s == history[a][n]
           e == BalanceChanged(s, r, change, x)
       IN  /\ CanChangeBalance(a, s, r, change, x)
           /\ Decides(h, a, n, e, NeedsReplenishment(Apply(s, e), r))

\* ReserveBalanceHandler, up to the await of append().
ReserveBalance(h, a, n, r, x) ==
    /\ Loads(h, a, n)
    /\ CanReserve(a, history[a][n], x)
    /\ Decides(h, a, n, BalanceReserved(history[a][n], r, x), FALSE)

\* UpdateAccountStatusHandler, up to the await of append().
UpdateStatus(h, a, n, new) ==
    /\ Loads(h, a, n)
    /\ CanChangeStatus(history[a][n], new)
    /\ Decides(h, a, n, StatusChanged(history[a][n], new), FALSE)

\* append(): one send() to the account's partition, behind whatever the log
\* holds by now.
AppendEvents(h) ==
    /\ pending[h] # Idle
    /\ LET c == pending[h]
           a == c.account
           new == Replayed(Current(a), c.event, c.refill)
       IN  /\ Len(history[a]) + Len(new) <= MaxEvents
           /\ history' = [history EXCEPT ![a] = @ \o new]
           /\ raced' = IF c.base = Len(history[a]) THEN raced ELSE raced \cup {a}
           /\ posted' = [posted EXCEPT ![a] =
                 @ + IF c.event.type = "BalanceChanged"
                     THEN Signed(c.event.change, c.event.amount) ELSE 0]
    /\ pending' = [pending EXCEPT ![h] = Idle]

\* send() fails, or the process dies first: the decision is lost.
AppendFails(h) ==
    /\ pending[h] # Idle
    /\ pending' = [pending EXCEPT ![h] = Idle]
    /\ UNCHANGED <<history, raced, posted>>

Next ==
    \/ \E a \in Accounts, r \in Regions : CreateAccount(a, r)
    \/ \E h \in Handlers, a \in Accounts, n \in 1 .. MaxEvents, r \in Regions,
          change \in Changes, x \in Amounts : UpdateBalance(h, a, n, r, change, x)
    \/ \E h \in Handlers, a \in Accounts, n \in 1 .. MaxEvents, r \in Regions,
          x \in Amounts : ReserveBalance(h, a, n, r, x)
    \/ \E h \in Handlers, a \in Accounts, n \in 1 .. MaxEvents,
          new \in Statuses : UpdateStatus(h, a, n, new)
    \/ \E h \in Handlers : AppendEvents(h)
    \/ \E h \in Handlers : AppendFails(h)

Spec == Init /\ [][Next]_vars

------------------------------------------------------------------------------
\* What append() finds in a slot was accepted on a prefix of the log that is
\* still there: logs only grow.  The proofs rest on it.
Accepted(c) ==
    /\ c.base \in 1 .. Len(history[c.account])
    /\ LET s == history[c.account][c.base]
       IN  \/ \E r \in Regions, change \in Changes, x \in Amounts :
                 /\ CanChangeBalance(c.account, s, r, change, x)
                 /\ c.event = BalanceChanged(s, r, change, x)
           \/ \E r \in Regions, x \in Amounts :
                 /\ CanReserve(c.account, s, x)
                 /\ c.event = BalanceReserved(s, r, x)
                 /\ ~c.refill
           \/ \E new \in Statuses :
                 /\ CanChangeStatus(s, new)
                 /\ c.event = StatusChanged(s, new)
                 /\ ~c.refill

PendingAccepted == \A h \in Handlers : pending[h] # Idle => Accepted(pending[h])

TypeOK ==
    /\ history \in [Accounts -> Seq(States)]
    /\ pending \in [Handlers -> Commands \cup {Idle}]
    /\ raced \in SUBSET Accounts
    /\ posted \in [Accounts -> Int]

\* The type invariant, with the meaning of `total`: getTotalReserved() is the
\* sum of the reservation map in every state a replay reaches.
TypeOKWithTotals ==
    /\ TypeOK
    /\ \A a \in Accounts : \A n \in 1 .. Len(history[a]) :
          history[a][n].total = SumFunction(history[a][n].reserved)

\* Concurrent or not, no state a replay can reach lies outside the account's
\* limits once money has moved (validateInvariants() states this and is never
\* called).  It rests on every event carrying the balance it was checked for.
LimitsHold ==
    \A a \in Accounts : \A n \in 1 .. Len(history[a]) :
        history[a][n].balance = 0 \/ WithinLimits(a, history[a][n].balance)

\* Zero double-spending, as far as the code guarantees it: while no command was
\* appended behind events it had not read, no region is overdrawn and the
\* regions together hold no more than the balance above the minimum.
Backed(a, s) ==
    /\ \A r \in Regions : s.reserved[r] >= 0
    /\ s.total = 0 \/ s.total <= s.balance - MinBalance[a]

BackedUnlessRaced ==
    \A a \in Accounts \ raced : \A n \in 1 .. Len(history[a]) :
        Backed(a, history[a][n])

\* While no append was stale the balance is the sum of the signed amounts on
\* the log, and the events are numbered 1, 2, 3, ...: what reconciliation and
\* the projections' version guard take for granted.
BooksBalanceUnlessRaced ==
    \A a \in Accounts \ raced :
        Opened(a) => /\ Current(a).balance = posted[a]
                     /\ Current(a).version = Len(history[a])

\* A closed account stays closed and keeps its balance, unless a command that
\* had read the account before the closing is appended behind it.
ClosedIsFinal ==
    [][\A a \in Accounts :
          Opened(a) /\ Current(a).status = "CLOSED" /\ a \notin raced'
            => /\ Current(a)'.status = "CLOSED"
               /\ Current(a)'.balance = Current(a).balance]_vars

\* The account as the rest of the system sees it, for the promise below.
OpenAccounts == {a \in Accounts : Opened(a)}

StatusOf == [a \in Accounts |-> IF Opened(a) THEN Current(a).status ELSE "CLOSED"]

BalanceOf == [a \in Accounts |-> IF Opened(a) THEN Current(a).balance ELSE 0]

ReservedOf ==
    [a \in Accounts |-> IF Opened(a) THEN Current(a).reserved ELSE [r \in Regions |-> 0]]

UnreservedOf ==
    [a \in Accounts |-> IF Opened(a)
                        THEN Current(a).balance - MinBalance[a] - Current(a).total
                        ELSE -MinBalance[a]]

Promise == INSTANCE AtomicAccount WITH
    opened <- OpenAccounts, status <- StatusOf, balance <- BalanceOf,
    reserved <- ReservedOf, unreserved <- UnreservedOf, broken <- raced

\* Every account is a serial object until its first stale append.
AtomicUnlessRaced == Promise!Spec

\* Zero double-spending as the documentation states it: always.
NoDoubleSpend ==
    \A a \in Accounts : Opened(a) => \A r \in Regions : Current(a).reserved[r] >= 0

==============================================================================
