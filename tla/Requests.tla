------------------------------- MODULE Requests -------------------------------
(***************************************************************************)
(* The HTTP requests that open a transaction, from the idempotency lookup to *)
(* the stored first event, and the read model transaction_projections that  *)
(* the lookup and the polling clients read.                                 *)
(*                                                                         *)
(* The sagas are reduced to the outcomes they append: complete, compensate  *)
(* and fail, in this order and each at most once (module Sagas).            *)
(*                                                                         *)
(* The updates of the read model are single guarded UPDATE statements.  The *)
(* insert and the rebuild go through Repository.save(), which reads the row *)
(* and later inserts it, or writes the columns that differ from that read.  *)
(***************************************************************************)
EXTENDS Transaction, FiniteSets

CONSTANTS
    Transactions,   \* one per request
    Forms,          \* transaction -> what its request asks for, the cases to consider
    Accounts,
    Currency,       \* account -> currency
    AccountRows,    \* what a row of account_projections may say: status, balance
    NoRow,          \* no row in transaction_projections
    MaxLag,         \* bound of the model: how many events a read may miss
    MaxRebuilds,    \* bound of the model: rebuilds
    MaxFaults       \* bound of the model: events lost, failing calls, crashes

ASSUME BoundsAssumption == MaxLag \in Nat /\ MaxRebuilds \in Nat /\ MaxFaults \in Nat

ASSUME NoRowAssumption ==
    NoRow \notin [status : TransactionStatuses, version : Nat,
                  key : {f[t].key : f \in Forms, t \in Transactions}]

VARIABLES
    form,       \* the case
    pc,         \* transaction -> where its request is
    txLog,      \* transaction -> statuses its events set
    versions,   \* transaction -> versions of its events
    row,        \* transaction -> its row, or NoRow
    jobs,       \* projection handlers and rebuilds that have not ended
    rebuilds, faults,
    shown,      \* ghost: transactions that ever had a row
    before,     \* ghost: transaction -> those shown when its key was looked up
    raced,      \* ghost: transactions with an outcome decided on an old read
    disturbed   \* ghost: transactions whose row may have missed an event

requestVars == <<form, pc, before>>
logVars     == <<txLog, versions, raced>>
rowVars     == <<row, shown>>
vars == <<requestVars, logVars, rowVars, jobs, rebuilds, faults, disturbed>>

Kind(t)   == form[t].kind
Source(t) == form[t].source
Dest(t)   == form[t].dest

------------------------------------------------------------------------------
(* The endpoints.                                                           *)

KeyTaken(t) == \E u \in Transactions : row[u] # NoRow /\ row[u].key = form[t].key

Active(rows, a) == rows[a].status = "ACTIVE"

Covered(t, rows) == rows[Source(t)].balance >= form[t].amount

SameCurrency(t, accounts) == \A a \in accounts : Currency[a] = form[t].currency

\* What each endpoint checks on the rows of the accounts.  A top-up checks none,
\* a payment accepts inactive accounts, a refund goes straight to its command.
WithdrawalAdmitted(t, rows) ==
    Active(rows, Source(t)) /\ SameCurrency(t, {Source(t)}) /\ Covered(t, rows)

TransferAdmitted(t, rows) ==
    /\ Active(rows, Source(t)) /\ Active(rows, Dest(t))
    /\ SameCurrency(t, {Source(t), Dest(t)}) /\ Covered(t, rows)

PaymentAdmitted(t, rows) ==
    Source(t) # Dest(t) /\ SameCurrency(t, {Source(t), Dest(t)}) /\ Covered(t, rows)

Admitted(t, rows) ==
    CASE Kind(t) = "withdrawal" -> WithdrawalAdmitted(t, rows)
      [] Kind(t) = "transfer"   -> TransferAdmitted(t, rows)
      [] Kind(t) = "payment"    -> PaymentAdmitted(t, rows)
      [] OTHER                  -> TRUE

Goes(t, to) == pc' = [pc EXCEPT ![t] = to]

\* findByIdempotencyKey(), after the test for a transfer to the same account.
LookUp(t) ==
    /\ pc[t] = "idle"
    /\ Goes(t, IF (Kind(t) = "transfer" /\ Source(t) = Dest(t)) \/ KeyTaken(t)
               THEN "refused" ELSE "checking")
    /\ before' = [before EXCEPT ![t] = shown]
    /\ UNCHANGED <<form, logVars, rowVars, jobs, rebuilds, faults, disturbed>>

\* The rows of the accounts, kept by module AccountRows, may say anything.
CheckAccounts(t) ==
    /\ pc[t] = "checking"
    /\ \E rows \in [Accounts -> AccountRows] :
          Goes(t, IF Admitted(t, rows) THEN "storing" ELSE "refused")
    /\ UNCHANGED <<form, before, logVars, rowVars, jobs, rebuilds, faults, disturbed>>

------------------------------------------------------------------------------
(* The request commands.                                                    *)

Readable(log) == {n \in 0 .. Len(log) : n >= Len(log) - MaxLag}

Read(t, n) == SubSeq(txLog[t], 1, n)

\* request<Kind>() refuses equal accounts; a refund also needs an original with
\* two accounts whose events can be replayed.
Accepted(t, n) ==
    /\ Kind(t) \in {"transfer", "refund"} => Source(t) # Dest(t)
    /\ Kind(t) = "refund" =>
          LET original == form[t].original
          IN  /\ n \in Readable(txLog[original]) \ {0}
              /\ Replays(Read(original, n))
              /\ Kind(original) \in {"transfer", "payment", "refund"}

Job(t, n, at, entity, base) == [tx |-> t, n |-> n, at |-> at, entity |-> entity, base |-> base]

Handler(t, n) == Job(t, n, "handle", NoRow, NoRow)

Opens(t) ==
    /\ pc[t] = "storing"
    /\ txLog' = [txLog EXCEPT ![t] = Requested]
    /\ versions' = [versions EXCEPT ![t] = <<1>>]
    /\ UNCHANGED <<form, before, raced, rowVars, rebuilds>>

\* The original's events as the refund's command reads them.
Original(t) == IF Kind(t) = "refund" THEN Readable(txLog[form[t].original]) ELSE {0}

\* The first event is stored and published.
Store(t) ==
    /\ \E n \in Original(t) : Accepted(t, n)
    /\ Opens(t)
    /\ Goes(t, "pending")
    /\ jobs' = jobs \cup {Handler(t, 1)}
    /\ UNCHANGED <<faults, disturbed>>

\* It is stored, but append() throws or the process dies before publish.
StoreUnpublished(t) ==
    /\ faults < MaxFaults /\ faults' = faults + 1
    /\ \E n \in Original(t) : Accepted(t, n)
    /\ Opens(t)
    /\ Goes(t, "failed")
    /\ disturbed' = disturbed \cup {t}
    /\ UNCHANGED jobs

StoreRefused(t) ==
    /\ pc[t] = "storing"
    /\ \E n \in Original(t) : ~Accepted(t, n)
    /\ Goes(t, "refused")
    /\ UNCHANGED <<form, before, logVars, rowVars, jobs, rebuilds, faults, disturbed>>

------------------------------------------------------------------------------
(* The outcomes a saga appends.                                             *)

Rank == [PENDING |-> 0, COMPLETED |-> 1, COMPENSATED |-> 2, FAILED |-> 3]

Outcomes(t) ==
    {"COMPLETED", "FAILED"}
        \cup IF Kind(t) \in {"transfer", "payment", "refund"} THEN {"COMPENSATED"} ELSE {}

\* The aggregate, as read, lets the outcome happen.
Decides(t, outcome, n) ==
    /\ n > 0 /\ Replays(Read(t, n))
    /\ LET status == Status(Read(t, n))
       IN  CASE outcome = "COMPLETED"   -> CanComplete(status)
             [] outcome = "COMPENSATED" -> CanCompensate(status)
             [] outcome = "FAILED"      -> CanFail(status)

Appends(t, outcome) ==
    /\ pc[t] = "pending"
    /\ \A k \in 1 .. Len(txLog[t]) : Rank[txLog[t][k]] < Rank[outcome]
    /\ \E n \in Readable(txLog[t]) :
          /\ Decides(t, outcome, n)
          /\ txLog' = [txLog EXCEPT ![t] = Append(@, outcome)]
          /\ versions' = [versions EXCEPT ![t] = Append(@, @[n] + 1)]
          /\ raced' = IF n = Len(txLog[t]) THEN raced ELSE raced \cup {t}
    /\ UNCHANGED <<requestVars, rowVars, rebuilds>>

End(t, outcome) ==
    /\ Appends(t, outcome)
    /\ jobs' = jobs \cup {Handler(t, Len(txLog[t]) + 1)}
    /\ UNCHANGED <<faults, disturbed>>

EndUnpublished(t, outcome) ==
    /\ faults < MaxFaults /\ faults' = faults + 1
    /\ Appends(t, outcome)
    /\ disturbed' = disturbed \cup {t}
    /\ UNCHANGED jobs

------------------------------------------------------------------------------
(* The read model.                                                          *)

\* Mutant: rebuilt rows have no key.
EntityWithoutKey(t, n) ==
    [status |-> txLog[t][n], version |-> versions[t][n],
     key |-> IF n = 1 THEN form[t].key ELSE NoRow]

\* Mutant: the row says the version that comes next.
EntityNextVersion(t, n) ==
    [status |-> txLog[t][n], version |-> versions[t][n] + 1, key |-> form[t].key]

\* The row for the transaction's first n events.
Entity(t, n) == [status |-> txLog[t][n], version |-> versions[t][n], key |-> form[t].key]

\* Mutant: an equal version is applied again.
OlderOrEqual(r, version) == r # NoRow /\ r.version <= version

\* Mutant: the version is compared with the one before.
OlderByTwo(r, version) == r # NoRow /\ r.version < version - 1

\* WHERE id = :id AND aggregateVersion < :expectedVersion
Older(r, version) == r # NoRow /\ r.version < version

\* Mutant: no unique constraint on the key.
InsertableById(t) == row[t] = NoRow

\* The unique constraints on id and idempotency_key.
Insertable(t) == row[t] = NoRow /\ ~KeyTaken(t)

Moves(j, k) == jobs' = (jobs \ {j}) \cup {k}

Ends(j) == jobs' = jobs \ {j}

\* No handler of the transaction runs.
Idle(t) == \A j \in jobs : j.tx # t

\* TopupRequestedProjectionHandler looks for a row first, and skips the event when
\* there is one: a row is never older than a first event.
FindsExisting(j) ==
    /\ j.at = "handle" /\ j.n = 1 /\ Kind(j.tx) = "topup"
    /\ IF row[j.tx] = NoRow THEN Moves(j, [j EXCEPT !.at = "insert"]) ELSE Ends(j)
    /\ UNCHANGED <<requestVars, logVars, rowVars, rebuilds, faults, disturbed>>

Inserting(j) == IF Kind(j.tx) = "topup" THEN "insert" ELSE "handle"

\* The <Kind>RequestedProjectionHandler's save() reads the row.
InsertReads(j) ==
    /\ j.n = 1 /\ j.at = Inserting(j)
    /\ Moves(j, [j EXCEPT !.at = "save", !.entity = Entity(j.tx, 1), !.base = row[j.tx]])
    /\ disturbed' = IF row[j.tx] = NoRow THEN disturbed ELSE disturbed \cup {j.tx}
    /\ UNCHANGED <<requestVars, logVars, rowVars, rebuilds, faults>>

\* The <Kind>Completed, Failed and Compensated projection handlers.
UpdateApplies(j) ==
    LET version == versions[j.tx][j.n]
    IN  /\ j.at = "handle" /\ j.n > 1
        /\ Older(row[j.tx], version)
        /\ row' = [row EXCEPT ![j.tx].status = txLog[j.tx][j.n], ![j.tx].version = version]
        /\ Ends(j)
        /\ UNCHANGED <<requestVars, logVars, shown, rebuilds, faults, disturbed>>

\* No row matches: a completion then throws when there is none, a failure and a
\* compensation say nothing.  Nobody tries again.
UpdateMatchesNothing(j) ==
    /\ j.at = "handle" /\ j.n > 1
    /\ ~Older(row[j.tx], versions[j.tx][j.n])
    /\ Ends(j)
    /\ disturbed' = IF row[j.tx] = NoRow THEN disturbed \cup {j.tx} ELSE disturbed
    /\ UNCHANGED <<requestVars, logVars, rowVars, rebuilds, faults>>

\* save() inserts, or updates what differs.  j.n is the last event it knows.
Save(j) ==
    /\ j.at = "save"
    /\ j.base = NoRow => Insertable(j.tx)
    /\ row' = [row EXCEPT ![j.tx] =
                  IF j.base = NoRow THEN j.entity
                  ELSE [c \in DOMAIN @ |-> IF j.entity[c] # j.base[c] THEN j.entity[c] ELSE @[c]]]
    /\ shown' = shown \cup {j.tx}
    /\ Ends(j)
    /\ UNCHANGED <<requestVars, logVars, rebuilds, faults, disturbed>>

\* A unique constraint refuses the insert.  The requested handlers log the error;
\* the top-up's throws it again, to the bus, and none tries again.
SaveRefused(j) ==
    /\ j.at = "save" /\ j.base = NoRow /\ ~Insertable(j.tx)
    /\ Ends(j)
    /\ disturbed' = IF row[j.tx] = NoRow THEN disturbed \cup {j.tx} ELSE disturbed
    /\ UNCHANGED <<requestVars, logVars, rowVars, rebuilds, faults>>

\* rebuildTransaction() reads n events and then the row; a log that cannot be
\* replayed cannot be rebuilt.
Rebuild(t) ==
    /\ rebuilds < MaxRebuilds /\ rebuilds' = rebuilds + 1
    /\ \E n \in Readable(txLog[t]) \ {0} :
          /\ Replays(Read(t, n))
          /\ jobs' = jobs \cup {Job(t, n, "load", Entity(t, n), NoRow)}
          /\ disturbed' = IF n = Len(txLog[t]) /\ Idle(t) THEN disturbed ELSE disturbed \cup {t}
    /\ UNCHANGED <<requestVars, logVars, rowVars, faults>>

RebuildReads(j) ==
    /\ j.at = "load"
    /\ Moves(j, [j EXCEPT !.at = "save", !.base = row[j.tx]])
    /\ disturbed' = IF j.n = Len(txLog[j.tx]) THEN disturbed ELSE disturbed \cup {j.tx}
    /\ UNCHANGED <<requestVars, logVars, rowVars, rebuilds, faults>>

JobFails(j) ==
    /\ faults < MaxFaults /\ faults' = faults + 1
    /\ Ends(j)
    /\ disturbed' = disturbed \cup {j.tx}
    /\ UNCHANGED <<requestVars, logVars, rowVars, rebuilds>>

------------------------------------------------------------------------------

\* The process dies: its handlers and the requests it was serving are gone.
Crash ==
    /\ faults < MaxFaults /\ faults' = faults + 1
    /\ jobs' = {}
    /\ disturbed' = disturbed \cup {j.tx : j \in jobs}
    /\ pc' = [t \in Transactions |->
                IF pc[t] \in {"checking", "storing", "pending"} THEN "failed" ELSE pc[t]]
    /\ pc' # pc
    /\ UNCHANGED <<form, before, logVars, rowVars, rebuilds>>

Init ==
    /\ form \in Forms
    /\ pc = [t \in Transactions |-> "idle"]
    /\ txLog = [t \in Transactions |-> <<>>] /\ versions = txLog
    /\ row = [t \in Transactions |-> NoRow] /\ jobs = {}
    /\ rebuilds = 0 /\ faults = 0
    /\ shown = {} /\ raced = {} /\ disturbed = {}
    /\ before = [t \in Transactions |-> {}]

Step(j) ==
    FindsExisting(j) \/ InsertReads(j) \/ UpdateApplies(j) \/ UpdateMatchesNothing(j)
        \/ Save(j) \/ SaveRefused(j) \/ RebuildReads(j)

Next ==
    \/ \E t \in Transactions : LookUp(t) \/ CheckAccounts(t)
    \/ \E t \in Transactions : Store(t) \/ StoreUnpublished(t) \/ StoreRefused(t)
    \/ \E t \in Transactions : \E outcome \in Outcomes(t) :
          End(t, outcome) \/ EndUnpublished(t, outcome)
    \/ \E j \in jobs : Step(j) \/ JobFails(j)
    \/ \E t \in Transactions : Rebuild(t)
    \/ Crash

\* Every database call settles.
Fairness == WF_vars(\E j \in jobs : Step(j))

Spec == Init /\ [][Next]_vars /\ Fairness

------------------------------------------------------------------------------

Keys == {form[t].key : t \in Transactions}

Rows == [status : TransactionStatuses, version : 1 .. 3, key : Keys]

TypeOK ==
    /\ pc \in [Transactions -> {"idle", "checking", "storing", "pending", "refused", "failed"}]
    /\ txLog \in [Transactions -> Seq(TransactionStatuses)]
    /\ row \in [Transactions -> Rows \cup {NoRow}]
    /\ \A t \in Transactions :
          /\ Len(versions[t]) = Len(txLog[t])
          /\ row[t] # NoRow => t \in shown /\ row[t].version <= Len(txLog[t])
    /\ \A j \in jobs : j.at \in {"handle", "insert", "load", "save"} /\ j.n \in 1 .. Len(txLog[j.tx])
    /\ rebuilds \in 0 .. MaxRebuilds /\ faults \in 0 .. MaxFaults
    /\ shown \cup raced \cup disturbed \subseteq Transactions

Stored(t) == txLog[t] # <<>>

Twins(t, u) == t # u /\ form[t].key = form[u].key

\* Two transactions with one key never both have a row, so that a client that
\* polls one of them is told it does not exist.
OneRowPerKey ==
    \A t, u \in Transactions : Twins(t, u) => row[t] = NoRow \/ row[u] = NoRow

\* A request sent when a transaction with its key was in the read model, then or
\* earlier, stores nothing, whatever is rebuilt or updated meanwhile.
RetriesAreRefused ==
    \A t, u \in Transactions : Twins(t, u) /\ Stored(t) => u \notin before[t]

\* When no handler of the transaction runs, and none of its events was lost,
\* decided on an old read or stored while a rebuild was reading, its row says
\* what its log says.
RowsAreCurrent ==
    \A t \in Transactions \ (disturbed \cup raced) :
        Stored(t) /\ Idle(t)
            => row[t] # NoRow /\ row[t].status = Status(txLog[t])

\* Until a rebuild, a row changes only to a newer version: of two outcomes with
\* one version the first handled stays, in whatever order they are handled.
RowsMoveForward ==
    [][\A t \in Transactions :
          row[t] # NoRow /\ row[t]' # row[t] /\ rebuilds = 0
              => row[t]'.version > row[t].version]_vars

\* A client that polls sees every published outcome's version after a while,
\* unless an event of the transaction was lost.
PollersSeeTheEnd ==
    \A t \in Transactions :
        Len(txLog[t]) > 1 ~> t \in disturbed \/ (row[t] # NoRow /\ row[t].status \in Terminal)

\* "Performing the same operation multiple times has the same effect as
\* performing it once": one transaction per idempotency key.
OneTransactionPerKey ==
    \A t, u \in Transactions : Twins(t, u) => ~(pc[t] = "pending" /\ pc[u] = "pending")

\* "Refund Amount Cannot Exceed Original".
RefundsWithinOriginal ==
    \A t \in Transactions :
        Stored(t) /\ Kind(t) = "refund" => form[t].amount <= form[form[t].original].amount

==============================================================================
