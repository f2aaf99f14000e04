----------------------------- MODULE AccountRows -----------------------------
(***************************************************************************)
(* The read model of one account: its row of account_projections, the event *)
(* handlers that update the row, the rebuild an administrator may start and *)
(* the reconciliation that compares the row with the log.  Rows of          *)
(* different accounts never meet.                                           *)
(*                                                                         *)
(* A column holds the position in the log of the event whose value it has;  *)
(* different events are taken to carry different values.                    *)
(*                                                                         *)
(* A handler runs once, when its event is published in the process that     *)
(* stored it.  It reads the row and saves it later.  save() reads the row   *)
(* again and writes the columns in which the entity differs from that read. *)
(***************************************************************************)
EXTENDS Integers, Sequences, FiniteSetsExt

CONSTANTS
    NoRow,          \* the account has no row
    MaxLag,         \* bound of the model: how many events a read may miss
    MaxEvents,      \* bound of the model: length of the log
    MaxRebuilds,    \* bound of the model: rebuilds
    MaxFaults       \* bound of the model: events lost, failing calls, crashes

ASSUME BoundsAssumption ==
    MaxLag \in Nat /\ MaxEvents \in Nat /\ MaxRebuilds \in Nat /\ MaxFaults \in Nat

ASSUME NoRowAssumption == NoRow \notin [balance : Nat, status : Nat, version : Nat]

VARIABLES
    log,        \* the account's events: their kind and version
    row,        \* the row, or NoRow
    jobs,       \* handlers and rebuilds that have not ended
    rebuilds, faults,
    overlapped, \* ghost: two jobs were between their first read and their save
    disturbed,  \* ghost: the row may have missed an event since a clean rebuild
    alone       \* ghost: the running rebuild read all, and nothing ran since

vars == <<log, row, jobs, rebuilds, faults, overlapped, disturbed, alone>>

\* BalanceReserved and ReplenishmentRequested are "other": they take a version
\* and have no projection handler.
Kinds == {"created", "balance", "status", "other"}

Projected == {"created", "balance", "status"}

\* The events whose value a column takes.
Sets(column) == IF column = "balance" THEN {"created", "balance"} ELSE {"created", "status"}

------------------------------------------------------------------------------
(* The aggregate's state after n events, as getEvents() and fromEvents() see it. *)

LastSetting(column, n) == Max({p \in 1 .. n : log[p].kind \in Sets(column)})

\* Mutant: a rebuilt row counts versions from the beginning.
StateOfFirstVersion(n) ==
    [balance |-> LastSetting("balance", n), status |-> LastSetting("status", n),
     version |-> 1]

StateOf(n) ==
    [balance |-> LastSetting("balance", n), status |-> LastSetting("status", n),
     version |-> log[n].version]

Readable == {n \in 1 .. Len(log) : n >= Len(log) - MaxLag}

------------------------------------------------------------------------------
(* What the handlers write.                                                 *)

\* handleAccountCreated(): a new entity, whatever the row is.
CreatedEntity(p) == [balance |-> p, status |-> p, version |-> log[p].version]

\* Mutant: a status change takes the balance with it.
UpdatedEntityWhole(r, p) == [r EXCEPT !.status = p, !.balance = p, !.version = log[p].version]

\* Mutant: the version is not taken over.
UpdatedEntityUnversioned(r, p) ==
    IF log[p].kind = "balance" THEN [r EXCEPT !.balance = p] ELSE [r EXCEPT !.status = p]

\* handleBalanceChanged(), handleAccountStatusChanged(): one column and the version.
UpdatedEntity(r, p) ==
    IF log[p].kind = "balance"
    THEN [r EXCEPT !.balance = p, !.version = log[p].version]
    ELSE [r EXCEPT !.status = p, !.version = log[p].version]

\* Mutant: only the successor of the row's version is applied.
SkipsGap(r, p) == log[p].version # r.version + 1

\* Mutant: no version check.
SkipsNever(r, p) == FALSE

\* "already processed"
Skips(r, p) == r.version >= log[p].version

\* Repository.save() of an entity it has read as base: only what differs.
Saved(r, base, entity) ==
    [c \in DOMAIN r |-> IF entity[c] # base[c] THEN entity[c] ELSE r[c]]

------------------------------------------------------------------------------

\* of is the event's position, or a negative number for a rebuild.
Job(of, at, entity, base) == [of |-> of, at |-> at, entity |-> entity, base |-> base]

Waiting(p) == Job(p, "load", NoRow, NoRow)

\* Jobs that have read the row, or the log, and not saved.
Midway == {j \in jobs : j.at \in {"reload", "write"}}

Moves(j, k) == jobs' = (jobs \ {j}) \cup {k}

Ends(j) == jobs' = jobs \ {j}

\* An event is appended by a command that read n events.
AppendEvent(kind, n) ==
    /\ Len(log) < MaxEvents
    /\ log' = Append(log, [kind |-> kind, version |-> IF n = 0 THEN 1 ELSE log[n].version + 1])
    /\ alone' = FALSE
    /\ UNCHANGED <<row, rebuilds, overlapped>>

\* The command handler's append and publish.
StoreAndPublish(kind) ==
    \E n \in IF kind = "created" THEN {0} ELSE Readable :
        /\ kind = "created" => log = <<>>
        /\ AppendEvent(kind, n)
        /\ jobs' = IF kind \in Projected THEN jobs \cup {Waiting(Len(log) + 1)} ELSE jobs
        /\ disturbed' = (disturbed \/ n # Len(log))
        /\ UNCHANGED faults

\* The event is stored, but the process dies or append() throws before publish.
StoreUnpublished(kind) ==
    /\ faults < MaxFaults /\ faults' = faults + 1
    /\ kind \in Projected
    /\ \E n \in IF kind = "created" THEN {0} ELSE Readable :
          /\ kind = "created" => log = <<>>
          /\ AppendEvent(kind, n)
    /\ disturbed' = TRUE
    /\ UNCHANGED jobs

\* A handler's first read.
Begins(j) ==
    /\ overlapped' = (overlapped \/ Midway # {})
    /\ alone' = FALSE
    /\ UNCHANGED <<log, row, rebuilds, faults>>

Jumps(j) == Midway # {} \/ \E k \in jobs : k.at = "load" /\ k.of < j.of

\* AccountCreatedHandler: save() of a new entity reads the row.
LoadCreated(j) ==
    /\ j.at = "load" /\ log[j.of].kind = "created"
    /\ Begins(j)
    /\ Moves(j, Job(j.of, "write", CreatedEntity(j.of), row))
    /\ disturbed' = (disturbed \/ Jumps(j) \/ row # NoRow)

LoadsUpdate(j) == j.at = "load" /\ log[j.of].kind # "created" /\ Begins(j)

\* "Projection not found for account": the handler rejects, the event is gone.
LoadMissing(j) ==
    /\ LoadsUpdate(j)
    /\ row = NoRow
    /\ Ends(j)
    /\ disturbed' = TRUE

LoadSkipped(j) ==
    /\ LoadsUpdate(j)
    /\ row # NoRow /\ Skips(row, j.of)
    /\ Ends(j)
    /\ disturbed' = (disturbed \/ Jumps(j))

LoadUpdate(j) ==
    /\ LoadsUpdate(j)
    /\ row # NoRow /\ ~Skips(row, j.of)
    /\ Moves(j, Job(j.of, "reload", UpdatedEntity(row, j.of), NoRow))
    /\ disturbed' = (disturbed \/ Jumps(j))

\* save() reads the row.
Reload(j) ==
    /\ j.at = "reload"
    /\ Moves(j, [j EXCEPT !.at = "write", !.base = row])
    /\ UNCHANGED <<log, row, rebuilds, faults, overlapped, disturbed, alone>>

\* save() inserts, or updates what differs.  A clean rebuild repairs the row.
Write(j) ==
    /\ j.at = "write"
    /\ j.base = NoRow => row = NoRow
    /\ row' = IF j.base = NoRow THEN j.entity ELSE Saved(row, j.base, j.entity)
    /\ Ends(j)
    /\ disturbed' = (disturbed /\ ~(alone /\ j.of < 0))
    /\ UNCHANGED <<log, rebuilds, faults, overlapped, alone>>

\* The insert meets a row that was inserted meanwhile: duplicate key.
InsertRefused(j) ==
    /\ j.at = "write"
    /\ j.base = NoRow /\ row # NoRow
    /\ Ends(j)
    /\ UNCHANGED <<log, row, rebuilds, faults, overlapped, disturbed, alone>>

\* rebuildAccount(): reads n events; every column of the entity is overwritten,
\* so whether findOne() found a row makes no difference to what save() does.
Rebuild ==
    /\ rebuilds < MaxRebuilds
    /\ rebuilds' = rebuilds + 1
    /\ \E n \in Readable :
          /\ jobs' = jobs \cup {Job(-rebuilds - 1, "reload", StateOf(n), NoRow)}
          /\ alone' = (jobs = {} /\ n = Len(log))
          /\ disturbed' = (disturbed \/ Midway # {} \/ n # Len(log))
    /\ overlapped' = (overlapped \/ Midway # {})
    /\ UNCHANGED <<log, row, faults>>

\* A database call of a job fails: the job rejects.
JobFails(j) ==
    /\ faults < MaxFaults /\ faults' = faults + 1
    /\ Ends(j)
    /\ disturbed' = TRUE
    /\ UNCHANGED <<log, row, rebuilds, overlapped, alone>>

\* The process dies with everything that ran in it.
Crash ==
    /\ faults < MaxFaults /\ faults' = faults + 1
    /\ jobs # {} /\ jobs' = {}
    /\ disturbed' = TRUE
    /\ UNCHANGED <<log, row, rebuilds, overlapped, alone>>

Init ==
    /\ log = <<>> /\ row = NoRow /\ jobs = {}
    /\ rebuilds = 0 /\ faults = 0
    /\ overlapped = FALSE /\ disturbed = FALSE /\ alone = FALSE

Step(j) ==
    LoadCreated(j) \/ LoadMissing(j) \/ LoadSkipped(j) \/ LoadUpdate(j)
        \/ Reload(j) \/ Write(j) \/ InsertRefused(j)

Next ==
    \/ \E kind \in Kinds : StoreAndPublish(kind) \/ StoreUnpublished(kind)
    \/ \E j \in jobs : Step(j) \/ JobFails(j)
    \/ Rebuild
    \/ Crash

\* Every database call settles.
Fairness == WF_vars(\E j \in jobs : Step(j))

Spec == Init /\ [][Next]_vars /\ Fairness

------------------------------------------------------------------------------

\* reconcileAccount(): what it reports when it has read the whole log.
Issues ==
    LET state == StateOf(Len(log))
    IN  {c \in {"balance", "status", "version"} : row[c] # state[c]}

Rows == [balance : 1 .. MaxEvents, status : 1 .. MaxEvents, version : 1 .. MaxEvents]

TypeOK ==
    /\ log \in Seq([kind : Kinds, version : 1 .. MaxEvents]) /\ Len(log) <= MaxEvents
    /\ row \in Rows \cup {NoRow}
    /\ row # NoRow => \A c \in {"balance", "status"} : log[row[c]].kind \in Sets(c)
    /\ \A j \in jobs :
          /\ j.of \in (1 .. Len(log)) \cup (-rebuilds .. -1)
          /\ j.at \in {"load", "reload", "write"}
          /\ j.entity \in Rows \cup {NoRow} /\ j.base \in Rows \cup {NoRow}
    /\ rebuilds \in 0 .. MaxRebuilds /\ faults \in 0 .. MaxFaults
    /\ {overlapped, disturbed, alone} \subseteq BOOLEAN

\* When no handler runs, and since the last clean rebuild no event was lost,
\* appended on an old read, or handled out of order, reconciliation finds
\* nothing but a version that trails behind events no handler projects.
RowIsCurrent ==
    ~disturbed /\ jobs = {} /\ log # <<>>
        => /\ row # NoRow
           /\ Issues \subseteq {"version"}
           /\ Issues # {} => log[Len(log)].kind = "other"

EventKinds == [p \in 1 .. Len(log) |-> log[p].kind]

Shown == IF row = NoRow THEN NoRow ELSE [column \in {"balance", "status"} |-> row[column]]

Promise == INSTANCE Replica WITH
    kinds <- EventKinds, shown <- Shown, trusted <- ~disturbed

\* Whenever a client reads it, a row that nothing disturbed shows a balance and a
\* status that the account had at the same time, and later ones at every change,
\* also when a rebuild and the handlers of events that it covers interleave.
RowLagsConsistently == Promise!Spec

\* While handlers do not overlap and nothing was rebuilt, the row never goes
\* back to an older version, whatever is lost, reordered or stored twice under
\* one version: "Prevents out-of-order updates".
VersionsMoveForward ==
    [][row # NoRow /\ ~overlapped' /\ rebuilds = 0 => row'.version >= row.version]_vars

\* Every event handed to its handler is in the row after a while, unless
\* something disturbed the row.
RowCatchesUp ==
    \A p \in 1 .. MaxEvents :
        Waiting(p) \in jobs
            ~> disturbed \/ (p <= Len(log) /\ row # NoRow /\ row.version >= log[p].version)

==============================================================================
