------------------------- MODULE AccountRowsProofs -------------------------
(***************************************************************************)
(* Proofs about AccountRows, for every number of events, rebuilds and      *)
(* faults and every lag of the reads.                                      *)
(***************************************************************************)
EXTENDS AccountRows, SequenceTheorems, FiniteSetTheorems,
        WellFoundedInduction, TLAPS

------------------------------------------------------------------------------
(* Logs and what they set.                                                 *)

Entries == [kind : Kinds, version : 1 .. MaxEvents]

Columns == {"balance", "status"}

SetsIn(c, n) == {p \in 1 .. n : log[p].kind \in Sets(c)}

\* The last of a nonempty set of positions.
LEMMA MaxOfPositions ==
    ASSUME NEW n \in Nat, NEW S \in SUBSET (1 .. n), S # {}
    PROVE  Max(S) \in S /\ \A p \in S : Max(S) >= p
<1> DEFINE Above(p) == {q \in 1 .. n : q > p}
           Aboves == {Above(p) : p \in S}
<1>1. IsWellFoundedOn(StrictSubsetOrdering(1 .. n), SUBSET (1 .. n))
    <2>1. IsFiniteSet(1 .. n)
        BY FS_Interval
    <2>2. FiniteSubsetsOf(1 .. n) = SUBSET (1 .. n)
        BY <2>1, FS_FiniteSubsetsOfFinite
    <2>3. IsWellFoundedOn(StrictSubsetOrdering(1 .. n), FiniteSubsetsOf(1 .. n))
        BY FS_StrictSubsetOrderingWellFounded
    <2>4. QED  BY <2>2, <2>3
<1>2. Aboves # {} /\ Aboves \subseteq SUBSET (1 .. n)
    OBVIOUS
<1>3. PICK A \in Aboves : \A B \in Aboves : <<B, A>> \notin StrictSubsetOrdering(1 .. n)
    <2> HIDE DEF Aboves
    <2>1. QED  BY <1>1, <1>2, WFMin
<1>4. PICK m \in S : A = Above(m)
    OBVIOUS
<1>5. \A p \in S : m >= p
    <2> SUFFICES ASSUME NEW p \in S, m < p PROVE FALSE
        OBVIOUS
    <2>1. Above(p) \subseteq Above(m) /\ p \in Above(m) /\ p \notin Above(p)
        OBVIOUS
    <2>2. Above(p) \in Aboves
        OBVIOUS
    <2> HIDE DEF Above
    <2>3. <<Above(p), Above(m)>> \in (SUBSET (1 .. n)) \X (SUBSET (1 .. n))
        BY <1>2, <1>4, <2>2
    <2>4. <<Above(p), Above(m)>> \in StrictSubsetOrdering(1 .. n)
        BY <2>1, <2>3 DEF StrictSubsetOrdering
    <2>5. QED  BY <1>3, <1>4, <2>2, <2>4
<1>6. QED  BY <1>4, <1>5 DEF Max

\* Once the account is created every column has been set.
LEMMA LastSettingIsSetting ==
    ASSUME NEW n \in Nat, n > 0, log[1].kind = "created", NEW c \in Columns
    PROVE  /\ LastSetting(c, n) \in 1 .. n
           /\ log[LastSetting(c, n)].kind \in Sets(c)
           /\ \A p \in 1 .. n : log[p].kind \in Sets(c) => p <= LastSetting(c, n)
<1>1. 1 \in SetsIn(c, n)
    BY DEF SetsIn, Sets, Columns
<1>2. SetsIn(c, n) \subseteq 1 .. n
    BY DEF SetsIn
<1>3. Max(SetsIn(c, n)) \in SetsIn(c, n) /\ \A p \in SetsIn(c, n) : Max(SetsIn(c, n)) >= p
    BY <1>1, <1>2, MaxOfPositions
<1>4. LastSetting(c, n) = Max(SetsIn(c, n))
    BY DEF LastSetting, SetsIn
<1>5. QED  BY <1>3, <1>4 DEF SetsIn

\* There is only one last setting.
LEMMA LastSettingUnique ==
    ASSUME NEW n \in Nat, n > 0, log[1].kind = "created", NEW c \in Columns,
           NEW m \in 1 .. n, log[m].kind \in Sets(c),
           \A p \in m + 1 .. n : log[p].kind \notin Sets(c)
    PROVE  LastSetting(c, n) = m
BY LastSettingIsSetting

------------------------------------------------------------------------------
(* What holds of the state at every step.                                   *)

\* The first event creates the account, no other does, and no version is ahead
\* of its position.
LogOK ==
    /\ log \in Seq(Entries) /\ Len(log) <= MaxEvents
    /\ \A p \in 1 .. Len(log) :
          /\ log[p].kind = "created" <=> p = 1
          /\ log[p].version <= p

\* A row has values that events of the log carry.
EntityOK(r) ==
    /\ r \in Rows
    /\ \A c \in Columns : r[c] \in 1 .. Len(log) /\ log[r[c]].kind \in Sets(c)
    /\ r.version <= Len(log)

RowOK == row = NoRow \/ EntityOK(row)

Jobs ==
    [of : Int, at : {"load", "reload", "write"}, entity : Rows \cup {NoRow},
     base : Rows \cup {NoRow}]

\* A job works for an event that has a handler or for a rebuild, and has an
\* entity once it has read something.
JobOK(j) ==
    /\ j \in Jobs
    /\ j.of \in (1 .. Len(log)) \cup (-rebuilds .. -1)
    /\ j.of > 0 => log[j.of].kind \in Projected
    /\ j.at = "load" => j.of > 0 /\ j = Waiting(j.of)
    /\ j.at # "load" => EntityOK(j.entity)
    /\ j.base # NoRow => row # NoRow
    /\ j.at = "reload" => j.of # 1

CountersOK ==
    /\ rebuilds \in 0 .. MaxRebuilds /\ faults \in 0 .. MaxFaults
    /\ overlapped \in BOOLEAN /\ disturbed \in BOOLEAN /\ alone \in BOOLEAN

Base == LogOK /\ RowOK /\ (\A j \in jobs : JobOK(j)) /\ CountersOK

\* No row is a row.
LEMMA NoRowIsNoRow == NoRow \notin Rows
BY NoRowAssumption DEF Rows

\* A row of the read model, by its columns.
LEMMA RowFields ==
    ASSUME NEW r \in Rows
    PROVE  /\ r.balance \in 1 .. MaxEvents /\ r.status \in 1 .. MaxEvents
           /\ r.version \in 1 .. MaxEvents
           /\ r = [balance |-> r.balance, status |-> r.status, version |-> r.version]
           /\ r["balance"] = r.balance /\ r["status"] = r.status
BY DEF Rows

\* An entry of the log, by its fields.
LEMMA EntryFields ==
    ASSUME LogOK, NEW p \in 1 .. Len(log)
    PROVE  log[p] \in Entries /\ log[p].kind \in Kinds /\ log[p].version \in 1 .. p
<1>1. log[p] \in Entries /\ log[p].version <= p
    BY DEF LogOK
<1>2. QED  BY <1>1 DEF Entries

\* The entities handlers and rebuilds make have values of the log.
LEMMA CreatedEntityOK ==
    ASSUME LogOK, NEW p \in 1 .. Len(log), log[p].kind = "created"
    PROVE  EntityOK(CreatedEntity(p))
<1>1. log[p].version \in 1 .. p /\ Len(log) <= MaxEvents /\ Len(log) \in Nat
    BY EntryFields DEF LogOK
<1>2. CreatedEntity(p) \in Rows
    BY <1>1, BoundsAssumption DEF CreatedEntity, Rows
<1>3. QED  BY <1>1, <1>2 DEF EntityOK, CreatedEntity, Columns, Sets

\* An update handler's entity shows positions of the log and its event's version.
LEMMA UpdatedEntityOK ==
    ASSUME LogOK, NEW p \in 1 .. Len(log), log[p].kind \in {"balance", "status"},
           NEW r, EntityOK(r)
    PROVE  EntityOK(UpdatedEntity(r, p)) /\ UpdatedEntity(r, p).version = log[p].version
<1>1. log[p].version \in 1 .. p /\ Len(log) <= MaxEvents /\ Len(log) \in Nat
    BY EntryFields DEF LogOK
<1>2. UpdatedEntity(r, p) =
         [balance |-> IF log[p].kind = "balance" THEN p ELSE r.balance,
          status  |-> IF log[p].kind = "balance" THEN r.status ELSE p,
          version |-> log[p].version]
    BY DEF UpdatedEntity, EntityOK, Rows
<1>3. UpdatedEntity(r, p) \in Rows
    BY <1>1, <1>2, BoundsAssumption DEF EntityOK, Rows
<1>4. QED  BY <1>1, <1>2, <1>3 DEF EntityOK, Columns, Sets

\* What a rebuild computes shows positions of the log.
LEMMA StateOK ==
    ASSUME LogOK, NEW n \in 1 .. Len(log)
    PROVE  EntityOK(StateOf(n))
<1>1. log[n].version \in 1 .. n /\ Len(log) <= MaxEvents /\ Len(log) \in Nat
      /\ log[1].kind = "created"
    BY EntryFields DEF LogOK
<1>2. \A c \in Columns : LastSetting(c, n) \in 1 .. n
                         /\ log[LastSetting(c, n)].kind \in Sets(c)
    BY <1>1, LastSettingIsSetting
<1>3. StateOf(n) \in Rows
    BY <1>1, <1>2, BoundsAssumption DEF StateOf, Rows, Columns
<1>4. QED  BY <1>1, <1>2, <1>3 DEF EntityOK, StateOf, Columns

\* save() takes each column from the row or from the entity.
LEMMA SavedFields ==
    ASSUME NEW r \in Rows, NEW b \in Rows, NEW e \in Rows
    PROVE  Saved(r, b, e) =
              [balance |-> IF e.balance # b.balance THEN e.balance ELSE r.balance,
               status  |-> IF e.status # b.status THEN e.status ELSE r.status,
               version |-> IF e.version # b.version THEN e.version ELSE r.version]
BY DEF Saved, Rows

\* A save that mixes an entity with the row writes a row of the log's positions.
LEMMA SavedOK ==
    ASSUME NEW r, EntityOK(r), NEW b \in Rows, NEW e, EntityOK(e)
    PROVE  EntityOK(Saved(r, b, e)) /\ Saved(r, r, e) = e
<1>1. r \in Rows /\ e \in Rows
    BY DEF EntityOK
<1>2. Saved(r, r, e) = e
    <2>1. Saved(r, r, e) = [balance |-> e.balance, status |-> e.status, version |-> e.version]
        BY <1>1, SavedFields
    <2>2. QED  BY <1>1, <2>1, RowFields
<1> DEFINE s == Saved(r, b, e)
<1>3. /\ s = [balance |-> s.balance, status |-> s.status, version |-> s.version]
      /\ s.balance \in {e.balance, r.balance} /\ s.status \in {e.status, r.status}
      /\ s.version \in {e.version, r.version}
    BY <1>1, SavedFields
<1> HIDE DEF s
<1>4. s \in Rows
    BY <1>1, <1>3, RowFields DEF Rows
<1>5. EntityOK(s)
    BY <1>3, <1>4 DEF EntityOK, Columns
<1>6. QED  BY <1>2, <1>5 DEF s

------------------------------------------------------------------------------
(* Base is kept by every step.                                              *)

LogGrows == log' = log \/ \E e \in Entries : log' = Append(log, e)

\* Appending changes no earlier entry.
LEMMA LogPrefix ==
    ASSUME LogOK, LogGrows
    PROVE  /\ Len(log) \in Nat /\ Len(log)' \in Nat /\ Len(log) <= Len(log)'
           /\ \A p \in 1 .. Len(log) : log'[p] = log[p]
BY DEF LogOK, LogGrows

\* What rows and jobs have seen of the log stays true when it grows.
LEMMA EntityStays ==
    ASSUME LogOK, LogGrows, NEW r, EntityOK(r)
    PROVE  EntityOK(r)'
<1>1. r \in Rows /\ r.version \in Int
    BY DEF EntityOK, Rows
<1>2. QED  BY <1>1, LogPrefix DEF EntityOK

\* A job keeps what it knows while others append, save and rebuild.
LEMMA JobStays ==
    ASSUME LogOK, LogGrows, CountersOK, rebuilds' \in Nat, rebuilds' >= rebuilds,
           row # NoRow => row' # NoRow, NEW j, JobOK(j)
    PROVE  JobOK(j)'
<1>1. j \in Jobs /\ j.of \in (1 .. Len(log)) \cup (-rebuilds .. -1) /\ rebuilds \in Nat
    BY BoundsAssumption DEF JobOK, CountersOK
<1>2. j.of \in (1 .. Len(log)') \cup (-rebuilds' .. -1)
    BY <1>1, LogPrefix
<1>3. j.of > 0 => log'[j.of] = log[j.of]
    BY <1>1, LogPrefix
<1>4. j.at # "load" => EntityOK(j.entity)'
    BY EntityStays DEF JobOK
<1>5. QED  BY <1>2, <1>3, <1>4 DEF JobOK, Jobs

\* An append of a command that read n events, none for the creation.
LEMMA AppendStep ==
    ASSUME Base, NEW kind \in Kinds,
           NEW n \in IF kind = "created" THEN {0} ELSE Readable,
           kind = "created" => log = <<>>, AppendEvent(kind, n)
    PROVE  /\ LogOK' /\ LogGrows /\ Len(log)' = Len(log) + 1
           /\ log'[Len(log) + 1].kind = kind
           /\ log'[Len(log) + 1].version = IF n = 0 THEN 1 ELSE log[n].version + 1
           /\ kind # "created" => n \in 1 .. Len(log) /\ Len(log) > 0
<1> DEFINE e == [kind |-> kind, version |-> IF n = 0 THEN 1 ELSE log[n].version + 1]
<1>1. /\ log' = Append(log, e) /\ Len(log) < MaxEvents /\ Len(log) \in Nat /\ log \in Seq(Entries)
      /\ LogOK /\ MaxEvents \in Nat
    BY BoundsAssumption DEF AppendEvent, Base, LogOK
<1>2. kind # "created" => n \in 1 .. Len(log) /\ Len(log) > 0
    BY <1>1 DEF Readable
<1>3. e \in Entries /\ e.version <= Len(log) + 1 /\ e.kind = kind
    <2>1. CASE kind = "created"
        BY <2>1, <1>1 DEF Entries
    <2>2. CASE kind # "created"
        <3>1. log[n].version \in 1 .. n
            BY <2>2, <1>1, <1>2, EntryFields
        <3>2. QED  BY <2>2, <3>1, <1>1, <1>2 DEF Entries
    <2>3. QED  BY <2>1, <2>2
<1>4. /\ log' \in Seq(Entries) /\ Len(log)' = Len(log) + 1 /\ log'[Len(log) + 1] = e
      /\ \A p \in 1 .. Len(log) : log'[p] = log[p]
    <2> HIDE DEF e
    <2>1. QED  BY <1>1, <1>3
<1>5. \A p \in 1 .. Len(log)' : /\ log'[p].kind = "created" <=> p = 1
                                /\ log'[p].version <= p
    <2> SUFFICES ASSUME NEW p \in 1 .. Len(log)'
                 PROVE  (log'[p].kind = "created" <=> p = 1) /\ log'[p].version <= p
        OBVIOUS
    <2>1. CASE p \in 1 .. Len(log)
        BY <2>1, <1>1, <1>4 DEF LogOK
    <2>2. CASE p = Len(log) + 1
        <3>1. kind = "created" <=> p = 1
            BY <2>2, <1>1, <1>2
        <3>2. QED  BY <2>2, <3>1, <1>3, <1>4
    <2>3. QED  BY <2>1, <2>2, <1>1, <1>4
<1>6. LogOK'
    BY <1>1, <1>4, <1>5 DEF LogOK
<1>7. QED  BY <1>1, <1>2, <1>3, <1>4, <1>6 DEF LogGrows

\* A new handler's job.
LEMMA WaitingOK ==
    ASSUME NEW p \in 1 .. Len(log), LogOK, log[p].kind \in Projected
    PROVE  JobOK(Waiting(p))
BY DEF JobOK, Waiting, Job, Jobs, LogOK

\* The empty log and read model satisfy the invariant.
LEMMA BaseInit == Init => Base
<1> SUFFICES ASSUME Init PROVE Base
    OBVIOUS
<1>1. log = <<>> /\ row = NoRow /\ jobs = {} /\ CountersOK
    <2>1. rebuilds \in 0 .. MaxRebuilds /\ faults \in 0 .. MaxFaults
        BY BoundsAssumption DEF Init
    <2>2. overlapped \in BOOLEAN /\ disturbed \in BOOLEAN /\ alone \in BOOLEAN
        BY Zenon DEF Init
    <2>3. QED  BY <2>1, <2>2 DEF Init, CountersOK
<1>2. log \in Seq(Entries) /\ Len(log) = 0
    BY <1>1
<1>3. QED  BY <1>1, <1>2, BoundsAssumption DEF Base, LogOK, RowOK

\* The records that handlers and rebuilds start with are jobs.
LEMMA RecordsAreJobs ==
    ASSUME NEW of \in Int, NEW at \in {"load", "reload", "write"},
           NEW entity \in Rows \cup {NoRow}, NEW base \in Rows \cup {NoRow}
    PROVE  Job(of, at, entity, base) \in Jobs
BY DEF Job, Jobs

\* save() has read: the job, by its fields.
LEMMA ReloadedJob ==
    ASSUME NEW j \in Jobs, NEW b
    PROVE  [j EXCEPT !.at = "write", !.base = b] = Job(j.of, "write", j.entity, b)
<1> DEFINE k == [j EXCEPT !.at = "write", !.base = b]
<1>1. k = [c \in DOMAIN j |-> IF c = "base" THEN b ELSE IF c = "at" THEN "write" ELSE j[c]]
    BY DEF Jobs
<1> HIDE DEF k
<1>2. DOMAIN j = {"of", "at", "entity", "base"}
    BY DEF Jobs
<1>3. QED  BY <1>1, <1>2 DEF Job, k

\* A step of a job leaves the log alone.
LEMMA StepIsQuiet ==
    ASSUME NEW j, Step(j)
    PROVE  UNCHANGED <<log, rebuilds, faults>>
BY DEF Step, LoadCreated, LoadMissing, LoadSkipped, LoadUpdate, LoadsUpdate, Begins, Reload,
       Write, InsertRefused

\* What a job's step does to the job.
LEMMA JobStep ==
    ASSUME Base, NEW j \in jobs, Step(j)
    PROVE  /\ row # NoRow => row' # NoRow
           /\ RowOK'
           /\ \/ jobs' = jobs \ {j}
              \/ \E k : jobs' = (jobs \ {j}) \cup {k} /\ JobOK(k)
<1>1. JobOK(j) /\ LogOK /\ RowOK /\ j \in Jobs /\ NoRow \notin Rows
    BY NoRowIsNoRow DEF Base, JobOK
<1>2. j.of > 0 => j.of \in 1 .. Len(log) /\ log[j.of].kind \in Projected
    <2>1. rebuilds \in Nat
        BY BoundsAssumption DEF Base, CountersOK
    <2>2. QED  BY <1>1, <2>1 DEF JobOK, LogOK
<1>3. row = NoRow \/ row \in Rows
    BY <1>1 DEF RowOK, EntityOK
<1>4. CASE LoadCreated(j)
    <2> DEFINE k == Job(j.of, "write", CreatedEntity(j.of), row)
    <2>1. j.of > 0 /\ log[j.of].kind = "created"
        BY <1>1, <1>4 DEF LoadCreated, JobOK
    <2>2. EntityOK(CreatedEntity(j.of))
        BY <1>1, <1>2, <2>1, CreatedEntityOK
    <2>3. JobOK(k)
        BY <1>1, <1>2, <1>3, <2>1, <2>2 DEF JobOK, Jobs, Job, EntityOK
    <2>4. QED  BY <1>1, <1>4, <2>3 DEF LoadCreated, Begins, Moves, RowOK, EntityOK
<1>5. CASE LoadMissing(j) \/ LoadSkipped(j) \/ InsertRefused(j)
    BY <1>1, <1>5 DEF LoadMissing, LoadSkipped, LoadsUpdate, InsertRefused, Begins, Ends,
                      RowOK, EntityOK
<1>6. CASE LoadUpdate(j)
    <2> DEFINE k == Job(j.of, "reload", UpdatedEntity(row, j.of), NoRow)
    <2>1. /\ j.of > 0 /\ log[j.of].kind # "created" /\ row # NoRow /\ jobs' = (jobs \ {j}) \cup {k}
          /\ UNCHANGED <<log, row>>
        BY <1>1, <1>6 DEF LoadUpdate, LoadsUpdate, JobOK, Begins, Moves
    <2>2. log[j.of].kind \in {"balance", "status"} /\ j.of # 1
        BY <1>1, <1>2, <2>1 DEF Projected, LogOK
    <2>3. EntityOK(UpdatedEntity(row, j.of))
        BY <1>1, <1>2, <2>1, <2>2, UpdatedEntityOK DEF RowOK
    <2>4. JobOK(k)
        BY <1>1, <1>2, <2>1, <2>2, <2>3 DEF JobOK, Jobs, Job, EntityOK
    <2>5. QED  BY <1>1, <2>1, <2>4 DEF RowOK, EntityOK
<1>7. CASE Reload(j)
    <2> DEFINE k == [j EXCEPT !.at = "write", !.base = row]
    <2>1. k = Job(j.of, "write", j.entity, row)
        BY <1>1, ReloadedJob
    <2>2. j.at = "reload" /\ jobs' = (jobs \ {j}) \cup {k} /\ UNCHANGED <<log, row>>
        BY <1>7 DEF Reload, Moves
    <2> HIDE DEF k
    <2>3. j.of \in Int /\ j.entity \in Rows \cup {NoRow} /\ row \in Rows \cup {NoRow}
        BY <1>1, <1>3 DEF Jobs
    <2>4. k.of = j.of /\ k.at = "write" /\ k.entity = j.entity /\ k.base = row
        BY <2>1 DEF Job
    <2>5. k \in Jobs
        BY <2>1, <2>3, RecordsAreJobs
    <2>6. EntityOK(k.entity)
        BY <1>1, <2>2, <2>4 DEF JobOK
    <2>7. JobOK(k)
        BY <1>1, <2>2, <2>4, <2>5, <2>6 DEF JobOK
    <2>8. QED  BY <1>1, <2>2, <2>7 DEF RowOK, EntityOK
<1>8. CASE Write(j)
    <2>1. /\ EntityOK(j.entity) /\ jobs' = jobs \ {j} /\ UNCHANGED log
          /\ row' = IF j.base = NoRow THEN j.entity ELSE Saved(row, j.base, j.entity)
          /\ j.base \in Rows \cup {NoRow}
          /\ j.base # NoRow => row # NoRow
        BY <1>1, <1>8 DEF Write, JobOK, Ends, Jobs
    <2>2. EntityOK(row')
        BY <1>1, <2>1, SavedOK DEF RowOK
    <2>3. row' # NoRow /\ EntityOK(row)'
        BY <1>1, <2>1, <2>2 DEF EntityOK
    <2>4. QED  BY <2>1, <2>3 DEF RowOK
<1>9. QED  BY <1>4, <1>5, <1>6, <1>7, <1>8 DEF Step

\* The counters and flags stay in range.
LEMMA CountersStep ==
    ASSUME CountersOK, Next
    PROVE  CountersOK' /\ rebuilds \in Nat /\ rebuilds' \in Nat /\ rebuilds' >= rebuilds
<1>1. /\ rebuilds \in 0 .. MaxRebuilds /\ faults \in 0 .. MaxFaults
      /\ MaxRebuilds \in Nat /\ MaxFaults \in Nat
    BY BoundsAssumption DEF CountersOK
<1>2. /\ rebuilds' \in {rebuilds, rebuilds + 1} /\ (rebuilds' = rebuilds \/ rebuilds < MaxRebuilds)
      /\ faults' \in {faults, faults + 1} /\ (faults' = faults \/ faults < MaxFaults)
    <2>1. CASE \E kind \in Kinds : StoreAndPublish(kind) \/ StoreUnpublished(kind)
        BY <2>1 DEF StoreAndPublish, StoreUnpublished, AppendEvent
    <2>2. CASE \E j \in jobs : Step(j)
        BY <2>2, StepIsQuiet
    <2>3. CASE (\E j \in jobs : JobFails(j)) \/ Rebuild \/ Crash
        BY <2>3 DEF JobFails, Rebuild, Crash
    <2>4. QED  BY <2>1, <2>2, <2>3 DEF Next
<1>3. overlapped' \in BOOLEAN /\ disturbed' \in BOOLEAN /\ alone' \in BOOLEAN
    <2>1. overlapped \in BOOLEAN /\ disturbed \in BOOLEAN /\ alone \in BOOLEAN
        BY DEF CountersOK
    <2>2. CASE \E kind \in Kinds : StoreAndPublish(kind) \/ StoreUnpublished(kind)
        BY <2>1, <2>2, Zenon DEF StoreAndPublish, StoreUnpublished, AppendEvent
    <2>3. CASE \E j \in jobs : Step(j)
        BY <2>1, <2>3, Zenon DEF Step, LoadCreated, LoadMissing, LoadSkipped, LoadUpdate,
                          LoadsUpdate, Begins, Reload, Write, InsertRefused
    <2>4. CASE (\E j \in jobs : JobFails(j)) \/ Rebuild \/ Crash
        BY <2>1, <2>4, Zenon DEF JobFails, Rebuild, Crash
    <2>5. QED  BY <2>2, <2>3, <2>4 DEF Next
<1>4. QED  BY <1>1, <1>2, <1>3 DEF CountersOK

\* Every step keeps log, row and jobs fitting together.
LEMMA BaseStep == Base /\ [Next]_vars => Base'
<1> SUFFICES ASSUME Base, [Next]_vars PROVE Base'
    OBVIOUS
<1>1. CASE UNCHANGED vars
    BY <1>1 DEF vars, Base, LogOK, RowOK, EntityOK, JobOK, CountersOK
<1>2. CASE Next
    <2>1. CountersOK' /\ rebuilds' \in Nat /\ rebuilds' >= rebuilds /\ LogOK /\ RowOK
          /\ rebuilds \in Nat /\ CountersOK
        BY <1>2, CountersStep DEF Base
    <2>2. SUFFICES LogOK' /\ RowOK' /\ \A k \in jobs' : JobOK(k)'
        BY <2>1 DEF Base
    <2>3. ASSUME NEW kind \in Kinds, StoreAndPublish(kind) \/ StoreUnpublished(kind)
          PROVE  LogOK' /\ RowOK' /\ \A k \in jobs' : JobOK(k)'
        <3>1. PICK n \in IF kind = "created" THEN {0} ELSE Readable :
                 (kind = "created" => log = <<>>) /\ AppendEvent(kind, n)
            BY <2>3 DEF StoreAndPublish, StoreUnpublished
        <3>2. LogOK' /\ LogGrows /\ Len(log)' = Len(log) + 1 /\ Len(log) \in Nat
              /\ log'[Len(log) + 1].kind = kind
            BY <2>1, <3>1, AppendStep, LogPrefix
        <3>3. \A j \in jobs : JobOK(j)'
            BY <2>1, <3>1, <3>2, JobStays DEF Base, AppendEvent
        <3>4. row' = row /\ RowOK'
            BY <2>1, <3>1, <3>2, EntityStays DEF AppendEvent, RowOK
        <3>10. PICK p : p = Len(log) + 1
            OBVIOUS
        <3>5. kind \in Projected => JobOK(Waiting(p))'
            BY <3>2, <3>10 DEF JobOK, Waiting, Job, Jobs, LogOK
        <3>6. jobs' = jobs
              \/ (kind \in Projected /\ jobs' = jobs \cup {Waiting(p)})
            BY <2>3, <3>10 DEF StoreAndPublish, StoreUnpublished
        <3>7. QED  BY <3>2, <3>3, <3>4, <3>5, <3>6
    <2>4. ASSUME NEW j \in jobs, Step(j)
          PROVE  LogOK' /\ RowOK' /\ \A k \in jobs' : JobOK(k)'
        <3>1. UNCHANGED <<log, rebuilds, faults>> /\ LogGrows /\ LogOK'
            BY <2>1, <2>4, StepIsQuiet DEF LogGrows, LogOK
        <3>2. /\ row # NoRow => row' # NoRow
              /\ RowOK'
              /\ \/ jobs' = jobs \ {j}
                 \/ \E k : jobs' = (jobs \ {j}) \cup {k} /\ JobOK(k)
            BY <2>4, JobStep
        <3>3. \A k : JobOK(k) => JobOK(k)'
            BY <2>1, <3>1, <3>2, JobStays
        <3>4. QED  BY <3>1, <3>2, <3>3 DEF Base
    <2>5. CASE (\E j \in jobs : JobFails(j)) \/ Crash
        <3>1. UNCHANGED <<log, row, rebuilds>> /\ jobs' \subseteq jobs
            BY <2>5 DEF JobFails, Crash, Ends
        <3>2. LogGrows /\ LogOK' /\ RowOK'
            BY <2>1, <3>1 DEF LogGrows, LogOK, RowOK, EntityOK
        <3>3. \A k \in jobs : JobOK(k)'
            BY <2>1, <3>1, <3>2, JobStays DEF Base
        <3>4. QED  BY <3>1, <3>2, <3>3
    <2>6. CASE Rebuild
        <3>1. PICK n \in Readable :
                 jobs' = jobs \cup {Job(-rebuilds - 1, "reload", StateOf(n), NoRow)}
            BY <2>6 DEF Rebuild
        <3>2. UNCHANGED <<log, row>> /\ rebuilds' = rebuilds + 1 /\ LogGrows
              /\ n \in 1 .. Len(log)
            BY <2>6 DEF Rebuild, LogGrows, Readable
        <3>3. LogOK' /\ RowOK'
            BY <2>1, <3>2 DEF LogOK, RowOK, EntityOK
        <3>4. \A j \in jobs : JobOK(j)'
            BY <2>1, <3>2, JobStays DEF Base
        <3>5. EntityOK(StateOf(n))
            BY <2>1, <3>2, StateOK
        <3>11. PICK s : s = StateOf(n)
            OBVIOUS
        <3>6. EntityOK(s) /\ EntityOK(s)' /\ s \in Rows
            BY <2>1, <3>2, <3>5, <3>11, EntityStays DEF EntityOK
        <3>12. PICK l : l = Job(-rebuilds - 1, "reload", s, NoRow)
            OBVIOUS
        <3>7. l.of = -rebuilds - 1 /\ l.at = "reload" /\ l.entity = s /\ l.base = NoRow
              /\ l \in Jobs
            BY <2>1, <3>6, <3>12 DEF Job, Jobs
        <3>8. l.of \in Int /\ l.of \in -rebuilds' .. -1 /\ l.of < 0
            BY <2>1, <3>2, <3>7
        <3>9. JobOK(l)'
            BY <3>2, <3>6, <3>7, <3>8 DEF JobOK
        <3>13. QED  BY <3>1, <3>3, <3>4, <3>9, <3>11, <3>12
    <2>7. QED  BY <1>2, <2>3, <2>4, <2>5, <2>6 DEF Next
<1>3. QED  BY <1>1, <1>2

\* The inductive invariant of the types: the log, the row and the jobs fit together.
THEOREM BaseInvariant == Spec => []Base
BY BaseInit, BaseStep, PTL DEF Spec

\* The types the runs check follow.
LEMMA BaseTypes == Base => TypeOK
<1> SUFFICES ASSUME Base PROVE TypeOK
    OBVIOUS
<1>1. LogOK /\ RowOK /\ (\A j \in jobs : JobOK(j)) /\ CountersOK
    BY DEF Base
<1>2. log \in Seq([kind : Kinds, version : 1 .. MaxEvents]) /\ Len(log) <= MaxEvents
    BY <1>1 DEF LogOK, Entries
<1>3. /\ row \in Rows \cup {NoRow}
      /\ row # NoRow => \A c \in {"balance", "status"} : log[row[c]].kind \in Sets(c)
    BY <1>1 DEF RowOK, EntityOK, Columns
<1>4. \A j \in jobs :
          /\ j.of \in (1 .. Len(log)) \cup (-rebuilds .. -1)
          /\ j.at \in {"load", "reload", "write"}
          /\ j.entity \in Rows \cup {NoRow} /\ j.base \in Rows \cup {NoRow}
    BY <1>1 DEF JobOK, Jobs
<1>5. rebuilds \in 0 .. MaxRebuilds /\ faults \in 0 .. MaxFaults
    BY <1>1 DEF CountersOK
<1>6. {overlapped, disturbed, alone} \subseteq BOOLEAN
    BY <1>1, Zenon DEF CountersOK
<1>7. QED  BY <1>2, <1>3, <1>4, <1>5, <1>6 DEF TypeOK

\* Every state the handlers and rebuilds reach is well typed.
THEOREM TypeCorrect == Spec => []TypeOK
BY BaseInvariant, BaseTypes, PTL

------------------------------------------------------------------------------
(* Until a rebuild, versions move forward while jobs do not overlap.        *)

\* Before any rebuild: one job per event, and the creation's job inserts the row.
OneJobPerEvent ==
    /\ \A j, k \in jobs : j.of = k.of => j = k
    /\ \A j \in jobs : j.of > 0
    /\ row # NoRow => \A j \in jobs : j.of # 1
    /\ \A j \in Midway : j.of # 1 => row # NoRow

\* Before any overlap: the one job that has read the row finds it as it was.
OneMidway ==
    /\ \A j, k \in Midway : j = k
    /\ \A j \in Midway : /\ j.at = "write" => j.base = row
                         /\ row # NoRow => j.entity.version >= row.version

VersionInv == rebuilds = 0 => OneJobPerEvent /\ (~overlapped => OneMidway)

\* At first no job is under way.
LEMMA VersionInit == Init => VersionInv
BY DEF Init, VersionInv, OneJobPerEvent, OneMidway, Midway

\* Jobs that end without a trace.
LEMMA FewerJobs ==
    ASSUME VersionInv, rebuilds' = rebuilds, overlapped => overlapped',
           row' = row, jobs' \subseteq jobs
    PROVE  VersionInv'
BY DEF VersionInv, OneJobPerEvent, OneMidway, Midway

\* A job's next state.
LEMMA NextState ==
    ASSUME OneJobPerEvent, NEW j \in jobs, NEW k, k.of = j.of,
           jobs' = (jobs \ {j}) \cup {k}, row' = row, k.of # 1 => row # NoRow
    PROVE  OneJobPerEvent'
BY DEF OneJobPerEvent, Midway

\* Every step keeps the one job that is past its read the only one, unless they overlapped.
LEMMA VersionStep == Base /\ VersionInv /\ [Next]_vars => VersionInv'
<1> SUFFICES ASSUME Base, VersionInv, [Next]_vars PROVE VersionInv'
    OBVIOUS
<1>1. CASE rebuilds' # 0
    BY <1>1 DEF VersionInv
<1>2. CASE UNCHANGED vars
    BY <1>2, FewerJobs DEF vars
<1>3. CASE Next /\ rebuilds' = 0
    <2>1. rebuilds \in Nat /\ rebuilds' >= rebuilds /\ LogOK /\ RowOK /\ NoRow \notin Rows
        BY <1>3, CountersStep, NoRowIsNoRow DEF Base
    <2>2. rebuilds = 0 /\ OneJobPerEvent /\ (~overlapped => OneMidway)
        BY <1>3, <2>1 DEF VersionInv
    <2>3. ASSUME NEW kind \in Kinds, StoreAndPublish(kind) \/ StoreUnpublished(kind)
          PROVE  VersionInv'
        <3>1. PICK n \in IF kind = "created" THEN {0} ELSE Readable :
                 (kind = "created" => log = <<>>) /\ AppendEvent(kind, n)
            BY <2>3 DEF StoreAndPublish, StoreUnpublished
        <3>2. Len(log) \in Nat /\ (kind # "created" => Len(log) > 0)
            BY <2>1, <3>1, AppendStep DEF LogOK
        <3>3. UNCHANGED <<row, rebuilds, overlapped>>
            BY <3>1 DEF AppendEvent
        <3>4. PICK p : p = Len(log) + 1
            OBVIOUS
        <3>5. jobs' = jobs \/ jobs' = jobs \cup {Waiting(p)}
            BY <2>3, <3>4 DEF StoreAndPublish, StoreUnpublished
        <3>6. CASE jobs' = jobs
            BY <3>3, <3>6, FewerJobs
        <3>7. CASE jobs' = jobs \cup {Waiting(p)}
            <4>1. p = 1 => row = NoRow
                BY <2>1, <3>2, <3>4 DEF RowOK, EntityOK, Columns
            <4>2. \A j \in jobs : j.of # p /\ j.of > 0
                BY <2>1, <2>2, <3>2, <3>4 DEF Base, JobOK
            <4>3. Waiting(p).of = p /\ Waiting(p).at = "load" /\ p > 0
                BY <3>2, <3>4 DEF Waiting, Job
            <4>4. Midway' = Midway
                BY <3>7, <4>3 DEF Midway
            <4>5. OneJobPerEvent'
                BY <2>2, <3>3, <3>7, <4>1, <4>2, <4>3, <4>4 DEF OneJobPerEvent
            <4>6. OneMidway => OneMidway'
                BY <3>3, <4>4 DEF OneMidway
            <4>7. QED  BY <2>2, <3>3, <4>5, <4>6 DEF VersionInv
        <3>8. QED  BY <3>5, <3>6, <3>7
    <2>4. ASSUME NEW j \in jobs, Step(j)
          PROVE  VersionInv'
        <3>1. JobOK(j) /\ j \in Jobs /\ rebuilds' = rebuilds /\ j.of > 0 /\ log' = log
            BY <2>2, <2>4, StepIsQuiet DEF Base, JobOK, OneJobPerEvent
        <3>2. CASE LoadMissing(j) \/ LoadSkipped(j) \/ InsertRefused(j)
            <4>1. overlapped => overlapped'
                BY <3>2, Zenon DEF LoadMissing, LoadSkipped, LoadsUpdate, InsertRefused, Begins
            <4>2. row' = row /\ jobs' \subseteq jobs
                BY <3>2 DEF LoadMissing, LoadSkipped, LoadsUpdate, InsertRefused, Begins, Ends
            <4>3. QED  BY <3>1, <4>1, <4>2, FewerJobs
        <3>3. CASE LoadCreated(j)
            <4>1. PICK k : k = Job(j.of, "write", CreatedEntity(j.of), row)
                OBVIOUS
            <4>2. /\ jobs' = (jobs \ {j}) \cup {k} /\ row' = row
                  /\ overlapped' = (overlapped \/ Midway # {}) /\ log[j.of].kind = "created"
                BY <3>3, <4>1 DEF LoadCreated, Begins, Moves
            <4>3. k.of = j.of /\ k.at = "write" /\ k.base = row /\ j.of = 1
                BY <2>1, <3>1, <4>1, <4>2 DEF Job, JobOK, LogOK
            <4>4. row = NoRow
                BY <2>2, <4>3 DEF OneJobPerEvent
            <4>5. OneJobPerEvent'
                BY <2>2, <4>2, <4>3, NextState
            <4>6. ~overlapped' => OneMidway'
                BY <4>2, <4>3, <4>4 DEF OneMidway, Midway
            <4>7. QED  BY <4>5, <4>6 DEF VersionInv
        <3>4. CASE LoadUpdate(j)
            <4>1. PICK k : k = Job(j.of, "reload", UpdatedEntity(row, j.of), NoRow)
                OBVIOUS
            <4>2. /\ jobs' = (jobs \ {j}) \cup {k} /\ row' = row /\ row # NoRow
                  /\ overlapped' = (overlapped \/ Midway # {}) /\ log[j.of].kind # "created"
                  /\ ~Skips(row, j.of)
                BY <3>4, <4>1 DEF LoadUpdate, LoadsUpdate, Begins, Moves
            <4>3. /\ k.of = j.of /\ k.at = "reload" /\ k.entity = UpdatedEntity(row, j.of)
                  /\ j.of \in 1 .. Len(log) /\ log[j.of].kind \in {"balance", "status"}
                BY <2>1, <2>2, <3>1, <4>1, <4>2 DEF Job, JobOK, Projected
            <4>4. k.entity.version >= row.version
                <5>1. k.entity.version = log[j.of].version
                    BY <2>1, <4>2, <4>3, UpdatedEntityOK DEF RowOK
                <5>2. log[j.of].version \in Int /\ row.version \in Int
                    BY <2>1, <4>2, <4>3, EntryFields, RowFields DEF RowOK, EntityOK
                <5>3. QED  BY <4>2, <5>1, <5>2 DEF Skips
            <4>5. OneJobPerEvent'
                BY <2>2, <4>2, <4>3, NextState
            <4>6. ~overlapped' => OneMidway'
                BY <4>2, <4>3, <4>4 DEF OneMidway, Midway
            <4>7. QED  BY <4>5, <4>6 DEF VersionInv
        <3>5. CASE Reload(j)
            <4>1. PICK k : k = [j EXCEPT !.at = "write", !.base = row]
                OBVIOUS
            <4>2. k = Job(j.of, "write", j.entity, row)
                BY <3>1, <4>1, ReloadedJob
            <4>3. /\ jobs' = (jobs \ {j}) \cup {k} /\ row' = row /\ overlapped' = overlapped
                  /\ j \in Midway
                BY <3>5, <4>1 DEF Reload, Moves, Midway
            <4>4. k.of = j.of /\ k.at = "write" /\ k.base = row /\ k.entity = j.entity
                BY <4>2 DEF Job
            <4>5. OneJobPerEvent'
                <5>1. k.of # 1 => row # NoRow
                    BY <2>2, <4>3, <4>4 DEF OneJobPerEvent
                <5>2. QED  BY <2>2, <4>3, <4>4, <5>1, NextState
            <4>6. ~overlapped' => OneMidway'
                BY <2>2, <4>3, <4>4 DEF OneMidway, Midway
            <4>7. QED  BY <4>5, <4>6 DEF VersionInv
        <3>6. CASE Write(j)
            <4>1. jobs' = jobs \ {j} /\ overlapped' = overlapped /\ j \in Midway
                BY <3>6 DEF Write, Ends, Midway
            <4>2. row' # NoRow
                <5>1. RowOK' /\ row' = IF j.base = NoRow THEN j.entity
                                       ELSE Saved(row, j.base, j.entity)
                    BY <2>4, <3>6, JobStep DEF Write
                <5>2. CASE j.base = NoRow
                    <6>1. EntityOK(j.entity)
                        BY <3>1, <3>6 DEF JobOK, Write
                    <6>2. QED  BY <2>1, <5>1, <5>2, <6>1 DEF EntityOK
                <5>3. CASE j.base # NoRow
                    <6>1. row # NoRow
                        BY <3>1, <5>3 DEF JobOK
                    <6>2. QED  BY <2>4, <6>1, JobStep
                <5>4. QED  BY <5>2, <5>3
            <4>3. \A k \in jobs \ {j} : k.of # 1
                <5>1. j.of # 1 => row # NoRow
                    BY <2>2, <4>1 DEF OneJobPerEvent
                <5>2. QED  BY <2>2, <5>1 DEF OneJobPerEvent
            <4>4. OneJobPerEvent'
                BY <2>2, <4>1, <4>2, <4>3 DEF OneJobPerEvent, Midway
            <4>5. ~overlapped' => OneMidway'
                BY <2>2, <4>1 DEF OneMidway, Midway
            <4>6. QED  BY <4>4, <4>5 DEF VersionInv
        <3>7. QED  BY <2>4, <3>2, <3>3, <3>4, <3>5, <3>6 DEF Step
    <2>5. CASE (\E j \in jobs : JobFails(j)) \/ Crash
        BY <2>5, FewerJobs DEF JobFails, Crash, Ends
    <2>6. CASE Rebuild
        BY <1>3, <2>2, <2>6 DEF Rebuild
    <2>7. QED  BY <1>3, <2>3, <2>4, <2>5, <2>6 DEF Next
<1>4. QED  BY <1>1, <1>2, <1>3

\* Only a write changes the row.
LEMMA OnlyWritesWrite ==
    ASSUME Next, ~\E j \in jobs : Write(j)
    PROVE  row' = row
BY DEF Next, Step, StoreAndPublish, StoreUnpublished, AppendEvent, LoadCreated, LoadMissing,
       LoadSkipped, LoadUpdate, LoadsUpdate, Begins, Reload, InsertRefused, JobFails, Rebuild,
       Crash

\* Without a rebuild, jobs that do not overlap never take the row back to an older
\* version: the version checks of the projection handlers.
THEOREM VersionsForward == Spec => VersionsMoveForward
<1>1. Base /\ VersionInv /\ [Next]_vars
        => [row # NoRow /\ ~overlapped' /\ rebuilds = 0 => row'.version >= row.version]_vars
    <2> SUFFICES ASSUME Base, VersionInv, Next, row # NoRow, ~overlapped', rebuilds = 0
                 PROVE  row'.version >= row.version
        OBVIOUS
    <2>1. EntityOK(row) /\ row \in Rows /\ row.version \in Int
        BY RowFields DEF Base, RowOK, EntityOK
    <2>2. CASE row' = row
        BY <2>1, <2>2
    <2>3. ASSUME NEW j \in jobs, Write(j)
          PROVE  row'.version >= row.version
        <3>1. /\ overlapped' = overlapped /\ j.at = "write" /\ j \in Midway
              /\ j.base = NoRow => row = NoRow
              /\ row' = IF j.base = NoRow THEN j.entity ELSE Saved(row, j.base, j.entity)
            BY <2>3 DEF Write, Midway
        <3>2. j.base = row /\ j.entity.version >= row.version
            BY <3>1 DEF VersionInv, OneMidway
        <3>3. EntityOK(j.entity)
            BY <3>1 DEF Base, JobOK
        <3>4. Saved(row, row, j.entity) = j.entity
            BY <2>1, <3>3, SavedOK
        <3>5. QED  BY <3>1, <3>2, <3>4
    <2>4. QED  BY <2>2, <2>3, OnlyWritesWrite
<1>2. Spec => []VersionInv
    BY BaseInit, BaseStep, VersionInit, VersionStep, BaseInvariant, PTL DEF Spec
<1>3. QED  BY <1>1, <1>2, BaseInvariant, PTL DEF Spec, VersionsMoveForward

------------------------------------------------------------------------------
(* What an undisturbed row is up to date with.                              *)

\* r has the values the first d events leave, and the version of the d-th, if
\* it is one that handlers project.
Reflects(r, d) ==
    /\ r.balance = LastSetting("balance", d) /\ r.status = LastSetting("status", d)
    /\ log[d].kind \in Projected => r.version = log[d].version

\* The events behind the d-th are newer than a row of the given version, and
\* each is newer than those before it.
Newer(version, d) ==
    /\ \A p \in d + 1 .. Len(log) : log[p].version > version
    /\ \A p, q \in d + 1 .. Len(log) : p < q => log[p].version < log[q].version
    /\ Len(log) > 0 => log[Len(log)].version >= version

\* What the row is up to date with: the first d events, 0 when there is no row.
\* The projected events behind them still have their handlers.
UpTo(d) ==
    /\ d = 0 <=> row = NoRow
    /\ d > 0 => /\ Reflects(row, d) /\ Newer(row.version, d)
                /\ \A k \in jobs : k.of \in 1 .. d => log[k.of].version <= row.version
    /\ d = 0 => Newer(0, 0)
    /\ \A p \in d + 1 .. Len(log) :
          log[p].kind \in Projected => \E k \in jobs : k.of = p

\* The job that has read the row will bring it up to a later event.
MidwayOK(j, d) ==
    /\ j.at = "write" => j.base = row
    /\ j.of > 0 => /\ j.of > d /\ \A k \in jobs \ {j} : k.of > 0 => k.of > j.of
                   /\ IF j.of = 1 THEN j.entity = CreatedEntity(1) /\ row = NoRow
                      ELSE row # NoRow /\ j.entity = UpdatedEntity(row, j.of)
    /\ j.of < 0 => \E n \in 1 .. Len(log) :
                      /\ n >= d /\ j.entity = StateOf(n)
                      /\ Newer(log[n].version, n)
                      /\ \A k \in jobs : k.of \in 1 .. n => log[k.of].version <= log[n].version

Follows == \E d \in 0 .. Len(log) : UpTo(d) /\ \A j \in Midway : MidwayOK(j, d)

UndisturbedInv == ~disturbed => (\A j, k \in Midway : j = k) /\ Follows

\* A rebuild that is alone since it read the whole log.
AloneInv ==
    alone => /\ \A j, k \in jobs : j = k
             /\ \A j \in jobs : /\ j.of < 0 /\ j.entity = StateOf(Len(log))
                                /\ j.at = "write" => j.base = row
                                /\ log # <<>>

\* At first nothing is disturbed and nothing runs.
LEMMA UndisturbedInit == Init => UndisturbedInv /\ AloneInv
<1> SUFFICES ASSUME Init PROVE UndisturbedInv /\ AloneInv
    OBVIOUS
<1>1. log = <<>> /\ row = NoRow /\ jobs = {} /\ Len(log) = 0
    BY DEF Init
<1>2. Midway = {}
    BY <1>1 DEF Midway
<1>3. UpTo(0)
    BY <1>1 DEF UpTo, Newer
<1>4. Follows
    BY <1>1, <1>2, <1>3 DEF Follows
<1>5. QED  BY <1>1, <1>2, <1>4 DEF UndisturbedInv, AloneInv

\* What the log says of its first events stays.
LEMMA SettingsStay ==
    ASSUME LogOK, LogGrows, NEW d \in 0 .. Len(log), NEW c
    PROVE  LastSetting(c, d)' = LastSetting(c, d)
<1>1. \A p \in 1 .. d : log'[p] = log[p]
    BY LogPrefix
<1>2. {p \in 1 .. d : log'[p].kind \in Sets(c)} = {p \in 1 .. d : log[p].kind \in Sets(c)}
    BY <1>1
<1>3. QED  BY <1>2 DEF LastSetting

\* A row that shows the first events of the log still does when the log grows.
LEMMA ReflectsStays ==
    ASSUME LogOK, LogGrows, NEW d \in 1 .. Len(log), NEW r, Reflects(r, d)
    PROVE  Reflects(r, d)'
<1>1. log'[d] = log[d]
    BY LogPrefix
<1>2. LastSetting("balance", d)' = LastSetting("balance", d)
      /\ LastSetting("status", d)' = LastSetting("status", d)
    BY SettingsStay
<1>3. QED  BY <1>1, <1>2 DEF Reflects

\* A rebuild's result for a prefix does not depend on later events.
LEMMA StateStays ==
    ASSUME LogOK, LogGrows, NEW n \in 1 .. Len(log)
    PROVE  StateOf(n)' = StateOf(n)
<1>1. log'[n] = log[n]
    BY LogPrefix
<1>2. LastSetting("balance", n)' = LastSetting("balance", n)
      /\ LastSetting("status", n)' = LastSetting("status", n)
    BY SettingsStay
<1>3. QED  BY <1>1, <1>2 DEF StateOf

\* Later events are newer than the d-th.
LEMMA NewerThan ==
    ASSUME LogOK, NEW v \in Nat, NEW d \in 0 .. Len(log), Newer(v, d),
           NEW p \in d + 1 .. Len(log)
    PROVE  Newer(log[p].version, p)
<1>1. p \in 1 .. Len(log) /\ log[p].version \in Int /\ Len(log) \in Nat
    BY EntryFields DEF LogOK
<1>2. \A q \in p + 1 .. Len(log) : log[q].version > log[p].version
    <2> SUFFICES ASSUME NEW q \in p + 1 .. Len(log) PROVE log[q].version > log[p].version
        OBVIOUS
    <2>1. q \in d + 1 .. Len(log) /\ p < q /\ q \in 1 .. Len(log)
        BY <1>1
    <2>2. log[q].version \in Int
        BY <2>1, EntryFields
    <2>3. QED  BY <1>1, <2>1, <2>2 DEF Newer
<1>3. \A q, r \in p + 1 .. Len(log) : q < r => log[q].version < log[r].version
    BY <1>1 DEF Newer
<1>4. log[Len(log)].version >= log[p].version
    <2>1. CASE p = Len(log)
        BY <1>1, <2>1
    <2>2. CASE p # Len(log)
        <3>1. Len(log) \in p + 1 .. Len(log) /\ Len(log) \in 1 .. Len(log)
            BY <1>1, <2>2
        <3>2. log[Len(log)].version \in Int
            BY <3>1, EntryFields
        <3>3. QED  BY <1>1, <1>2, <3>1, <3>2
    <2>3. QED  BY <2>1, <2>2
<1>5. QED  BY <1>2, <1>3, <1>4 DEF Newer

\* One more event, of a command that read the whole log.
LEMMA NewerAppended ==
    ASSUME LogOK, LogOK', LogGrows, Len(log)' = Len(log) + 1,
           log'[Len(log) + 1].version = IF Len(log) = 0 THEN 1 ELSE log[Len(log)].version + 1,
           NEW v \in Nat, NEW d \in 0 .. Len(log), Newer(v, d), Len(log) = 0 => v = 0
    PROVE  Newer(v, d)'
<1> DEFINE L == Len(log)
<1>1. L \in Nat /\ \A p \in 1 .. L : log'[p] = log[p] /\ log[p].version \in Int
    BY LogPrefix, EntryFields
<1>2. PICK n \in Nat : n = L
    BY <1>1
<1>3. log'[n + 1].version > v
    BY <1>1, <1>2 DEF Newer
<1>4. \A p \in d + 1 .. n : log'[n + 1].version > log'[p].version
    <2> SUFFICES ASSUME NEW p \in d + 1 .. n PROVE log'[n + 1].version > log'[p].version
        OBVIOUS
    <2>1. p \in 1 .. n /\ n > 0 /\ n \in d + 1 .. n
        BY <1>2
    <2>2. log[n].version >= log[p].version
        BY <1>1, <1>2, <2>1 DEF Newer
    <2>3. QED  BY <1>1, <1>2, <2>1, <2>2
<1>5. \A p \in d + 1 .. n + 1 : log'[p].version > v
    BY <1>1, <1>2, <1>3 DEF Newer
<1>6. \A p, q \in d + 1 .. n + 1 : p < q => log'[p].version < log'[q].version
    <2> SUFFICES ASSUME NEW p \in d + 1 .. n + 1, NEW q \in d + 1 .. n + 1, p < q
                 PROVE  log'[p].version < log'[q].version
        OBVIOUS
    <2>1. p \in d + 1 .. n /\ p \in 1 .. n
        BY <1>2
    <2>2. CASE q = n + 1
        BY <1>1, <1>2, <1>4, <2>1, <2>2
    <2>3. CASE q # n + 1
        <3>1. q \in d + 1 .. n /\ q \in 1 .. n
            BY <1>2, <2>3
        <3>2. log[p].version < log[q].version
            BY <1>2, <2>1, <3>1 DEF Newer
        <3>3. QED  BY <1>1, <1>2, <2>1, <3>1, <3>2
    <2>4. QED  BY <2>2, <2>3
<1>7. log'[n + 1].version >= v
    <2>1. log'[n + 1].version \in Int
        BY <1>1, <1>2
    <2>2. QED  BY <1>3, <2>1
<1>8. Len(log)' = n + 1
    BY <1>2
<1>9. QED  BY <1>5, <1>6, <1>7, <1>8 DEF Newer

\* Steps that leave log and row alone, and a job for every projected event.
LEMMA UpToStays ==
    ASSUME NEW d \in 0 .. Len(log), UpTo(d), UNCHANGED <<log, row>>,
           \A k \in jobs' : k.of \in 1 .. d => \E l \in jobs : l.of = k.of,
           \A p \in d + 1 .. Len(log) :
              (\E k \in jobs : k.of = p) => \E k \in jobs' : k.of = p
    PROVE  UpTo(d)'
<1>1. \A r, n : Reflects(r, n) => Reflects(r, n)'
    BY DEF Reflects, LastSetting
<1>2. \A v, n : Newer(v, n) => Newer(v, n)'
    BY DEF Newer
<1>3. QED  BY <1>1, <1>2 DEF UpTo

\* Between the last event a row is up to date with and the next handler's event,
\* nothing is projected.
LEMMA ReflectsUpdate ==
    ASSUME LogOK, NEW d \in 1 .. Len(log), NEW p \in d + 1 .. Len(log), NEW r \in Rows,
           Reflects(r, d), log[p].kind \in {"balance", "status"},
           \A q \in d + 1 .. p - 1 : log[q].kind \notin Projected
    PROVE  Reflects(UpdatedEntity(r, p), p)
<1> DEFINE e == UpdatedEntity(r, p)
<1>1. Len(log) \in Nat /\ log[1].kind = "created" /\ d \in Nat /\ p \in Nat
    BY DEF LogOK
<1>2. \A c \in Columns :
         /\ LastSetting(c, d) \in 1 .. d /\ log[LastSetting(c, d)].kind \in Sets(c)
         /\ \A q \in 1 .. d : log[q].kind \in Sets(c) => q <= LastSetting(c, d)
    BY <1>1, LastSettingIsSetting
<1>3. \A c \in Columns : log[p].kind \in Sets(c) => LastSetting(c, p) = p
    <2> SUFFICES ASSUME NEW c \in Columns, log[p].kind \in Sets(c)
                 PROVE  LastSetting(c, p) = p
        OBVIOUS
    <2>1. p \in 1 .. p /\ p > 0 /\ \A q \in p + 1 .. p : log[q].kind \notin Sets(c)
        BY <1>1
    <2>2. QED  BY <1>1, <2>1, LastSettingUnique
<1>4. \A c \in Columns : log[p].kind \notin Sets(c) => LastSetting(c, p) = LastSetting(c, d)
    <2> SUFFICES ASSUME NEW c \in Columns, log[p].kind \notin Sets(c)
                 PROVE  LastSetting(c, p) = LastSetting(c, d)
        OBVIOUS
    <2>1. PICK m \in 1 .. d : m = LastSetting(c, d)
        BY <1>2
    <2>2. m \in 1 .. p /\ p > 0 /\ log[m].kind \in Sets(c)
        BY <1>1, <1>2, <2>1
    <2>3. \A q \in m + 1 .. p : log[q].kind \notin Sets(c)
        <3> SUFFICES ASSUME NEW q \in m + 1 .. p PROVE log[q].kind \notin Sets(c)
            OBVIOUS
        <3>1. CASE q <= d
            BY <1>1, <1>2, <2>1, <3>1
        <3>2. CASE q > d /\ q < p
            <4>1. log[q].kind \notin Projected
                BY <1>1, <3>2
            <4>2. QED  BY <4>1 DEF Projected, Sets
        <3>3. CASE q = p
            BY <3>3
        <3>4. QED  BY <1>1, <3>1, <3>2, <3>3
    <2>4. QED  BY <1>1, <2>1, <2>2, <2>3, LastSettingUnique
<1>5. e = [balance |-> IF log[p].kind = "balance" THEN p ELSE r.balance,
           status  |-> IF log[p].kind = "balance" THEN r.status ELSE p,
           version |-> log[p].version]
    BY DEF UpdatedEntity, Rows
<1>6. r.balance = LastSetting("balance", d) /\ r.status = LastSetting("status", d)
    BY DEF Reflects
<1>7. CASE log[p].kind = "balance"
    <2>1. log[p].kind \in Sets("balance") /\ log[p].kind \notin Sets("status")
        BY <1>7 DEF Sets
    <2>2. LastSetting("balance", p) = p /\ LastSetting("status", p) = LastSetting("status", d)
        BY <1>3, <1>4, <2>1 DEF Columns
    <2>3. QED  BY <1>5, <1>6, <1>7, <2>2 DEF Reflects
<1>8. CASE log[p].kind = "status"
    <2>1. log[p].kind \in Sets("status") /\ log[p].kind \notin Sets("balance")
        BY <1>8 DEF Sets
    <2>2. LastSetting("status", p) = p /\ LastSetting("balance", p) = LastSetting("balance", d)
        BY <1>3, <1>4, <2>1 DEF Columns
    <2>3. QED  BY <1>5, <1>6, <1>8, <2>2 DEF Reflects
<1>9. QED  BY <1>7, <1>8

\* The created row shows the first event.
LEMMA ReflectsCreation ==
    ASSUME LogOK, Len(log) > 0
    PROVE  Reflects(CreatedEntity(1), 1)
<1>1. Len(log) \in Nat /\ log[1].kind = "created"
    BY DEF LogOK
<1>2. \A c \in Columns : LastSetting(c, 1) = 1
    <2>1. \A c \in Columns : log[1].kind \in Sets(c)
        BY <1>1 DEF Columns, Sets
    <2>2. \A p \in 1 + 1 .. 1 : FALSE
        OBVIOUS
    <2>3. QED  BY <1>1, <2>1, <2>2, LastSettingUnique
<1>3. QED  BY <1>2 DEF Reflects, CreatedEntity, Columns

\* A rebuilt row shows the events it was built from.
LEMMA ReflectsState ==
    ASSUME NEW n
    PROVE  Reflects(StateOf(n), n)
BY DEF Reflects, StateOf

\* A row that reflects n events is up to date with them when no handler of one of
\* them could still apply its event.
LEMMA Brought ==
    ASSUME LogOK, NEW n \in 1 .. Len(log), NEW r, r # NoRow, row' = r, log' = log,
           Reflects(r, n), Newer(r.version, n),
           \A k \in jobs' : k.of \in 1 .. n => log[k.of].version <= r.version,
           \A p \in n + 1 .. Len(log) : log[p].kind \in Projected => \E k \in jobs' : k.of = p
    PROVE  UpTo(n)'
<1>1. Reflects(r, n)' /\ Newer(r.version, n)'
    BY DEF Reflects, LastSetting, Newer
<1>2. n > 0 /\ n # 0
    BY DEF LogOK
<1>3. QED  BY <1>1, <1>2 DEF UpTo

------------------------------------------------------------------------------
(* The undisturbed row stays up to date with something.                     *)

\* A published event of a command that read the whole log.
LEMMA FollowsAppend ==
    ASSUME Base, NEW kind \in Kinds, StoreAndPublish(kind), ~disturbed', Follows
    PROVE  Midway' = Midway /\ Follows'
<1>1. PICK n \in IF kind = "created" THEN {0} ELSE Readable :
         /\ kind = "created" => log = <<>>
         /\ AppendEvent(kind, n)
         /\ jobs' = IF kind \in Projected THEN jobs \cup {Waiting(Len(log) + 1)} ELSE jobs
         /\ disturbed' = (disturbed \/ n # Len(log))
    BY DEF StoreAndPublish
<1>2. /\ LogOK /\ LogOK' /\ LogGrows /\ Len(log)' = Len(log) + 1 /\ Len(log) \in Nat
      /\ log'[Len(log) + 1].kind = kind
      /\ log'[Len(log) + 1].version = IF n = 0 THEN 1 ELSE log[n].version + 1
      /\ n = Len(log) /\ row' = row
      /\ \A p \in 1 .. Len(log) : log'[p] = log[p]
    <2>1. /\ LogOK /\ LogOK' /\ LogGrows /\ Len(log)' = Len(log) + 1
          /\ log'[Len(log) + 1].kind = kind
          /\ log'[Len(log) + 1].version = IF n = 0 THEN 1 ELSE log[n].version + 1
        BY <1>1, AppendStep DEF Base
    <2>2. n = Len(log)
        BY <1>1
    <2>3. row' = row
        BY <1>1 DEF AppendEvent
    <2>4. QED  BY <2>1, <2>2, <2>3, LogPrefix
<1>3. PICK l \in Nat : l = Len(log)
    BY <1>2
<1>4. PICK w : w = Waiting(l + 1)
    OBVIOUS
<1>5. w.of = l + 1 /\ w.at = "load"
    BY <1>4 DEF Waiting, Job
<1>6. jobs' = jobs \/ jobs' = jobs \cup {w}
    BY <1>1, <1>3, <1>4
<1>7. kind \in Projected => w \in jobs'
    BY <1>1, <1>3, <1>4
<1>8. Midway' = Midway
    BY <1>5, <1>6 DEF Midway
<1>9. PICK d \in 0 .. l : UpTo(d) /\ \A j \in Midway : MidwayOK(j, d)
    BY <1>3 DEF Follows
<1>10. \A v \in Nat, m \in 0 .. l : Newer(v, m) /\ (l = 0 => v = 0) => Newer(v, m)'
    BY <1>2, <1>3, NewerAppended
<1>11. \A m \in 1 .. l, v \in Nat : Newer(v, m) => Newer(v, m)'
    BY <1>10
<1>12. row = NoRow \/ (row \in Rows /\ row.version \in Nat)
    BY RowFields DEF Base, RowOK, EntityOK
<1>13. UpTo(d)'
    <2>1. d = 0 <=> row' = NoRow
        BY <1>2, <1>9 DEF UpTo
    <2>2. \A p \in d + 1 .. Len(log)' : log'[p].kind \in Projected => \E k \in jobs' : k.of = p
        <3> SUFFICES ASSUME NEW p \in d + 1 .. Len(log)', log'[p].kind \in Projected
                     PROVE  \E k \in jobs' : k.of = p
            OBVIOUS
        <3>1. CASE p = l + 1
            BY <1>2, <1>3, <1>5, <1>7, <3>1
        <3>2. CASE p # l + 1
            <4>1. p \in d + 1 .. Len(log) /\ log'[p] = log[p]
                BY <1>2, <1>3, <3>2
            <4>2. PICK k \in jobs : k.of = p
                BY <1>9, <4>1 DEF UpTo
            <4>3. QED  BY <1>6, <4>2
        <3>3. QED  BY <3>1, <3>2
    <2>3. CASE d > 0
        <3>1. d \in 1 .. l /\ row # NoRow /\ Reflects(row, d) /\ Newer(row.version, d)
              /\ \A k \in jobs : k.of \in 1 .. d => log[k.of].version <= row.version
            BY <1>3, <1>9, <2>3 DEF UpTo
        <3>2. PICK r : r = row
            OBVIOUS
        <3>3. PICK v : v = r.version
            OBVIOUS
        <3>4. Newer(v, d)'
            BY <1>11, <1>12, <3>1, <3>2, <3>3
        <3>5. Newer(row.version, d)'
            BY <1>2, <3>2, <3>3, <3>4
        <3>6. Reflects(r, d)'
            BY <1>2, <1>3, <3>1, <3>2, ReflectsStays
        <3>7. Reflects(row, d)'
            BY <1>2, <3>2, <3>6
        <3>8. \A k \in jobs' : k.of \in 1 .. d => log'[k.of].version <= row'.version
            BY <1>2, <1>3, <1>5, <1>6, <3>1
        <3>9. QED  BY <2>1, <2>2, <2>3, <3>1, <3>5, <3>7, <3>8 DEF UpTo
    <2>4. CASE d = 0
        <3>1. Newer(0, 0)
            BY <1>9, <2>4 DEF UpTo
        <3>2. Newer(0, 0)'
            BY <1>10, <1>3, <3>1
        <3>3. QED  BY <2>1, <2>2, <2>4, <3>2 DEF UpTo
    <2>5. QED  BY <1>3, <2>3, <2>4
<1>14. ASSUME NEW j \in Midway PROVE MidwayOK(j, d)'
    <2>1. MidwayOK(j, d) /\ JobOK(j) /\ j \in jobs
        BY <1>9 DEF Midway, Base
    <2>2. j.of > 0 => j.of \in 1 .. l /\ log'[j.of] = log[j.of]
        BY <1>2, <1>3, <2>1 DEF JobOK, Jobs
    <2>3. j.of > 0 =>
             /\ \A k \in jobs' \ {j} : k.of > 0 => k.of > j.of
             /\ j.of = 1 => CreatedEntity(1)' = CreatedEntity(1)
             /\ UpdatedEntity(row, j.of)' = UpdatedEntity(row, j.of)
        <3> SUFFICES ASSUME j.of > 0
                     PROVE  /\ \A k \in jobs' \ {j} : k.of > 0 => k.of > j.of
                            /\ j.of = 1 => CreatedEntity(1)' = CreatedEntity(1)
                            /\ UpdatedEntity(row, j.of)' = UpdatedEntity(row, j.of)
            OBVIOUS
        <3>1. \A k \in jobs' \ {j} : k.of > 0 => k.of > j.of
            BY <1>5, <1>6, <2>1, <2>2 DEF MidwayOK
        <3>2. QED  BY <1>2, <2>2, <3>1 DEF CreatedEntity, UpdatedEntity
    <2>4. ASSUME j.of < 0, NEW n0 \in 1 .. Len(log), n0 >= d, j.entity = StateOf(n0),
                 Newer(log[n0].version, n0),
                 \A k \in jobs : k.of \in 1 .. n0 => log[k.of].version <= log[n0].version
          PROVE  /\ n0 \in 1 .. Len(log)' /\ j.entity = StateOf(n0)'
                 /\ Newer(log[n0].version, n0)'
                 /\ \A k \in jobs' : k.of \in 1 .. n0 => log'[k.of].version <= log'[n0].version
        <3>1. log'[n0] = log[n0] /\ n0 \in 1 .. Len(log)' /\ n0 \in 1 .. l
              /\ log[n0].version \in Nat
            BY <1>2, <1>3, EntryFields
        <3>2. j.entity = StateOf(n0)'
            BY <1>2, <2>4, StateStays
        <3>3. PICK v : v = log[n0].version
            OBVIOUS
        <3>4. Newer(v, n0)'
            BY <1>11, <2>4, <3>1, <3>3
        <3>5. Newer(log[n0].version, n0)'
            BY <3>1, <3>3, <3>4
        <3>6. \A k \in jobs' : k.of \in 1 .. n0 => log'[k.of].version <= log'[n0].version
            BY <1>2, <1>3, <1>5, <1>6, <2>4, <3>1
        <3>7. QED  BY <3>1, <3>2, <3>5, <3>6
    <2>5. QED  BY <1>2, <2>1, <2>3, <2>4 DEF MidwayOK
<1>15. QED  BY <1>2, <1>3, <1>8, <1>9, <1>13, <1>14 DEF Follows

\* A handler's first read finds what the row is up to date with, and no other job
\* that has read it.
LEMMA FollowsLoad ==
    ASSUME Base, UndisturbedInv, NEW j \in jobs, ~disturbed',
           LoadCreated(j) \/ LoadMissing(j) \/ LoadSkipped(j) \/ LoadUpdate(j)
    PROVE  UndisturbedInv'
<1>1. /\ ~disturbed /\ ~Jumps(j) /\ UNCHANGED <<log, row>> /\ j.at = "load"
      /\ LogOK /\ JobOK(j) /\ j \in Jobs /\ RowOK
    BY DEF LoadCreated, LoadMissing, LoadSkipped, LoadUpdate, LoadsUpdate, Begins, Base, JobOK
<1>2. /\ Midway = {} /\ j.of \in 1 .. Len(log) /\ log[j.of].kind \in Projected
      /\ \A k \in jobs : k.at = "load" /\ ~(k.of < j.of)
    BY <1>1 DEF Jumps, JobOK, Jobs, Midway, Base, LogOK
<1>3. \A k \in jobs \ {j} : k.of > j.of
    <2> SUFFICES ASSUME NEW k \in jobs \ {j} PROVE k.of > j.of
        OBVIOUS
    <2>1. JobOK(k) /\ k.at = "load" /\ ~(k.of < j.of)
        BY <1>2 DEF Base
    <2>2. k = Waiting(k.of) /\ j = Waiting(j.of) /\ k.of \in Int /\ j.of \in Int
        BY <1>1, <2>1 DEF JobOK, Jobs
    <2>3. QED  BY <2>1, <2>2
<1>4. PICK d \in 0 .. Len(log) : UpTo(d)
    BY <1>1 DEF UndisturbedInv, Follows
<1>5. SUFFICES /\ UpTo(d)'
               /\ \A k, l \in Midway' : k = l
               /\ \A k \in Midway' : MidwayOK(k, d)'
    BY <1>1, <1>4 DEF UndisturbedInv, Follows
<1>6. CASE LoadMissing(j)
    BY <1>6 DEF LoadMissing
<1>7. CASE LoadSkipped(j)
    <2>1. jobs' = jobs \ {j} /\ row # NoRow /\ row.version >= log[j.of].version
        BY <1>7 DEF LoadSkipped, Ends, Skips
    <2>2. Midway' = {}
        BY <1>2, <2>1 DEF Midway
    <2>3. d > 0 /\ Newer(row.version, d)
        BY <1>4, <2>1 DEF UpTo
    <2>4. ~(j.of \in d + 1 .. Len(log))
        <3>1. row.version \in Int /\ log[j.of].version \in Int
            BY <1>1, <1>2, <2>1, RowFields, EntryFields DEF RowOK, EntityOK
        <3>2. QED  BY <2>1, <2>3, <3>1 DEF Newer
    <2>5. UpTo(d)'
        BY <1>1, <1>4, <2>1, <2>4, UpToStays
    <2>6. QED  BY <2>2, <2>5
<1>8. ASSUME NEW k, k.of = j.of, k.at \in {"reload", "write"}, jobs' = (jobs \ {j}) \cup {k},
             k.at = "write" => k.base = row, j.of > d,
             IF j.of = 1 THEN k.entity = CreatedEntity(1) /\ row = NoRow
             ELSE row # NoRow /\ k.entity = UpdatedEntity(row, j.of)
      PROVE  /\ UpTo(d)'
             /\ \A m, l \in Midway' : m = l
             /\ \A m \in Midway' : MidwayOK(m, d)'
    <2>1. UpTo(d)'
        BY <1>1, <1>4, <1>8, UpToStays
    <2>2. Midway' = {k}
        BY <1>2, <1>8 DEF Midway
    <2>3. MidwayOK(k, d)'
        <3>1. k.of > 0 /\ ~(k.of < 0) /\ k.of > d
            BY <1>2, <1>8 DEF Base, LogOK
        <3>2. \A l \in jobs' \ {k} : l.of > k.of
            BY <1>3, <1>8
        <3>3. CASE j.of = 1
            BY <1>1, <1>8, <3>1, <3>2, <3>3 DEF MidwayOK, CreatedEntity
        <3>4. CASE j.of # 1
            BY <1>1, <1>8, <3>1, <3>2, <3>4 DEF MidwayOK, UpdatedEntity
        <3>5. QED  BY <3>3, <3>4
    <2>4. QED  BY <2>1, <2>2, <2>3
<1>9. CASE LoadCreated(j)
    <2>1. PICK k : k = Job(j.of, "write", CreatedEntity(j.of), row)
        OBVIOUS
    <2>2. /\ jobs' = (jobs \ {j}) \cup {k} /\ row = NoRow /\ log[j.of].kind = "created"
        BY <1>9, <2>1 DEF LoadCreated, Moves
    <2>3. k.of = j.of /\ k.at = "write" /\ k.entity = CreatedEntity(j.of) /\ k.base = row
        BY <2>1 DEF Job
    <2>4. j.of = 1 /\ d = 0
        BY <1>1, <1>2, <1>4, <2>2 DEF LogOK, UpTo
    <2>5. QED  BY <1>8, <2>2, <2>3, <2>4
<1>10. CASE LoadUpdate(j)
    <2>1. PICK k : k = Job(j.of, "reload", UpdatedEntity(row, j.of), NoRow)
        OBVIOUS
    <2>2. /\ jobs' = (jobs \ {j}) \cup {k} /\ row # NoRow /\ log[j.of].kind # "created"
          /\ ~Skips(row, j.of)
        BY <1>10, <2>1 DEF LoadUpdate, LoadsUpdate, Moves
    <2>3. k.of = j.of /\ k.at = "reload" /\ k.entity = UpdatedEntity(row, j.of)
        BY <2>1 DEF Job
    <2>4. j.of # 1
        BY <1>1, <1>2, <2>2 DEF LogOK
    <2>5. j.of > d
        <3>1. row.version \in Int /\ log[j.of].version \in Int
            BY <1>1, <1>2, <2>2, RowFields, EntryFields DEF RowOK, EntityOK
        <3>2. ~(j.of \in 1 .. d)
            BY <1>2, <1>4, <2>2, <3>1 DEF UpTo, Skips
        <3>3. QED  BY <1>2, <1>4, <3>2 DEF Base, LogOK
    <2>6. QED  BY <1>8, <2>2, <2>3, <2>4, <2>5
<1>11. QED  BY <1>6, <1>7, <1>9, <1>10

\* save() reads the row its entity was made from.
LEMMA FollowsReload ==
    ASSUME Base, UndisturbedInv, NEW j \in jobs, ~disturbed', Reload(j)
    PROVE  UndisturbedInv'
<1>1. /\ ~disturbed /\ UNCHANGED <<log, row>> /\ j.at = "reload" /\ JobOK(j) /\ j \in Jobs
      /\ j \in Midway
    BY DEF Reload, Base, JobOK, Midway
<1>2. PICK k : k = [j EXCEPT !.at = "write", !.base = row]
    OBVIOUS
<1>3. jobs' = (jobs \ {j}) \cup {k} /\ k = Job(j.of, "write", j.entity, row)
    BY <1>1, <1>2, ReloadedJob DEF Reload, Moves
<1>4. k.of = j.of /\ k.at = "write" /\ k.base = row /\ k.entity = j.entity
    BY <1>3 DEF Job
<1>5. PICK d \in 0 .. Len(log) : UpTo(d) /\ MidwayOK(j, d)
    BY <1>1 DEF UndisturbedInv, Follows
<1>6. UpTo(d)'
    BY <1>1, <1>3, <1>4, <1>5, UpToStays
<1>7. Midway' = {k}
    BY <1>1, <1>3, <1>4 DEF UndisturbedInv, Midway
<1>8. MidwayOK(k, d)'
    <2>1. \A n : StateOf(n)' = StateOf(n)
        BY <1>1 DEF StateOf, LastSetting
    <2>2. \A v, n : Newer(v, n) => Newer(v, n)'
        BY <1>1 DEF Newer
    <2>3. k.of > 0 =>
             /\ k.of > d /\ \A l \in jobs' \ {k} : l.of > 0 => l.of > k.of
             /\ IF k.of = 1 THEN k.entity = CreatedEntity(1)' /\ row' = NoRow
                ELSE row' # NoRow /\ k.entity = UpdatedEntity(row, k.of)'
        BY <1>1, <1>3, <1>4, <1>5 DEF MidwayOK, CreatedEntity, UpdatedEntity
    <2>4. ASSUME k.of < 0
          PROVE  \E n \in 1 .. Len(log)' :
                    /\ n >= d /\ k.entity = StateOf(n)'
                    /\ Newer(log[n].version, n)'
                    /\ \A l \in jobs' : l.of \in 1 .. n => log'[l.of].version <= log'[n].version
        <3>1. PICK n \in 1 .. Len(log) :
                 /\ n >= d /\ j.entity = StateOf(n)
                 /\ Newer(log[n].version, n)
                 /\ \A l \in jobs : l.of \in 1 .. n => log[l.of].version <= log[n].version
            BY <1>4, <1>5, <2>4 DEF MidwayOK
        <3>2. PICK v : v = log[n].version
            OBVIOUS
        <3>3. Newer(v, n)'
            BY <2>2, <3>1, <3>2
        <3>4. Newer(log[n].version, n)'
            BY <1>1, <3>2, <3>3
        <3>5. QED  BY <1>1, <1>3, <1>4, <2>1, <3>1, <3>4
    <2>5. QED  BY <1>1, <1>4, <2>3, <2>4 DEF MidwayOK
<1>9. QED  BY <1>1, <1>5, <1>6, <1>7, <1>8 DEF UndisturbedInv, Follows

\* A write brings the row up to the job's event, or to the events its rebuild read.
LEMMA FollowsWrite ==
    ASSUME Base, UndisturbedInv, AloneInv, NEW j \in jobs, ~disturbed', Write(j)
    PROVE  UndisturbedInv'
<1>1. /\ j.at = "write" /\ jobs' = jobs \ {j} /\ log' = log
      /\ row' = IF j.base = NoRow THEN j.entity ELSE Saved(row, j.base, j.entity)
      /\ LogOK /\ RowOK /\ JobOK(j) /\ j \in Jobs /\ EntityOK(j.entity) /\ j \in Midway
      /\ j.entity \in Rows /\ NoRow \notin Rows /\ Len(log) \in Nat
    BY NoRowIsNoRow DEF Write, Ends, Base, JobOK, Midway, EntityOK, LogOK
<1>2. j.base = row => row' = j.entity
    BY <1>1, SavedOK DEF RowOK
<1>3. CASE disturbed
    <2>1. alone /\ j.of < 0
        BY <1>3 DEF Write
    <2>2. j.entity = StateOf(Len(log)) /\ j.base = row /\ jobs = {j} /\ log # <<>>
        BY <1>1, <2>1 DEF AloneInv
    <2>3. PICK n \in 1 .. Len(log) : n = Len(log)
        BY <1>1, <2>2
    <2>4. Reflects(j.entity, n) /\ j.entity.version = log[n].version
        BY <2>2, <2>3, ReflectsState DEF StateOf
    <2>5. Newer(j.entity.version, n)
        <3>1. log[n].version \in Int
            BY <1>1, EntryFields
        <3>2. QED  BY <1>1, <2>3, <2>4, <3>1 DEF Newer
    <2>6. UpTo(n)'
        BY <1>1, <1>2, <2>2, <2>3, <2>4, <2>5, Brought
    <2>7. Midway' = {} /\ Len(log)' = Len(log) /\ n \in 0 .. Len(log)
        BY <1>1, <2>2 DEF Midway
    <2>8. QED  BY <2>6, <2>7 DEF UndisturbedInv, Follows
<1>4. CASE ~disturbed
    <2>1. (\A k, l \in Midway : k = l) /\ Follows
        BY <1>4 DEF UndisturbedInv
    <2>2. PICK d \in 0 .. Len(log) : UpTo(d) /\ MidwayOK(j, d)
        BY <1>1, <2>1 DEF Follows
    <2>3. row' = j.entity /\ Midway' = {} /\ Len(log)' = Len(log) /\ j.base = row
        BY <1>1, <1>2, <2>1, <2>2 DEF MidwayOK, Midway
    <2>4. SUFFICES \E n \in 1 .. Len(log) :
                      /\ Reflects(j.entity, n) /\ Newer(j.entity.version, n)
                      /\ \A k \in jobs \ {j} :
                            k.of \in 1 .. n => log[k.of].version <= j.entity.version
                      /\ \A p \in n + 1 .. Len(log) :
                            log[p].kind \in Projected => \E k \in jobs \ {j} : k.of = p
        <3>1. PICK n \in 1 .. Len(log) :
                 /\ Reflects(j.entity, n) /\ Newer(j.entity.version, n)
                 /\ \A k \in jobs \ {j} :
                       k.of \in 1 .. n => log[k.of].version <= j.entity.version
                 /\ \A p \in n + 1 .. Len(log) :
                       log[p].kind \in Projected => \E k \in jobs \ {j} : k.of = p
            BY <2>4
        <3>2. UpTo(n)'
            BY <1>1, <2>3, <3>1, Brought
        <3>3. n \in 0 .. Len(log)'
            BY <1>1, <2>3
        <3>4. QED  BY <2>3, <3>2, <3>3 DEF UndisturbedInv, Follows
    <2>5. \A p \in d + 1 .. Len(log) : log[p].kind \in Projected => \E k \in jobs : k.of = p
        BY <2>2 DEF UpTo
    <2>6. CASE j.of = 1
        <3>1. /\ j.entity = CreatedEntity(1) /\ d = 0 /\ Newer(0, 0) /\ 1 \in 1 .. Len(log)
              /\ \A k \in jobs \ {j} : k.of > 0 => k.of > 1
            BY <1>1, <2>2, <2>6 DEF MidwayOK, UpTo, JobOK, Base, CountersOK
        <3>2. Reflects(j.entity, 1) /\ j.entity.version = log[1].version
            BY <1>1, <3>1, ReflectsCreation DEF CreatedEntity
        <3>3. Newer(j.entity.version, 1)
            BY <1>1, <3>1, <3>2, NewerThan
        <3>4. \A k \in jobs \ {j} : ~(k.of \in 1 .. 1)
            BY <3>1
        <3>5. \A p \in 1 + 1 .. Len(log) :
                 log[p].kind \in Projected => \E k \in jobs \ {j} : k.of = p
            BY <2>5, <2>6, <3>1
        <3>6. QED  BY <3>1, <3>2, <3>3, <3>4, <3>5
    <2>7. CASE j.of > 1
        <3>1. /\ row # NoRow /\ row \in Rows /\ j.entity = UpdatedEntity(row, j.of)
              /\ j.of > d /\ \A k \in jobs \ {j} : k.of > 0 => k.of > j.of
            <4>1. j.of > 0 /\ j.of # 1
                BY <1>1, <2>7 DEF Jobs
            <4>2. QED  BY <1>1, <2>2, <4>1 DEF MidwayOK, RowOK, EntityOK
        <3>2. /\ d \in 1 .. Len(log) /\ j.of \in d + 1 .. Len(log) /\ j.of \in 1 .. Len(log)
              /\ Reflects(row, d) /\ Newer(row.version, d)
            BY <1>1, <2>2, <2>7, <3>1 DEF UpTo, JobOK, Base, CountersOK
        <3>3. log[j.of].kind \in {"balance", "status"}
            BY <1>1, <2>7, <3>2 DEF JobOK, Projected, LogOK
        <3>4. \A q \in d + 1 .. j.of - 1 : log[q].kind \notin Projected
            <4> SUFFICES ASSUME NEW q \in d + 1 .. j.of - 1, log[q].kind \in Projected
                         PROVE  FALSE
                OBVIOUS
            <4>1. q \in d + 1 .. Len(log) /\ q > 0 /\ ~(q > j.of) /\ q # j.of
                BY <1>1, <3>2
            <4>2. PICK k \in jobs : k.of = q
                BY <2>5, <4>1
            <4>3. QED  BY <3>1, <4>1, <4>2
        <3>5. Reflects(j.entity, j.of)
            BY <1>1, <3>1, <3>2, <3>3, <3>4, ReflectsUpdate
        <3>6. j.entity.version = log[j.of].version
            BY <1>1, <3>1, <3>2, <3>3, UpdatedEntityOK DEF RowOK
        <3>7. Newer(j.entity.version, j.of)
            <4>1. row.version \in Nat
                BY <3>1, RowFields
            <4>2. QED  BY <1>1, <3>2, <3>6, <4>1, NewerThan
        <3>8. \A k \in jobs \ {j} : ~(k.of \in 1 .. j.of)
            BY <1>1, <3>1 DEF Jobs
        <3>9. \A p \in j.of + 1 .. Len(log) :
                 log[p].kind \in Projected => \E k \in jobs \ {j} : k.of = p
            <4> SUFFICES ASSUME NEW p \in j.of + 1 .. Len(log), log[p].kind \in Projected
                         PROVE  \E k \in jobs \ {j} : k.of = p
                OBVIOUS
            <4>1. p \in d + 1 .. Len(log) /\ p # j.of
                BY <1>1, <3>2
            <4>2. QED  BY <2>5, <4>1
        <3>10. QED  BY <3>2, <3>5, <3>7, <3>8, <3>9
    <2>8. CASE j.of < 0
        <3>1. PICK n \in 1 .. Len(log) :
                 /\ n >= d /\ j.entity = StateOf(n)
                 /\ Newer(log[n].version, n)
                 /\ \A k \in jobs : k.of \in 1 .. n => log[k.of].version <= log[n].version
            BY <2>2, <2>8 DEF MidwayOK
        <3>2. Reflects(j.entity, n) /\ j.entity.version = log[n].version
            BY <3>1, ReflectsState DEF StateOf
        <3>3. \A p \in n + 1 .. Len(log) :
                 log[p].kind \in Projected => \E k \in jobs \ {j} : k.of = p
            <4> SUFFICES ASSUME NEW p \in n + 1 .. Len(log), log[p].kind \in Projected
                         PROVE  \E k \in jobs \ {j} : k.of = p
                OBVIOUS
            <4>1. p \in d + 1 .. Len(log) /\ p # j.of
                BY <1>1, <2>8, <3>1
            <4>2. QED  BY <2>5, <4>1
        <3>4. QED  BY <3>1, <3>2, <3>3
    <2>9. QED  BY <1>1, <2>6, <2>7, <2>8 DEF JobOK, Base, CountersOK
<1>5. QED  BY <1>3, <1>4

\* A rebuild that read everything meets no job that has read the row.
LEMMA FollowsRebuild ==
    ASSUME Base, UndisturbedInv, ~disturbed', Rebuild
    PROVE  UndisturbedInv'
<1>1. PICK n \in Readable :
         /\ jobs' = jobs \cup {Job(-rebuilds - 1, "reload", StateOf(n), NoRow)}
         /\ disturbed' = (disturbed \/ Midway # {} \/ n # Len(log))
    BY DEF Rebuild
<1>2. /\ ~disturbed /\ Midway = {} /\ n = Len(log) /\ n \in 1 .. Len(log)
      /\ UNCHANGED <<log, row>> /\ LogOK /\ rebuilds \in Nat /\ RowOK /\ Len(log) \in Nat
    <2>1. ~disturbed /\ Midway = {} /\ n = Len(log)
        BY <1>1, Zenon
    <2>2. UNCHANGED <<log, row>> /\ n \in 1 .. Len(log)
        BY DEF Rebuild, Readable
    <2>3. QED  BY <2>1, <2>2, BoundsAssumption DEF Base, CountersOK, LogOK
<1>3. PICK k : k = Job(-rebuilds - 1, "reload", StateOf(n), NoRow)
    OBVIOUS
<1>4. k.of = -rebuilds - 1 /\ k.of < 0 /\ k.at = "reload" /\ k.entity = StateOf(n)
      /\ jobs' = jobs \cup {k}
    BY <1>1, <1>2, <1>3 DEF Job
<1>5. PICK d \in 0 .. Len(log) : UpTo(d)
    BY <1>2 DEF UndisturbedInv, Follows
<1>6. UpTo(d)'
    BY <1>2, <1>4, <1>5, UpToStays
<1>7. Midway' = {k}
    BY <1>2, <1>4 DEF Midway
<1>8. \A p \in 1 .. Len(log) : log[p].version \in Nat
    BY <1>2, EntryFields
<1>9. \A l \in jobs : l.of \in 1 .. n => log[l.of].version <= log[n].version
    <2> SUFFICES ASSUME NEW l \in jobs, l.of \in 1 .. n
                 PROVE  log[l.of].version <= log[n].version
        OBVIOUS
    <2>1. CASE l.of \in 1 .. d
        <3>1. log[l.of].version <= row.version /\ log[n].version >= row.version /\ row # NoRow
            BY <1>2, <1>5, <2>1 DEF UpTo, Newer
        <3>2. row.version \in Nat
            BY <1>2, <3>1, RowFields DEF RowOK, EntityOK
        <3>3. QED  BY <1>2, <1>8, <3>1, <3>2
    <2>2. CASE l.of \in d + 1 .. Len(log)
        <3>1. CASE l.of = n
            BY <1>2, <1>8, <3>1
        <3>2. CASE l.of # n
            <4>1. l.of < n /\ n \in d + 1 .. Len(log)
                BY <1>2, <2>2, <3>2
            <4>2. log[l.of].version < log[n].version
                <5>1. row # NoRow => Newer(row.version, d)
                    BY <1>2, <1>5 DEF UpTo
                <5>2. row = NoRow => Newer(0, d)
                    BY <1>2, <1>5 DEF UpTo
                <5>3. QED  BY <2>2, <4>1, <5>1, <5>2 DEF Newer
            <4>3. QED  BY <1>2, <1>8, <4>2
        <3>3. QED  BY <3>1, <3>2
    <2>3. QED  BY <1>2, <1>5, <2>1, <2>2
<1>10. MidwayOK(k, d)'
    <2>1. StateOf(n)' = StateOf(n)
        BY <1>2 DEF StateOf, LastSetting
    <2>2. Newer(log[n].version, n)'
        BY <1>2, <1>8 DEF Newer
    <2>3. n \in 1 .. Len(log)' /\ n >= d
        BY <1>2, <1>5
    <2>4. \A l \in jobs' : l.of \in 1 .. n => log'[l.of].version <= log'[n].version
        BY <1>2, <1>4, <1>9
    <2>5. ~(k.of > 0)
        BY <1>2, <1>4
    <2>6. QED  BY <1>4, <2>1, <2>2, <2>3, <2>4, <2>5 DEF MidwayOK
<1>11. QED  BY <1>2, <1>5, <1>6, <1>7, <1>10 DEF UndisturbedInv, Follows

\* Every step keeps an undisturbed row in the log's order, with one save at most
\* under way.
LEMMA UndisturbedStep ==
    Base /\ UndisturbedInv /\ AloneInv /\ [Next]_vars => UndisturbedInv'
<1> SUFFICES ASSUME Base, UndisturbedInv, AloneInv, [Next]_vars, ~disturbed'
             PROVE  UndisturbedInv'
    BY DEF UndisturbedInv
<1>1. CASE UNCHANGED vars
    <2>1. UNCHANGED <<log, row, jobs, disturbed>>
        BY <1>1 DEF vars
    <2>2. \A d : UpTo(d) => UpTo(d)'
        BY <2>1 DEF UpTo, Newer, Reflects, LastSetting
    <2>3. \A j, d : MidwayOK(j, d) => MidwayOK(j, d)'
        BY <2>1 DEF MidwayOK, StateOf, LastSetting, Newer, CreatedEntity, UpdatedEntity
    <2>4. Midway' = Midway
        BY <2>1 DEF Midway
    <2>5. QED  BY <2>1, <2>2, <2>3, <2>4 DEF UndisturbedInv, Follows
<1>2. ASSUME NEW kind \in Kinds, StoreAndPublish(kind) PROVE UndisturbedInv'
    <2>1. ~disturbed
        BY <1>2, Zenon DEF StoreAndPublish
    <2>2. Midway' = Midway /\ Follows'
        BY <1>2, <2>1, FollowsAppend DEF UndisturbedInv
    <2>3. QED  BY <2>1, <2>2 DEF UndisturbedInv
<1>3. ASSUME NEW j \in jobs, Step(j) PROVE UndisturbedInv'
    <2>1. CASE InsertRefused(j)
        <3>1. ~disturbed /\ j \in Midway /\ j.at = "write" /\ j.base = NoRow /\ row # NoRow
            BY <2>1 DEF InsertRefused, Midway
        <3>2. j.base = row
            BY <3>1 DEF UndisturbedInv, Follows, MidwayOK
        <3>3. QED  BY <3>1, <3>2
    <2>2. QED  BY <1>3, <2>1, FollowsLoad, FollowsReload, FollowsWrite DEF Step
<1>4. CASE Rebuild
    BY <1>4, FollowsRebuild
<1>5. CASE (\E kind \in Kinds : StoreUnpublished(kind)) \/ (\E j \in jobs : JobFails(j)) \/ Crash
    BY <1>5, Zenon DEF StoreUnpublished, JobFails, Crash
<1>6. QED  BY <1>1, <1>2, <1>3, <1>4, <1>5 DEF Next

\* Every step keeps a rebuild that runs alone at the state of the whole log.
LEMMA AloneStep == Base /\ AloneInv /\ [Next]_vars => AloneInv'
<1> SUFFICES ASSUME Base, AloneInv, [Next]_vars, alone'
             PROVE  AloneInv'
    BY DEF AloneInv
<1>1. CASE UNCHANGED vars
    BY <1>1 DEF vars, AloneInv, StateOf, LastSetting
<1>2. CASE \E kind \in Kinds : StoreAndPublish(kind) \/ StoreUnpublished(kind)
    BY <1>2, Zenon DEF StoreAndPublish, StoreUnpublished, AppendEvent
<1>3. ASSUME NEW j \in jobs, JobFails(j) \/ Write(j) \/ InsertRefused(j) PROVE AloneInv'
    <2>1. alone /\ jobs' = jobs \ {j}
        BY <1>3 DEF JobFails, Write, InsertRefused, Ends
    <2>2. QED  BY <2>1 DEF AloneInv
<1>4. CASE Crash
    BY <1>4 DEF Crash, AloneInv
<1>5. ASSUME NEW j \in jobs,
             LoadCreated(j) \/ LoadMissing(j) \/ LoadSkipped(j) \/ LoadUpdate(j)
      PROVE  AloneInv'
    BY <1>5, Zenon DEF LoadCreated, LoadMissing, LoadSkipped, LoadUpdate, LoadsUpdate, Begins
<1>6. ASSUME NEW j \in jobs, Reload(j) PROVE AloneInv'
    <2>1. PICK k : k = [j EXCEPT !.at = "write", !.base = row]
        OBVIOUS
    <2>2. alone /\ jobs' = (jobs \ {j}) \cup {k} /\ UNCHANGED <<log, row>> /\ j \in Jobs
        BY <1>6, <2>1 DEF Reload, Moves, Base, JobOK
    <2>3. k.of = j.of /\ k.entity = j.entity /\ k.base = row
        BY <2>1, <2>2, ReloadedJob DEF Job
    <2>4. StateOf(Len(log))' = StateOf(Len(log))
        BY <2>2 DEF StateOf, LastSetting
    <2>5. jobs' = {k} /\ log # <<>> /\ k.of < 0 /\ k.entity = StateOf(Len(log))
        BY <2>2, <2>3 DEF AloneInv
    <2>6. QED  BY <2>2, <2>3, <2>4, <2>5 DEF AloneInv
<1>7. CASE Rebuild
    <2>1. PICK n \in Readable :
             /\ jobs' = jobs \cup {Job(-rebuilds - 1, "reload", StateOf(n), NoRow)}
             /\ alone' = (jobs = {} /\ n = Len(log))
        BY <1>7 DEF Rebuild
    <2>2. jobs = {} /\ n = Len(log)
        BY <2>1, Zenon
    <2>3. UNCHANGED <<log, row>> /\ n \in 1 .. Len(log) /\ rebuilds \in Nat
        BY <1>7, BoundsAssumption DEF Rebuild, Readable, Base, CountersOK
    <2>4. PICK k : k = Job(-rebuilds - 1, "reload", StateOf(n), NoRow)
        OBVIOUS
    <2>5. jobs' = {k} /\ k.of < 0 /\ k.at = "reload" /\ k.entity = StateOf(n)
        BY <2>1, <2>2, <2>3, <2>4 DEF Job
    <2>6. StateOf(Len(log))' = StateOf(n) /\ log # <<>>
        BY <2>2, <2>3 DEF StateOf, LastSetting, Base, LogOK
    <2>7. QED  BY <2>3, <2>5, <2>6 DEF AloneInv
<1>8. QED  BY <1>1, <1>2, <1>3, <1>4, <1>5, <1>6, <1>7 DEF Next, Step

\* Undisturbed and quiet, the row has what the log says.
LEMMA CurrentRow == Base /\ UndisturbedInv => RowIsCurrent
<1> SUFFICES ASSUME Base, UndisturbedInv, ~disturbed, jobs = {}, log # <<>>
             PROVE  /\ row # NoRow
                    /\ Issues \subseteq {"version"}
                    /\ Issues # {} => log[Len(log)].kind = "other"
    BY DEF RowIsCurrent
<1>1. LogOK /\ Len(log) \in Nat /\ Len(log) > 0 /\ log[1].kind = "created"
    BY DEF Base, LogOK
<1>2. PICK l \in Nat : l = Len(log)
    BY <1>1
<1>3. PICK d \in 0 .. l : UpTo(d)
    BY <1>2 DEF UndisturbedInv, Follows
<1>4. \A p \in d + 1 .. l : log[p].kind \notin Projected
    BY <1>2, <1>3 DEF UpTo
<1>5. d > 0 /\ row # NoRow /\ Reflects(row, d) /\ d \in 1 .. l
    <2>1. d # 0
        BY <1>1, <1>2, <1>4 DEF Projected
    <2>2. QED  BY <1>2, <1>3, <2>1 DEF UpTo
<1>6. \A c \in Columns : LastSetting(c, l) = LastSetting(c, d)
    <2> SUFFICES ASSUME NEW c \in Columns PROVE LastSetting(c, l) = LastSetting(c, d)
        OBVIOUS
    <2>1. PICK m \in 1 .. d :
             /\ m = LastSetting(c, d) /\ log[m].kind \in Sets(c)
             /\ \A q \in 1 .. d : log[q].kind \in Sets(c) => q <= m
        BY <1>1, <1>5, LastSettingIsSetting
    <2>2. \A q \in m + 1 .. l : log[q].kind \notin Sets(c)
        <3> SUFFICES ASSUME NEW q \in m + 1 .. l PROVE log[q].kind \notin Sets(c)
            OBVIOUS
        <3>1. CASE q <= d
            BY <2>1, <3>1
        <3>2. CASE q > d
            <4>1. log[q].kind \notin Projected
                BY <1>4, <3>2
            <4>2. QED  BY <4>1 DEF Projected, Sets
        <3>3. QED  BY <3>1, <3>2
    <2>3. m \in 1 .. l /\ l > 0
        BY <1>1, <1>2, <1>5
    <2>4. QED  BY <1>1, <2>1, <2>2, <2>3, LastSettingUnique
<1>7. row["balance"] = StateOf(l)["balance"] /\ row["status"] = StateOf(l)["status"]
    BY <1>5, <1>6 DEF Reflects, StateOf, Columns
<1>8. Issues \subseteq {"version"}
    BY <1>2, <1>7 DEF Issues
<1>9. ASSUME Issues # {} PROVE log[l].kind = "other"
    <2>1. row.version # log[l].version
        BY <1>2, <1>8, <1>9 DEF Issues, StateOf
    <2>2. log[l].kind \notin Projected
        BY <1>2, <1>4, <1>5, <2>1 DEF Reflects
    <2>3. log[l].kind \in Kinds
        BY <1>1, <1>2, EntryFields
    <2>4. QED  BY <2>2, <2>3 DEF Kinds, Projected
<1>10. QED  BY <1>2, <1>5, <1>8, <1>9

\* A row that nothing disturbed says what its account's log says, once its handlers
\* have ended, whatever they raced with: projection handlers, rebuildAccount().
THEOREM RowCurrent == Spec => []RowIsCurrent
<1>1. Spec => [](UndisturbedInv /\ AloneInv)
    BY UndisturbedInit, UndisturbedStep, AloneStep, BaseInvariant, PTL DEF Spec
<1>2. QED  BY <1>1, CurrentRow, BaseInvariant, PTL

------------------------------------------------------------------------------
(* What the row shows of the log, at any time.                              *)

\* The read model's promise means by a column's value what the aggregate means.
LEMMA PromisedValue ==
    ASSUME NEW n \in 0 .. Len(log), NEW c \in Columns, LogOK
    PROVE  Promise!Value(c, n) = LastSetting(c, n)
<1>1. \A p \in 1 .. n : EventKinds[p] = log[p].kind
    BY DEF EventKinds, LogOK
<1>2. {"created", c} = Sets(c)
    BY DEF Columns, Sets
<1>3. {p \in 1 .. n : EventKinds[p] \in {"created", c}} = {p \in 1 .. n : log[p].kind \in Sets(c)}
    BY <1>1, <1>2
<1>4. QED  BY <1>3 DEF Promise!Value, Promise!Max, LastSetting, Max

\* A row that reflects n events shows the account as it was then.
LEMMA ShowsSnapshot ==
    ASSUME NEW n \in 0 .. Len(log), LogOK, NEW r, Reflects(r, n)
    PROVE  [column \in Columns |-> r[column]] = Promise!Snapshot(n)
<1>1. \A c \in Columns : r[c] = Promise!Value(c, n)
    BY PromisedValue DEF Reflects, Columns
<1>2. QED  BY <1>1 DEF Promise!Snapshot, Promise!Columns, Columns

\* A later event may set a column, never unset it.
LEMMA LaterSettings ==
    ASSUME LogOK, NEW d \in 1 .. Len(log), NEW n \in d .. Len(log), NEW c \in Columns
    PROVE  LastSetting(c, n) >= LastSetting(c, d)
<1>1. d \in Nat /\ n \in Nat /\ log[1].kind = "created" /\ d > 0 /\ n > 0
    BY DEF LogOK
<1>2. LastSetting(c, d) \in 1 .. d /\ log[LastSetting(c, d)].kind \in Sets(c)
    BY <1>1, LastSettingIsSetting
<1>3. LastSetting(c, d) \in 1 .. n
    BY <1>1, <1>2
<1>4. QED  BY <1>1, <1>2, <1>3, LastSettingIsSetting

\* No column of an undisturbed row goes back.
LEMMA WriteNeverBack ==
    ASSUME Base, UndisturbedInv, ~disturbed, NEW j \in jobs, Write(j), row # NoRow,
           NEW c \in Columns
    PROVE  row'[c] >= row[c]
<1>1. /\ j.at = "write" /\ j \in Midway /\ LogOK /\ JobOK(j) /\ EntityOK(j.entity)
      /\ row' = IF j.base = NoRow THEN j.entity ELSE Saved(row, j.base, j.entity)
      /\ EntityOK(row) /\ row \in Rows /\ row[c] \in Nat /\ j.of \in Int /\ j.of # 0
    <2>1. j.at = "write" /\ j \in Midway
          /\ row' = IF j.base = NoRow THEN j.entity ELSE Saved(row, j.base, j.entity)
        BY DEF Write, Midway
    <2>2. LogOK /\ JobOK(j) /\ EntityOK(row) /\ rebuilds \in Nat
        BY BoundsAssumption DEF Base, RowOK, CountersOK
    <2>3. EntityOK(j.entity) /\ j.of \in Int /\ j.of # 0
        BY <2>1, <2>2 DEF JobOK, Jobs
    <2>4. row \in Rows /\ row[c] \in 1 .. Len(log)
        BY <2>2 DEF EntityOK
    <2>5. QED  BY <2>1, <2>2, <2>3, <2>4
<1>2. PICK d \in 0 .. Len(log) : UpTo(d) /\ MidwayOK(j, d)
    BY <1>1 DEF UndisturbedInv, Follows
<1>3. d \in 1 .. Len(log) /\ Reflects(row, d) /\ j.base = row
    BY <1>1, <1>2 DEF UpTo, MidwayOK, LogOK
<1>4. row' = j.entity
    BY <1>1, <1>3, SavedOK
<1>5. row[c] = LastSetting(c, d) /\ row[c] \in 1 .. d
    <2>1. row[c] = LastSetting(c, d)
        BY <1>3 DEF Reflects, Columns
    <2>2. d \in Nat /\ d > 0 /\ log[1].kind = "created"
        BY <1>1, <1>3 DEF LogOK
    <2>3. QED  BY <2>1, <2>2, LastSettingIsSetting
<1>6. CASE j.of > 0
    <2>1. j.of > d /\ j.entity = UpdatedEntity(row, j.of)
        BY <1>2, <1>6 DEF MidwayOK
    <2>2. row'[c] \in {row[c], j.of}
        BY <1>1, <1>4, <2>1 DEF UpdatedEntity, Rows, Columns
    <2>3. QED  BY <1>1, <1>3, <1>5, <2>1, <2>2
<1>7. CASE j.of < 0
    <2>1. PICK n \in 1 .. Len(log) : n >= d /\ j.entity = StateOf(n)
        BY <1>2, <1>7 DEF MidwayOK
    <2>2. row'[c] = LastSetting(c, n)
        BY <1>4, <2>1 DEF StateOf, Columns
    <2>3. n \in d .. Len(log)
        BY <1>1, <1>3, <2>1 DEF LogOK
    <2>4. QED  BY <1>1, <1>3, <1>5, <2>2, <2>3, LaterSettings
<1>8. QED  BY <1>1, <1>6, <1>7

\* A save moves the promised row on, repairs it, or happens to a row nobody trusts.
LEMMA PromisedWrite ==
    ASSUME Base, Base', UndisturbedInv, UndisturbedInv', AloneInv, NEW j \in jobs, Write(j)
    PROVE  Promise!CatchUp \/ Promise!Repair \/ Promise!Drift
<1>1. /\ log' = log /\ EventKinds' = EventKinds /\ LogOK /\ Len(log) \in Nat
      /\ disturbed \in BOOLEAN /\ disturbed' \in BOOLEAN
      /\ disturbed' = (disturbed /\ ~(alone /\ j.of < 0))
      /\ DOMAIN EventKinds = 1 .. Len(log) /\ row' # NoRow
    <2>1. log' = log /\ disturbed' = (disturbed /\ ~(alone /\ j.of < 0))
        BY DEF Write
    <2>2. j.at = "write" /\ JobOK(j) /\ NoRow \notin Rows
        BY NoRowIsNoRow DEF Write, Base
    <2>3. EntityOK(j.entity) /\ j.entity # NoRow /\ (j.base # NoRow => row # NoRow) /\ j \in Jobs
        BY <2>2 DEF JobOK, EntityOK
    <2>4. j.base = NoRow => row' # NoRow
        BY <2>3 DEF Write
    <2>5. ASSUME j.base # NoRow PROVE row' # NoRow
        <3>1. EntityOK(row) /\ j.base \in Rows /\ row' = Saved(row, j.base, j.entity)
            BY <2>3, <2>5 DEF Base, RowOK, Jobs, Write
        <3>2. EntityOK(row')
            BY <2>3, <3>1, SavedOK
        <3>3. QED  BY <2>2, <3>2 DEF EntityOK
    <2>6. LogOK /\ Len(log) \in Nat /\ disturbed \in BOOLEAN /\ disturbed' \in BOOLEAN
        BY DEF Base, LogOK, CountersOK
    <2>7. QED  BY <2>1, <2>4, <2>5, <2>6 DEF EventKinds
<1>2. Len(EventKinds) = Len(log)
    BY <1>1
<1>3. CASE ~disturbed
    <2>1. ~disturbed'
        BY <1>1, <1>3
    <2>2. PICK n \in 0 .. Len(log) : UpTo(n)'
        BY <1>1, <2>1 DEF UndisturbedInv, Follows
    <2>3. n \in 1 .. Len(log) /\ Reflects(row, n)'
        BY <1>1, <2>2 DEF UpTo
    <2>4. Reflects(row', n)
        BY <1>1, <2>3 DEF Reflects, LastSetting
    <2>5. Shown' = Promise!Snapshot(n)
        BY <1>1, <2>3, <2>4, ShowsSnapshot DEF Shown, Columns
    <2>6. Shown # NoRow => row # NoRow
        BY DEF Shown
    <2>7. ASSUME Shown # NoRow, NEW c \in Columns PROVE Shown'[c] >= Shown[c]
        <3>1. Shown[c] = row[c] /\ Shown'[c] = row'[c]
            BY <1>1, <2>6, <2>7 DEF Shown, Columns
        <3>2. QED  BY <1>3, <2>6, <2>7, <3>1, WriteNeverBack
    <2>8. (~disturbed) = (~disturbed)'
        BY <1>3, <2>1
    <2>9. Promise!CatchUp
        BY <1>1, <1>2, <1>3, <2>3, <2>5, <2>7, <2>8 DEF Promise!CatchUp, Promise!Columns, Columns
    <2>10. QED  BY <2>9
<1>4. CASE disturbed /\ disturbed'
    <2>1. (~disturbed) = (~disturbed)'
        BY <1>4
    <2>2. Promise!Drift
        BY <1>1, <1>4, <2>1 DEF Promise!Drift
    <2>3. QED  BY <2>2
<1>5. CASE disturbed /\ ~disturbed'
    <2>1. alone /\ j.of < 0
        BY <1>1, <1>5
    <2>2. j.entity = StateOf(Len(log)) /\ j.base = row /\ j.at = "write"
          /\ row' = IF j.base = NoRow THEN j.entity ELSE Saved(row, j.base, j.entity)
        BY <2>1 DEF AloneInv, Write
    <2>3. row' = j.entity
        <3>1. EntityOK(j.entity) /\ RowOK
            BY <2>2 DEF Base, JobOK
        <3>2. row # NoRow => Saved(row, row, j.entity) = j.entity
            BY <3>1, SavedOK DEF RowOK, EntityOK
        <3>3. QED  BY <2>2, <3>2
    <2>4. Reflects(row', Len(log))
        BY <2>2, <2>3, ReflectsState
    <2>5. Shown' = Promise!Snapshot(Len(log))
        BY <1>1, <2>4, ShowsSnapshot DEF Shown, Columns
    <2>6. Promise!Repair
        BY <1>1, <1>2, <1>5, <2>5 DEF Promise!Repair
    <2>7. QED  BY <2>6
<1>6. QED  BY <1>1, <1>3, <1>4, <1>5

\* An append of a command, published or not, is an event of the promise.
LEMMA PromisedAppend ==
    ASSUME Base, Base', NEW kind \in Kinds,
           NEW n \in IF kind = "created" THEN {0} ELSE Readable,
           kind = "created" => log = <<>>, AppendEvent(kind, n), disturbed => disturbed'
    PROVE  Promise!Store(kind)
<1>1. /\ LogGrows /\ Len(log)' = Len(log) + 1 /\ log'[Len(log) + 1].kind = kind
      /\ kind # "created" => Len(log) > 0
      /\ LogOK /\ Len(log) \in Nat
    BY AppendStep DEF Base, LogOK
<1>2. \A p \in 1 .. Len(log) : log'[p] = log[p]
    BY <1>1, LogPrefix
<1>3. EventKinds \in Seq(Kinds) /\ Len(EventKinds) = Len(log)
    <2>1. \A p \in 1 .. Len(log) : log[p].kind \in Kinds
        BY <1>1, EntryFields
    <2>2. EventKinds \in [1 .. Len(log) -> Kinds]
        BY <2>1 DEF EventKinds
    <2>3. QED  BY <1>1, <2>2
<1>4. EventKinds' = Append(EventKinds, kind)
    <2>1. PICK s \in Seq(Kinds) : s = EventKinds
        BY <1>3
    <2>2. /\ Append(s, kind) \in Seq(Kinds) /\ Len(Append(s, kind)) = Len(log) + 1
          /\ \A p \in 1 .. Len(log) : Append(s, kind)[p] = s[p]
          /\ Append(s, kind)[Len(log) + 1] = kind
        BY <1>3, <2>1, AppendProperties
    <2>3. EventKinds' = [p \in 1 .. Len(log) + 1 |-> log'[p].kind]
        BY <1>1 DEF EventKinds
    <2>4. \A p \in 1 .. Len(log) + 1 : log'[p].kind = Append(s, kind)[p]
        BY <1>1, <1>2, <2>1, <2>2 DEF EventKinds
    <2>5. EventKinds' \in Seq(Kinds) /\ Len(EventKinds') = Len(log) + 1
        <3>1. \A p \in 1 .. Len(log) + 1 : log'[p].kind \in Kinds
            BY <1>1, <2>2, <2>4, ElementOfSeq
        <3>2. EventKinds' \in [1 .. Len(log) + 1 -> Kinds]
            BY <2>3, <3>1
        <3>3. QED  BY <1>1, <3>2
    <2>6. PICK t \in Seq(Kinds) : t = EventKinds'
        BY <2>5
    <2>7. Len(t) = Len(log) + 1 /\ \A p \in 1 .. Len(log) + 1 : t[p] = log'[p].kind
        BY <2>3, <2>5, <2>6
    <2>8. t = Append(s, kind)
        <3>1. PICK u \in Seq(Kinds) : u = Append(s, kind)
            BY <2>2
        <3>2. Len(u) = Len(t) /\ \A p \in 1 .. Len(t) : t[p] = u[p]
            BY <2>2, <2>4, <2>7, <3>1
        <3>3. QED  BY <3>1, <3>2, SeqEqual
    <2>9. QED  BY <2>1, <2>6, <2>8
<1>5. EventKinds = <<>> <=> kind = "created"
    <2>1. kind = "created" => Len(log) = 0
        OBVIOUS
    <2>2. EventKinds = <<>> <=> Len(log) = 0
        <3>1. \A s \in Seq(Kinds) : s = <<>> <=> Len(s) = 0
            OBVIOUS
        <3>2. QED  BY <1>3, <3>1
    <2>3. QED  BY <1>1, <2>1, <2>2
<1>6. (~disturbed)' \in {~disturbed, FALSE}
    <2>1. disturbed \in BOOLEAN /\ disturbed' \in BOOLEAN
        BY DEF Base, CountersOK
    <2>2. QED  BY <2>1, Zenon
<1>7. Shown' = Shown
    BY DEF AppendEvent, Shown
<1>8. QED  BY <1>4, <1>5, <1>6, <1>7 DEF Promise!Store

\* Every step of the read model is one of its promise, or shows nothing new.
LEMMA PromisedStep ==
    Base /\ UndisturbedInv /\ AloneInv /\ [Next]_vars => [Promise!Next]_(Promise!rvars)
<1> SUFFICES ASSUME Base, UndisturbedInv, AloneInv, [Next]_vars
             PROVE  [Promise!Next]_(Promise!rvars)
    OBVIOUS
<1>1. Base' /\ UndisturbedInv'
    BY BaseStep, UndisturbedStep
<1>2. disturbed \in BOOLEAN /\ disturbed' \in BOOLEAN
    BY <1>1 DEF Base, CountersOK
<1>3. ASSUME UNCHANGED <<log, row>>, disturbed => disturbed'
      PROVE  [Promise!Next]_(Promise!rvars)
    <2>1. EventKinds' = EventKinds /\ Shown' = Shown
        BY <1>3 DEF EventKinds, Shown
    <2>2. CASE disturbed' = disturbed
        BY <2>1, <2>2 DEF Promise!rvars
    <2>3. CASE disturbed' # disturbed
        <3>1. ~disturbed /\ disturbed'
            BY <1>2, <1>3, <2>3
        <3>2. (~disturbed)' = FALSE
            BY <3>1
        <3>3. Promise!Doubt
            BY <2>1, <3>2 DEF Promise!Doubt
        <3>4. QED  BY <3>3 DEF Promise!Next
    <2>4. QED  BY <2>2, <2>3
<1>4. CASE UNCHANGED vars
    <2>1. UNCHANGED <<log, row>> /\ (disturbed => disturbed')
        BY <1>4 DEF vars
    <2>2. QED  BY <1>3, <2>1
<1>5. ASSUME NEW kind \in Kinds, StoreAndPublish(kind) \/ StoreUnpublished(kind)
      PROVE  [Promise!Next]_(Promise!rvars)
    <2>1. PICK n \in IF kind = "created" THEN {0} ELSE Readable :
             (kind = "created" => log = <<>>) /\ AppendEvent(kind, n)
        BY <1>5, Zenon DEF StoreAndPublish, StoreUnpublished
    <2>2. disturbed => disturbed'
        BY <1>5, Zenon DEF StoreAndPublish, StoreUnpublished
    <2>3. Promise!Store(kind)
        BY <1>1, <2>1, <2>2, PromisedAppend
    <2>4. QED  BY <2>3 DEF Promise!Next, Kinds
<1>6. ASSUME NEW j \in jobs, Write(j)
      PROVE  [Promise!Next]_(Promise!rvars)
    BY <1>1, <1>6, PromisedWrite DEF Promise!Next
<1>7. ASSUME NEW j \in jobs,
             \/ LoadCreated(j) \/ LoadMissing(j) \/ LoadSkipped(j) \/ LoadUpdate(j)
             \/ Reload(j) \/ InsertRefused(j) \/ JobFails(j)
      PROVE  [Promise!Next]_(Promise!rvars)
    <2>1. UNCHANGED <<log, row>>
        BY <1>7 DEF LoadCreated, LoadMissing, LoadSkipped, LoadUpdate, LoadsUpdate, Begins,
                    Reload, InsertRefused, JobFails
    <2>2. disturbed => disturbed'
        BY <1>7, Zenon DEF LoadCreated, LoadMissing, LoadSkipped, LoadUpdate, Reload,
                           InsertRefused, JobFails
    <2>3. QED  BY <1>3, <2>1, <2>2
<1>8. CASE Rebuild \/ Crash
    <2>1. UNCHANGED <<log, row>>
        BY <1>8 DEF Rebuild, Crash
    <2>2. disturbed => disturbed'
        BY <1>8, Zenon DEF Rebuild, Crash
    <2>3. QED  BY <1>3, <2>1, <2>2
<1>9. QED  BY <1>4, <1>5, <1>6, <1>7, <1>8 DEF Next, Step

\* The row and its handlers implement the promised replica: what a client reads of an
\* undisturbed row is the account as it was at one time, and no column of it goes back.
THEOREM RowsImplementReplica == Spec => RowLagsConsistently
<1>1. Init => Promise!Init
    <2> SUFFICES ASSUME Init PROVE Promise!Init
        OBVIOUS
    <2>1. log = <<>> /\ row = NoRow /\ disturbed = FALSE
        BY DEF Init
    <2>2. EventKinds = <<>>
        <3>1. EventKinds \in [1 .. 0 -> Kinds]
            BY <2>1 DEF EventKinds
        <3>2. EventKinds \in Seq(Kinds) /\ Len(EventKinds) = 0
            BY <3>1
        <3>3. QED  BY <3>2
    <2>3. Shown = NoRow /\ (~disturbed) = TRUE
        BY <2>1 DEF Shown
    <2>4. QED  BY <2>2, <2>3 DEF Promise!Init
<1>2. Spec => [](UndisturbedInv /\ AloneInv)
    BY UndisturbedInit, UndisturbedStep, AloneStep, BaseInvariant, PTL DEF Spec
<1>3. QED
    BY <1>1, <1>2, PromisedStep, BaseInvariant, PTL DEF Spec, RowLagsConsistently, Promise!Spec

=============================================================================
