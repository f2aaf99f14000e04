---------------------------- MODULE RequestsProofs ----------------------------
(***************************************************************************)
(* Proofs about Requests, for every set of transactions, every case of     *)
(* requests, every number of rebuilds and faults and every lag of reads.   *)
(***************************************************************************)
EXTENDS Requests, SequenceTheorems, TLAPS

------------------------------------------------------------------------------
(* The logs.                                                                *)

Places == {"idle", "checking", "storing", "pending", "refused", "failed"}

\* The first event makes the transaction pending.  Every outcome is decided on
\* the first event alone, so each has version 2.  A second outcome is raced.
LogOK(t) ==
    /\ Len(versions[t]) = Len(txLog[t])
    /\ Stored(t) => txLog[t][1] = "PENDING" /\ versions[t][1] = 1
    /\ \A n \in 2 .. Len(txLog[t]) : txLog[t][n] # "PENDING" /\ versions[t][n] = 2
    /\ t \notin raced => Len(txLog[t]) <= 2
    /\ pc[t] \in {"idle", "checking", "storing", "refused"} => ~Stored(t)
    /\ pc[t] = "pending" => Stored(t)

LogPart ==
    /\ form \in Forms
    /\ pc \in [Transactions -> Places]
    /\ txLog \in [Transactions -> Seq(TransactionStatuses)]
    /\ versions \in [Transactions -> Seq(Nat)]
    /\ raced \subseteq Transactions
    /\ \A t \in Transactions : LogOK(t)

\* The log of a transaction, by its fields.
LEMMA LogFields ==
    ASSUME LogPart, NEW t \in Transactions
    PROVE  /\ txLog[t] \in Seq(TransactionStatuses) /\ versions[t] \in Seq(Nat) /\ LogOK(t)
           /\ Len(txLog[t]) \in Nat /\ Len(versions[t]) = Len(txLog[t])
           /\ Stored(t) <=> Len(txLog[t]) > 0
BY DEF LogPart, LogOK, Stored

\* An outcome is decided on the first event, whatever was read: every other event
\* ends the transaction, or ranks too high.
LEMMA DecidedOnFirst ==
    ASSUME LogPart, NEW t \in Transactions, NEW outcome \in {"COMPLETED", "COMPENSATED", "FAILED"},
           NEW n \in Readable(txLog[t]), Decides(t, outcome, n),
           \A k \in 1 .. Len(txLog[t]) : Rank[txLog[t][k]] < Rank[outcome]
    PROVE  n = 1 /\ Stored(t)
<1>1. /\ txLog[t] \in Seq(TransactionStatuses) /\ Len(txLog[t]) \in Nat /\ LogOK(t)
      /\ n \in 1 .. Len(txLog[t])
    BY LogFields DEF Readable, Decides
<1>2. Len(Read(t, n)) = n /\ Read(t, n)[n] = txLog[t][n]
    BY <1>1 DEF Read
<1>3. Status(Read(t, n)) = txLog[t][n] /\ txLog[t][n] \in TransactionStatuses
    BY <1>1, <1>2 DEF Status
<1>4. txLog[t][n] # "COMPENSATED"
    BY <1>1, <1>2 DEF Decides, Replays
<1>5. Rank[txLog[t][n]] < Rank[outcome]
    BY <1>1
<1>6. txLog[t][n] = "PENDING"
    <2>1. CASE outcome \in {"COMPLETED", "FAILED"}
        BY <1>3, <2>1 DEF Decides, CanComplete, CanFail
    <2>2. CASE outcome = "COMPENSATED"
        <3>1. txLog[t][n] \notin {"COMPLETED", "COMPENSATED"}
            BY <1>3, <2>2 DEF Decides, CanCompensate
        <3>2. txLog[t][n] # "FAILED"
            BY <1>5, <2>2 DEF Rank
        <3>3. QED  BY <1>3, <3>1, <3>2 DEF TransactionStatuses
    <2>3. QED  BY <2>1, <2>2
<1>7. ~(n \in 2 .. Len(txLog[t]))
    BY <1>1, <1>6 DEF LogOK
<1>8. QED  BY <1>1, <1>7, LogFields

\* The first event of a request is stored.
LEMMA OpensStep ==
    ASSUME LogPart, NEW t \in Transactions, Opens(t),
           pc' = [pc EXCEPT ![t] = "pending"] \/ pc' = [pc EXCEPT ![t] = "failed"]
    PROVE  /\ LogPart' /\ ~Stored(t)
           /\ txLog' = [txLog EXCEPT ![t] = <<"PENDING">>]
           /\ versions' = [versions EXCEPT ![t] = <<1>>]
<1>1. /\ pc[t] = "storing" /\ UNCHANGED <<form, raced>>
      /\ txLog' = [txLog EXCEPT ![t] = <<"PENDING">>]
      /\ versions' = [versions EXCEPT ![t] = <<1>>]
    BY DEF Opens, Requested
<1>2. <<"PENDING">> \in Seq(TransactionStatuses) /\ <<1>> \in Seq(Nat)
    BY DEF TransactionStatuses
<1>3. ~Stored(t)
    BY <1>1 DEF LogPart, LogOK
<1>4. /\ pc' \in [Transactions -> Places] /\ txLog' \in [Transactions -> Seq(TransactionStatuses)]
      /\ versions' \in [Transactions -> Seq(Nat)]
    BY <1>1, <1>2 DEF LogPart, Places
<1>5. ASSUME NEW u \in Transactions PROVE LogOK(u)'
    <2>1. CASE u = t
        <3>1. txLog'[t] = <<"PENDING">> /\ versions'[t] = <<1>> /\ pc'[t] \in {"pending", "failed"}
            BY <1>1 DEF LogPart
        <3>2. /\ Len(txLog'[t]) = 1 /\ Len(versions'[t]) = 1 /\ txLog'[t] # <<>>
              /\ txLog'[t][1] = "PENDING" /\ versions'[t][1] = 1
            BY <3>1
        <3>3. QED  BY <2>1, <3>1, <3>2 DEF LogOK, Stored
    <2>2. CASE u # t
        <3>1. txLog'[u] = txLog[u] /\ versions'[u] = versions[u] /\ pc'[u] = pc[u]
            BY <1>1, <2>2 DEF LogPart
        <3>2. QED  BY <1>1, <3>1 DEF LogPart, LogOK, Stored
    <2>3. QED  BY <2>1, <2>2
<1>6. QED  BY <1>1, <1>3, <1>4, <1>5 DEF LogPart

\* An outcome is appended.
LEMMA AppendsStep ==
    ASSUME LogPart, NEW t \in Transactions, NEW outcome \in Outcomes(t), Appends(t, outcome)
    PROVE  /\ LogPart' /\ Stored(t)
           /\ txLog' = [txLog EXCEPT ![t] = Append(txLog[t], outcome)]
           /\ versions' = [versions EXCEPT ![t] = Append(versions[t], 2)]
           /\ t \notin raced' => Len(txLog[t]) = 1
           /\ raced \subseteq raced'
<1>1. PICK n \in Readable(txLog[t]) :
         /\ Decides(t, outcome, n)
         /\ txLog' = [txLog EXCEPT ![t] = Append(@, outcome)]
         /\ versions' = [versions EXCEPT ![t] = Append(@, @[n] + 1)]
         /\ raced' = IF n = Len(txLog[t]) THEN raced ELSE raced \cup {t}
    BY DEF Appends
<1>2. /\ pc[t] = "pending" /\ UNCHANGED <<form, pc>>
      /\ \A k \in 1 .. Len(txLog[t]) : Rank[txLog[t][k]] < Rank[outcome]
      /\ outcome \in {"COMPLETED", "COMPENSATED", "FAILED"}
    BY DEF Appends, requestVars, Outcomes
<1>3. n = 1 /\ Stored(t)
    BY <1>1, <1>2, DecidedOnFirst
<1>4. /\ txLog[t] \in Seq(TransactionStatuses) /\ versions[t] \in Seq(Nat) /\ LogOK(t)
      /\ Len(txLog[t]) \in Nat /\ Len(versions[t]) = Len(txLog[t]) /\ Len(txLog[t]) > 0
      /\ versions[t][1] = 1
    BY <1>3, LogFields DEF LogOK
<1>5. /\ txLog' = [txLog EXCEPT ![t] = Append(txLog[t], outcome)]
      /\ versions' = [versions EXCEPT ![t] = Append(versions[t], 2)]
    BY <1>1, <1>3, <1>4 DEF LogPart
<1>6. t \notin raced' => Len(txLog[t]) = 1
    BY <1>1, <1>3
<1>7. raced \subseteq raced' /\ raced' \subseteq raced \cup {t}
    BY <1>1
<1>8. /\ Append(txLog[t], outcome) \in Seq(TransactionStatuses)
      /\ Append(versions[t], 2) \in Seq(Nat)
    BY <1>2, <1>4 DEF TransactionStatuses
<1>9. /\ txLog' \in [Transactions -> Seq(TransactionStatuses)]
      /\ versions' \in [Transactions -> Seq(Nat)]
    BY <1>5, <1>8 DEF LogPart
<1>10. ASSUME NEW u \in Transactions PROVE LogOK(u)'
    <2>1. CASE u = t
        <3>1. txLog'[t] = Append(txLog[t], outcome) /\ versions'[t] = Append(versions[t], 2)
            BY <1>5 DEF LogPart
        <3>2. PICK l \in Nat : l = Len(txLog[t]) /\ l > 0
            BY <1>4
        <3>3. /\ Len(txLog'[t]) = l + 1 /\ Len(versions'[t]) = l + 1
              /\ txLog'[t][l + 1] = outcome /\ versions'[t][l + 1] = 2
              /\ \A k \in 1 .. l : txLog'[t][k] = txLog[t][k] /\ versions'[t][k] = versions[t][k]
            BY <1>4, <3>1, <3>2
        <3>4. \A k \in 2 .. l + 1 : txLog'[t][k] # "PENDING" /\ versions'[t][k] = 2
            <4> SUFFICES ASSUME NEW k \in 2 .. l + 1
                         PROVE  txLog'[t][k] # "PENDING" /\ versions'[t][k] = 2
                OBVIOUS
            <4>1. CASE k = l + 1
                BY <1>2, <3>3, <4>1
            <4>2. CASE k \in 2 .. l
                <5>1. txLog[t][k] # "PENDING" /\ versions[t][k] = 2
                    BY <1>4, <3>2, <4>2 DEF LogOK
                <5>2. QED  BY <3>3, <4>2, <5>1
            <4>3. QED  BY <3>2, <4>1, <4>2
        <3>5. txLog'[t][1] = "PENDING" /\ versions'[t][1] = 1
            BY <1>3, <1>4, <3>2, <3>3 DEF LogOK
        <3>6. Stored(t)'
            <4>1. txLog'[t] # <<>>
                BY <3>2, <3>3
            <4>2. QED  BY <4>1 DEF Stored
        <3>7. t \notin raced' => Len(txLog'[t]) <= 2
            <4>1. t \notin raced' => l = 1
                BY <1>6, <3>2
            <4>2. Len(txLog'[t]) = l + 1
                BY <3>3
            <4>3. QED  BY <4>1, <4>2
        <3>8. QED  BY <1>2, <2>1, <3>3, <3>4, <3>5, <3>6, <3>7 DEF LogOK
    <2>2. CASE u # t
        <3>1. txLog'[u] = txLog[u] /\ versions'[u] = versions[u] /\ (u \in raced' <=> u \in raced)
            BY <1>5, <1>7, <2>2 DEF LogPart
        <3>2. QED  BY <1>2, <3>1 DEF LogPart, LogOK, Stored
    <2>3. QED  BY <2>1, <2>2
<1>11. QED  BY <1>2, <1>3, <1>5, <1>6, <1>7, <1>9, <1>10 DEF LogPart

\* Logs only grow.
Grown ==
    \A t \in Transactions :
        /\ Len(txLog[t]) <= Len(txLog[t])'
        /\ \A n \in 1 .. Len(txLog[t]) :
              txLog'[t][n] = txLog[t][n] /\ versions'[t][n] = versions[t][n]

\* A step that leaves the logs alone and takes a request on.
LEMMA QuietLogs ==
    ASSUME LogPart, UNCHANGED <<form, txLog, versions, raced>>,
           pc' \in [Transactions -> Places],
           \A t \in Transactions :
              \/ pc'[t] = pc[t] \/ pc'[t] = "failed"
              \/ ~Stored(t) /\ pc'[t] # "pending"
    PROVE  LogPart' /\ Grown
<1>1. \A t \in Transactions : LogOK(t)'
    BY DEF LogPart, LogOK, Stored
<1>2. Grown
    <2>1. \A t \in Transactions : Len(txLog[t]) \in Nat
        BY LogFields
    <2>2. QED  BY <2>1 DEF Grown
<1>3. QED  BY <1>1, <1>2 DEF LogPart

\* What each action does to the logs: nothing, or one event of one transaction.
LEMMA LogStep ==
    ASSUME LogPart, Next
    PROVE  /\ LogPart' /\ Grown /\ form' = form
           /\ raced \subseteq raced'
<1>1. ASSUME NEW t \in Transactions, LookUp(t) \/ CheckAccounts(t) \/ StoreRefused(t)
      PROVE  LogPart' /\ Grown /\ form' = form /\ raced' = raced
    <2>1. /\ UNCHANGED <<form, txLog, versions, raced>> /\ pc[t] \in {"idle", "checking", "storing"}
          /\ \E to \in {"refused", "checking", "storing"} : pc' = [pc EXCEPT ![t] = to]
        BY <1>1 DEF LookUp, CheckAccounts, StoreRefused, Goes, logVars
    <2>2. /\ pc' \in [Transactions -> Places] /\ \A u \in Transactions \ {t} : pc'[u] = pc[u]
          /\ pc'[t] # "pending" /\ ~Stored(t)
        BY <2>1 DEF LogPart, LogOK, Places
    <2>3. QED  BY <2>1, <2>2, QuietLogs
<1>2. ASSUME NEW t \in Transactions, Store(t) \/ StoreUnpublished(t)
      PROVE  LogPart' /\ Grown /\ form' = form /\ raced' = raced
    <2>1. Opens(t) /\ form' = form /\ raced' = raced
        BY <1>2 DEF Store, StoreUnpublished, Opens
    <2>2. pc' = [pc EXCEPT ![t] = "pending"] \/ pc' = [pc EXCEPT ![t] = "failed"]
        BY <1>2 DEF Store, StoreUnpublished, Goes
    <2>3. /\ LogPart' /\ ~Stored(t)
          /\ txLog' = [txLog EXCEPT ![t] = <<"PENDING">>]
          /\ versions' = [versions EXCEPT ![t] = <<1>>]
        BY <2>1, <2>2, OpensStep
    <2>4. Len(txLog[t]) = 0 /\ Len(txLog'[t]) \in Nat
        BY <2>3, LogFields DEF LogPart
    <2>5. \A u \in Transactions \ {t} :
             txLog'[u] = txLog[u] /\ versions'[u] = versions[u] /\ Len(txLog[u]) \in Nat
        BY <2>3, LogFields DEF LogPart
    <2>6. Grown
        BY <2>4, <2>5 DEF Grown
    <2>7. QED  BY <2>1, <2>3, <2>6
<1>3. ASSUME NEW t \in Transactions, NEW outcome \in Outcomes(t),
             End(t, outcome) \/ EndUnpublished(t, outcome)
      PROVE  LogPart' /\ Grown /\ form' = form /\ raced \subseteq raced'
    <2>1. Appends(t, outcome) /\ form' = form
        BY <1>3 DEF End, EndUnpublished, Appends, requestVars
    <2>2. /\ LogPart' /\ raced \subseteq raced'
          /\ txLog' = [txLog EXCEPT ![t] = Append(txLog[t], outcome)]
          /\ versions' = [versions EXCEPT ![t] = Append(versions[t], 2)]
        BY <2>1, AppendsStep
    <2>3. /\ txLog[t] \in Seq(TransactionStatuses) /\ versions[t] \in Seq(Nat)
          /\ Len(txLog[t]) \in Nat /\ Len(versions[t]) = Len(txLog[t])
          /\ outcome \in TransactionStatuses
        BY LogFields DEF Outcomes, TransactionStatuses
    <2>4. txLog'[t] = Append(txLog[t], outcome) /\ versions'[t] = Append(versions[t], 2)
        BY <2>2 DEF LogPart
    <2>5. /\ Len(txLog'[t]) = Len(txLog[t]) + 1
          /\ \A n \in 1 .. Len(txLog[t]) :
                txLog'[t][n] = txLog[t][n] /\ versions'[t][n] = versions[t][n]
        BY <2>3, <2>4
    <2>6. \A u \in Transactions \ {t} :
             txLog'[u] = txLog[u] /\ versions'[u] = versions[u] /\ Len(txLog[u]) \in Nat
        BY <2>2, LogFields DEF LogPart
    <2>7. Grown
        BY <2>3, <2>5, <2>6 DEF Grown
    <2>8. QED  BY <2>1, <2>2, <2>7
<1>4. ASSUME NEW j \in jobs, Step(j) \/ JobFails(j)
      PROVE  LogPart' /\ Grown /\ form' = form /\ raced' = raced
    <2>1. UNCHANGED <<form, pc, txLog, versions, raced>>
        BY <1>4 DEF Step, FindsExisting, InsertReads, UpdateApplies, UpdateMatchesNothing, Save,
                    SaveRefused, RebuildReads, JobFails, requestVars, logVars
    <2>2. QED  BY <2>1, QuietLogs DEF LogPart
<1>5. ASSUME NEW t \in Transactions, Rebuild(t)
      PROVE  LogPart' /\ Grown /\ form' = form /\ raced' = raced
    <2>1. UNCHANGED <<form, pc, txLog, versions, raced>>
        BY <1>5 DEF Rebuild, requestVars, logVars
    <2>2. QED  BY <2>1, QuietLogs DEF LogPart
<1>6. CASE Crash
    <2>1. /\ UNCHANGED <<form, txLog, versions, raced>>
          /\ pc' = [t \in Transactions |->
                      IF pc[t] \in {"checking", "storing", "pending"} THEN "failed" ELSE pc[t]]
        BY <1>6 DEF Crash, logVars
    <2>2. pc' \in [Transactions -> Places] /\ \A t \in Transactions : pc'[t] \in {pc[t], "failed"}
        BY <2>1 DEF LogPart, Places
    <2>3. QED  BY <2>1, <2>2, QuietLogs
<1>7. QED  BY <1>1, <1>2, <1>3, <1>4, <1>5, <1>6 DEF Next

------------------------------------------------------------------------------
(* The rows and the jobs.                                                   *)

\* A row has the key of its transaction and no version its log does not have.
RowOK(t) ==
    row[t] # NoRow => /\ row[t].key = form[t].key
                      /\ row[t].version \in 1 .. 2 /\ row[t].version <= Len(txLog[t])

RowPart ==
    /\ row \in [Transactions -> Rows \cup {NoRow}]
    /\ shown = {t \in Transactions : row[t] # NoRow}
    /\ \A t \in Transactions : RowOK(t)

Jobs ==
    [tx : Transactions, n : Nat, at : {"handle", "insert", "load", "save"},
     entity : Rows \cup {NoRow}, base : Rows \cup {NoRow}]

\* A job knows the first j.n events, and has their row once it saves.
JobOK(j) ==
    /\ j \in Jobs
    /\ j.n \in 1 .. Len(txLog[j.tx])
    /\ j.at = "insert" => j.n = 1
    /\ j.at \in {"load", "save"} => j.entity = Entity(j.tx, j.n)
    /\ j.base # NoRow => row[j.tx] # NoRow /\ j.at = "save"

CountPart ==
    /\ rebuilds \in 0 .. MaxRebuilds /\ faults \in 0 .. MaxFaults
    /\ disturbed \subseteq Transactions

Base == LogPart /\ RowPart /\ (\A j \in jobs : JobOK(j)) /\ CountPart

\* An absent row is no row.
LEMMA NoRowIsNoRow ==
    ASSUME LogPart
    PROVE  NoRow \notin Rows
<1> SUFFICES ASSUME NoRow \in Rows PROVE FALSE
    OBVIOUS
<1>1. \A k \in Keys : k \in {f[t].key : f \in Forms, t \in Transactions}
    BY DEF LogPart, Keys
<1>2. NoRow \in [status : TransactionStatuses, version : Nat,
                 key : {f[t].key : f \in Forms, t \in Transactions}]
    BY <1>1 DEF Rows
<1>3. QED  BY <1>2, NoRowAssumption

\* The set of possible rows depends on the requests alone.
LEMMA RowsStay == ASSUME form' = form PROVE Rows' = Rows
BY DEF Rows, Keys

\* The row for the first n events.
LEMMA EntityFields ==
    ASSUME LogPart, NEW t \in Transactions, NEW n \in 1 .. Len(txLog[t])
    PROVE  /\ Entity(t, n) \in Rows
           /\ Entity(t, n).status = txLog[t][n] /\ Entity(t, n).key = form[t].key
           /\ Entity(t, n).version = IF n = 1 THEN 1 ELSE 2
<1>1. /\ txLog[t] \in Seq(TransactionStatuses) /\ Len(txLog[t]) \in Nat /\ LogOK(t) /\ Stored(t)
    BY LogFields
<1>2. versions[t][n] = IF n = 1 THEN 1 ELSE 2
    <2>1. CASE n = 1
        BY <1>1, <2>1 DEF LogOK
    <2>2. CASE n # 1
        <3>1. n \in 2 .. Len(txLog[t])
            BY <1>1, <2>2
        <3>2. QED  BY <1>1, <2>2, <3>1 DEF LogOK
    <2>3. QED  BY <2>1, <2>2
<1>3. txLog[t][n] \in TransactionStatuses /\ form[t].key \in Keys
    BY <1>1 DEF Keys
<1>4. QED  BY <1>2, <1>3 DEF Entity, Rows

\* What an event shows does not change when the log grows.
LEMMA EntityStays ==
    ASSUME Grown, form' = form, NEW t \in Transactions, NEW n \in 1 .. Len(txLog[t])
    PROVE  Entity(t, n)' = Entity(t, n)
BY DEF Grown, Entity

\* A job keeps what it knows while logs grow and rows stay.
LEMMA JobStays ==
    ASSUME LogPart, LogPart', Grown, form' = form, NEW j, JobOK(j),
           row[j.tx] # NoRow => row[j.tx]' # NoRow
    PROVE  JobOK(j)'
<1>1. j \in Jobs /\ j.tx \in Transactions /\ j.n \in 1 .. Len(txLog[j.tx])
    BY DEF JobOK, Jobs
<1>2. Len(txLog[j.tx]) \in Nat /\ Len(txLog[j.tx])' \in Nat
    BY <1>1, LogFields DEF LogPart
<1>3. j.n \in 1 .. Len(txLog[j.tx])'
    BY <1>1, <1>2 DEF Grown
<1>4. Entity(j.tx, j.n)' = Entity(j.tx, j.n)
    BY <1>1, EntityStays
<1>5. Jobs' = Jobs
    BY RowsStay DEF Jobs
<1>6. QED  BY <1>1, <1>3, <1>4, <1>5 DEF JobOK

\* A row of the read model, by its columns.
LEMMA RowFields ==
    ASSUME NEW r \in Rows
    PROVE  /\ r.status \in TransactionStatuses /\ r.version \in 1 .. 3 /\ r.key \in Keys
           /\ r = [status |-> r.status, version |-> r.version, key |-> r.key]
BY DEF Rows

\* save() takes each column from the row or from the entity.
Merged(r, base, entity) ==
    [c \in DOMAIN r |-> IF entity[c] # base[c] THEN entity[c] ELSE r[c]]

\* A save mixes columns of the entity and of the row, and of nothing else.
LEMMA MergedFields ==
    ASSUME NEW r \in Rows, NEW b \in Rows, NEW e \in Rows
    PROVE  /\ Merged(r, b, e) \in Rows
           /\ Merged(r, b, e).key \in {e.key, r.key}
           /\ Merged(r, b, e).version \in {e.version, r.version}
           /\ Merged(r, e, e) = r
<1> DEFINE s == Merged(r, b, e)
<1>1. s = [status |-> IF e.status # b.status THEN e.status ELSE r.status,
           version |-> IF e.version # b.version THEN e.version ELSE r.version,
           key |-> IF e.key # b.key THEN e.key ELSE r.key]
    BY DEF Merged, Rows
<1>2. Merged(r, e, e) = [status |-> r.status, version |-> r.version, key |-> r.key]
    BY DEF Merged, Rows
<1> HIDE DEF s
<1>3. /\ s.status \in {e.status, r.status} /\ s.version \in {e.version, r.version}
      /\ s.key \in {e.key, r.key}
      /\ s = [status |-> s.status, version |-> s.version, key |-> s.key]
    BY <1>1
<1>4. s.status \in TransactionStatuses /\ s.version \in 1 .. 3 /\ s.key \in Keys
    BY <1>3, RowFields
<1>5. s \in Rows
    BY <1>3, <1>4 DEF Rows
<1>6. QED  BY <1>2, <1>3, <1>5, RowFields DEF s

\* Updates of a job are jobs.
LEMMA JobRecord ==
    ASSUME NEW t \in Transactions, NEW n \in Nat, NEW at \in {"handle", "insert", "load", "save"},
           NEW entity \in Rows \cup {NoRow}, NEW base \in Rows \cup {NoRow}
    PROVE  LET k == Job(t, n, at, entity, base)
           IN  k \in Jobs /\ k.tx = t /\ k.n = n /\ k.at = at /\ k.entity = entity /\ k.base = base
BY DEF Job, Jobs

\* A job that moves on, by its fields.
LEMMA JobUpdates ==
    ASSUME NEW j \in Jobs, NEW at, NEW base
    PROVE  /\ [j EXCEPT !.at = at] = Job(j.tx, j.n, at, j.entity, j.base)
           /\ [j EXCEPT !.at = at, !.base = base] = Job(j.tx, j.n, at, j.entity, base)
<1>1. DOMAIN j = {"tx", "n", "at", "entity", "base"}
    BY DEF Jobs
<1>2. [j EXCEPT !.at = at] = Job(j.tx, j.n, at, j.entity, j.base)
    <2> DEFINE k == [j EXCEPT !.at = at]
    <2>1. k = [c \in DOMAIN j |-> IF c = "at" THEN at ELSE j[c]]
        BY DEF Jobs
    <2> HIDE DEF k
    <2>2. k = Job(j.tx, j.n, at, j.entity, j.base)
        BY <1>1, <2>1 DEF Job
    <2>3. QED  BY <2>2 DEF k
<1>3. [j EXCEPT !.at = at, !.base = base] = Job(j.tx, j.n, at, j.entity, base)
    <2> DEFINE k == [j EXCEPT !.at = at, !.base = base]
    <2>1. k = [c \in DOMAIN j |-> IF c = "base" THEN base ELSE IF c = "at" THEN at ELSE j[c]]
        BY DEF Jobs
    <2> HIDE DEF k
    <2>2. k = Job(j.tx, j.n, at, j.entity, base)
        BY <1>1, <2>1 DEF Job
    <2>3. QED  BY <2>2 DEF k
<1>4. QED  BY <1>2, <1>3

------------------------------------------------------------------------------
(* What a job's step does to the row and to the job.                        *)

\* A handler or rebuild reads on: the job moves, no row changes.
Moving(j, k) ==
    /\ jobs' = (jobs \ {j}) \cup {k} /\ k.tx = j.tx /\ k.n = j.n
    /\ UNCHANGED <<row, shown>>

\* The steps of jobs touch rows and jobs only.
LEMMA StepIsQuiet ==
    ASSUME NEW j, Step(j)
    PROVE  UNCHANGED <<form, pc, before, txLog, versions, raced, rebuilds, faults>>
BY DEF Step, FindsExisting, InsertReads, UpdateApplies, UpdateMatchesNothing, Save, SaveRefused,
       RebuildReads, requestVars, logVars

\* A handler that looked for a row and found none goes on to insert it.
LEMMA FindsMove ==
    ASSUME NEW j \in Jobs, FindsExisting(j), row[j.tx] = NoRow
    PROVE  LET k == Job(j.tx, j.n, "insert", j.entity, j.base)
           IN  Moving(j, k) /\ j.at = "handle" /\ j.n = 1
<1>1. /\ j.at = "handle" /\ j.n = 1 /\ UNCHANGED <<row, shown>>
      /\ jobs' = (jobs \ {j}) \cup {[j EXCEPT !.at = "insert"]}
    BY DEF FindsExisting, Moves, rowVars
<1>2. QED  BY <1>1, JobUpdates DEF Moving, Job

\* An insert's save() has read.
LEMMA InsertMove ==
    ASSUME NEW j \in Jobs, InsertReads(j)
    PROVE  LET k == Job(j.tx, j.n, "save", Entity(j.tx, 1), row[j.tx])
           IN  Moving(j, k) /\ j.at \in {"handle", "insert"} /\ j.n = 1
<1>1. /\ j.at \in {"handle", "insert"} /\ j.n = 1 /\ UNCHANGED <<row, shown>>
      /\ jobs' = (jobs \ {j})
                    \cup {[j EXCEPT !.at = "save", !.entity = Entity(j.tx, 1), !.base = row[j.tx]]}
    BY DEF InsertReads, Inserting, Moves, rowVars
<1>2. PICK e, b : e = Entity(j.tx, 1) /\ b = row[j.tx]
    OBVIOUS
<1>3. [j EXCEPT !.at = "save", !.entity = e, !.base = b] = Job(j.tx, j.n, "save", e, b)
    <2>1. DOMAIN j = {"tx", "n", "at", "entity", "base"}
        BY DEF Jobs
    <2> DEFINE k == [j EXCEPT !.at = "save", !.entity = e, !.base = b]
    <2>2. k = [c \in DOMAIN j |-> IF c = "base" THEN b ELSE IF c = "entity" THEN e
                                  ELSE IF c = "at" THEN "save" ELSE j[c]]
        BY DEF Jobs
    <2> HIDE DEF k
    <2>3. k = Job(j.tx, j.n, "save", e, b)
        BY <2>1, <2>2 DEF Job
    <2>4. QED  BY <2>3 DEF k
<1>4. QED  BY <1>1, <1>2, <1>3 DEF Moving, Job

\* A rebuild's save() has read.
LEMMA RebuildMove ==
    ASSUME NEW j \in Jobs, RebuildReads(j)
    PROVE  LET k == Job(j.tx, j.n, "save", j.entity, row[j.tx])
           IN  Moving(j, k) /\ j.at = "load"
<1>1. /\ j.at = "load" /\ UNCHANGED <<row, shown>>
      /\ jobs' = (jobs \ {j}) \cup {[j EXCEPT !.at = "save", !.base = row[j.tx]]}
    BY DEF RebuildReads, Moves, rowVars
<1>2. QED  BY <1>1, JobUpdates DEF Moving, Job

\* A guarded update writes the event's row.
LEMMA UpdateWrites ==
    ASSUME Base, NEW j \in jobs, UpdateApplies(j)
    PROVE  /\ jobs' = jobs \ {j} /\ shown' = shown /\ row[j.tx] # NoRow
           /\ j.at = "handle" /\ j.n \in 2 .. Len(txLog[j.tx])
           /\ row' = [row EXCEPT ![j.tx] = Entity(j.tx, j.n)]
           /\ row[j.tx].version < Entity(j.tx, j.n).version
<1>1. /\ j \in Jobs /\ j.tx \in Transactions /\ j.n \in 1 .. Len(txLog[j.tx])
      /\ RowOK(j.tx) /\ row \in [Transactions -> Rows \cup {NoRow}]
    BY DEF Base, JobOK, Jobs, RowPart
<1>2. /\ j.at = "handle" /\ j.n > 1 /\ jobs' = jobs \ {j} /\ shown' = shown
      /\ row[j.tx] # NoRow /\ row[j.tx].version < versions[j.tx][j.n]
      /\ row' = [row EXCEPT ![j.tx].status = txLog[j.tx][j.n],
                            ![j.tx].version = versions[j.tx][j.n]]
    BY DEF UpdateApplies, Older, Ends
<1>3. PICK r \in Rows : r = row[j.tx]
    BY <1>1, <1>2
<1>4. \A s, v : [r EXCEPT !.status = s, !.version = v] = [status |-> s, version |-> v, key |-> r.key]
    <2> TAKE s, v
    <2>1. DOMAIN r = {"status", "version", "key"}
        BY DEF Rows
    <2> DEFINE e == [r EXCEPT !.status = s, !.version = v]
    <2>2. e = [c \in DOMAIN r |-> IF c = "version" THEN v ELSE IF c = "status" THEN s ELSE r[c]]
        BY DEF Rows
    <2> HIDE DEF e
    <2>3. e = [status |-> s, version |-> v, key |-> r.key]
        BY <2>1, <2>2
    <2>4. QED  BY <2>3 DEF e
<1>5. row' = [row EXCEPT ![j.tx] = [r EXCEPT !.status = txLog[j.tx][j.n],
                                             !.version = versions[j.tx][j.n]]]
    BY <1>1, <1>2, <1>3
<1>6. r.key = form[j.tx].key
    BY <1>1, <1>2, <1>3 DEF RowOK
<1>7. row' = [row EXCEPT ![j.tx] = Entity(j.tx, j.n)]
    <2>1. [r EXCEPT !.status = txLog[j.tx][j.n], !.version = versions[j.tx][j.n]]
             = [status |-> txLog[j.tx][j.n], version |-> versions[j.tx][j.n], key |-> r.key]
        BY <1>4
    <2>2. QED  BY <1>5, <1>6, <2>1 DEF Entity
<1>8. j.n \in 2 .. Len(txLog[j.tx])
    BY <1>1, <1>2
<1>9. QED  BY <1>2, <1>7, <1>8 DEF Entity

\* A save inserts the job's row, or merges it into the row there is.
LEMMA SaveWrites ==
    ASSUME Base, NEW j \in jobs, Save(j)
    PROVE  /\ jobs' = jobs \ {j} /\ shown' = shown \cup {j.tx} /\ j.at = "save"
           /\ j.base = NoRow => Insertable(j.tx)
           /\ j.base # NoRow => row[j.tx] # NoRow
           /\ row' = [row EXCEPT ![j.tx] = IF j.base = NoRow THEN j.entity
                                           ELSE Merged(row[j.tx], j.base, j.entity)]
<1>1. row' = [row EXCEPT ![j.tx] = IF j.base = NoRow THEN j.entity
                                   ELSE Merged(row[j.tx], j.base, j.entity)]
    BY DEF Save, Merged, Base, RowPart
<1>2. j.base # NoRow => row[j.tx] # NoRow
    BY DEF Base, JobOK
<1>3. QED  BY <1>1, <1>2 DEF Save, Ends

\* A row of the transaction's log replaces its row.
LEMMA RowWritten ==
    ASSUME Base, NEW t \in Transactions, NEW r \in Rows, row' = [row EXCEPT ![t] = r],
           shown' = shown \cup {t}, r.key = form[t].key,
           r.version \in 1 .. 2, r.version <= Len(txLog[t]), UNCHANGED <<form, txLog>>
    PROVE  RowPart' /\ \A u \in Transactions : row[u] # NoRow => row[u]' # NoRow
<1>1. NoRow \notin Rows /\ Rows' = Rows
    BY NoRowIsNoRow, RowsStay DEF Base
<1>2. row' \in [Transactions -> Rows \cup {NoRow}] /\ row'[t] = r
      /\ \A u \in Transactions \ {t} : row'[u] = row[u]
    BY DEF Base, RowPart
<1>3. shown' = {u \in Transactions : row'[u] # NoRow}
    BY <1>1, <1>2 DEF Base, RowPart
<1>4. \A u \in Transactions : RowOK(u)'
    BY <1>2 DEF Base, RowPart, RowOK
<1>5. QED  BY <1>1, <1>2, <1>3, <1>4 DEF RowPart

\* Rows that no one writes stay well formed while logs grow.
LEMMA RowsUnchanged ==
    ASSUME RowPart, LogPart, LogPart', Grown, UNCHANGED <<form, row, shown>>
    PROVE  RowPart' /\ \A u \in Transactions : row[u] # NoRow => row[u]' # NoRow
<1>1. Rows' = Rows
    BY RowsStay
<1>2. \A t \in Transactions : RowOK(t)'
    <2> SUFFICES ASSUME NEW t \in Transactions, row[t] # NoRow
                 PROVE  RowOK(t)'
        BY DEF RowOK
    <2>1. row[t].key = form[t].key /\ row[t].version \in 1 .. 2 /\ row[t].version <= Len(txLog[t])
        BY DEF RowPart, RowOK
    <2>2. Len(txLog[t]) \in Nat /\ Len(txLog[t])' \in Nat /\ Len(txLog[t]) <= Len(txLog[t])'
        BY LogFields DEF LogPart, Grown
    <2>3. QED  BY <2>1, <2>2 DEF RowOK
<1>3. QED  BY <1>1, <1>2 DEF RowPart

\* A job writes well-formed rows, deletes none, and ends or goes on as a job.
LEMMA JobStep ==
    ASSUME Base, LogPart', Grown, NEW j \in jobs, Step(j)
    PROVE  /\ RowPart' /\ \A u \in Transactions : row[u] # NoRow => row[u]' # NoRow
           /\ \/ jobs' = jobs \ {j}
              \/ \E k : jobs' = (jobs \ {j}) \cup {k} /\ JobOK(k)
<1>1. /\ JobOK(j) /\ j \in Jobs /\ j.tx \in Transactions /\ j.n \in 1 .. Len(txLog[j.tx])
      /\ LogPart /\ RowPart /\ UNCHANGED <<form, txLog, versions>> /\ j.n \in Nat
      /\ row[j.tx] \in Rows \cup {NoRow}
      /\ Len(txLog[j.tx]) \in Nat
    BY StepIsQuiet, LogFields DEF Base, JobOK, Jobs, RowPart
<1>2. UNCHANGED <<row, shown>> =>
         RowPart' /\ \A u \in Transactions : row[u] # NoRow => row[u]' # NoRow
    BY <1>1, RowsUnchanged
<1>3. CASE FindsExisting(j)
    <2>1. CASE row[j.tx] = NoRow
        <3>1. PICK k : k = Job(j.tx, j.n, "insert", j.entity, j.base)
            OBVIOUS
        <3>2. Moving(j, k) /\ j.n = 1 /\ j.at = "handle"
            BY <1>1, <1>3, <2>1, <3>1, FindsMove
        <3>3. /\ k \in Jobs /\ k.tx = j.tx /\ k.n = j.n /\ k.at = "insert" /\ k.entity = j.entity
              /\ k.base = j.base
            BY <1>1, <3>1, JobRecord DEF Jobs
        <3>4. JobOK(k)
            BY <1>1, <3>2, <3>3 DEF JobOK
        <3>5. QED  BY <1>2, <3>2, <3>4 DEF Moving
    <2>2. CASE row[j.tx] # NoRow
        BY <1>2, <1>3, <2>2 DEF FindsExisting, Ends, rowVars
    <2>3. QED  BY <2>1, <2>2
<1>4. CASE InsertReads(j)
    <2>1. PICK k : k = Job(j.tx, j.n, "save", Entity(j.tx, 1), row[j.tx])
        OBVIOUS
    <2>2. Moving(j, k) /\ j.n = 1
        BY <1>1, <1>4, <2>1, InsertMove
    <2>3. Entity(j.tx, 1) \in Rows
        BY <1>1, <2>2, EntityFields
    <2>4. /\ k \in Jobs /\ k.tx = j.tx /\ k.n = j.n /\ k.at = "save" /\ k.entity = Entity(j.tx, 1)
          /\ k.base = row[j.tx]
        BY <1>1, <2>1, <2>3, JobRecord
    <2>5. JobOK(k)
        BY <1>1, <2>2, <2>4 DEF JobOK
    <2>6. QED  BY <1>2, <2>2, <2>5 DEF Moving
<1>5. CASE UpdateApplies(j)
    <2>1. /\ jobs' = jobs \ {j} /\ shown' = shown /\ row[j.tx] # NoRow
          /\ j.n \in 2 .. Len(txLog[j.tx]) /\ row' = [row EXCEPT ![j.tx] = Entity(j.tx, j.n)]
        BY <1>5, UpdateWrites
    <2>2. /\ Entity(j.tx, j.n) \in Rows /\ Entity(j.tx, j.n).key = form[j.tx].key
          /\ Entity(j.tx, j.n).version = 2
        BY <1>1, <2>1, EntityFields
    <2>3. shown' = shown \cup {j.tx} /\ 2 <= Len(txLog[j.tx])
        BY <1>1, <2>1 DEF RowPart
    <2>4. PICK r \in Rows : r = Entity(j.tx, j.n)
        BY <2>2
    <2>5. /\ row' = [row EXCEPT ![j.tx] = r] /\ r.key = form[j.tx].key
          /\ r.version \in 1 .. 2 /\ r.version <= Len(txLog[j.tx])
        BY <2>1, <2>2, <2>3, <2>4
    <2>6. QED  BY <1>1, <2>1, <2>3, <2>5, RowWritten
<1>6. CASE Save(j)
    <2>1. /\ jobs' = jobs \ {j} /\ shown' = shown \cup {j.tx} /\ j.at = "save"
          /\ j.base # NoRow => row[j.tx] # NoRow
          /\ row' = [row EXCEPT ![j.tx] = IF j.base = NoRow THEN j.entity
                                          ELSE Merged(row[j.tx], j.base, j.entity)]
        BY <1>6, SaveWrites
    <2>2. /\ j.entity \in Rows /\ j.entity.key = form[j.tx].key
          /\ j.entity.version = (IF j.n = 1 THEN 1 ELSE 2)
        BY <1>1, <2>1, EntityFields DEF JobOK
    <2>3. j.entity.version \in 1 .. 2 /\ j.entity.version <= Len(txLog[j.tx])
        BY <1>1, <2>2
    <2>4. PICK r : r = IF j.base = NoRow THEN j.entity ELSE Merged(row[j.tx], j.base, j.entity)
        OBVIOUS
    <2>5. r \in Rows /\ r.key = form[j.tx].key /\ r.version \in 1 .. 2
          /\ r.version <= Len(txLog[j.tx])
        <3>1. CASE j.base = NoRow
            BY <2>2, <2>3, <2>4, <3>1
        <3>2. CASE j.base # NoRow
            <4>1. /\ j.base \in Rows /\ row[j.tx] \in Rows /\ row[j.tx].key = form[j.tx].key
                  /\ row[j.tx].version \in 1 .. 2 /\ row[j.tx].version <= Len(txLog[j.tx])
                BY <1>1, <2>1, <3>2 DEF Jobs, RowPart, RowOK
            <4>2. r \in Rows /\ r.key \in {j.entity.key, row[j.tx].key}
                  /\ r.version \in {j.entity.version, row[j.tx].version}
                BY <2>2, <2>4, <3>2, <4>1, MergedFields
            <4>3. QED  BY <2>2, <2>3, <4>1, <4>2
        <3>3. QED  BY <3>1, <3>2
    <2>6. QED  BY <1>1, <2>1, <2>4, <2>5, RowWritten
<1>7. CASE UpdateMatchesNothing(j) \/ SaveRefused(j)
    BY <1>2, <1>7 DEF UpdateMatchesNothing, SaveRefused, Ends, rowVars
<1>8. CASE RebuildReads(j)
    <2>1. PICK k : k = Job(j.tx, j.n, "save", j.entity, row[j.tx])
        OBVIOUS
    <2>2. Moving(j, k) /\ j.at = "load"
        BY <1>1, <1>8, <2>1, RebuildMove
    <2>3. /\ k \in Jobs /\ k.tx = j.tx /\ k.n = j.n /\ k.at = "save" /\ k.entity = j.entity
          /\ k.base = row[j.tx]
        BY <1>1, <2>1, JobRecord DEF Jobs
    <2>4. JobOK(k)
        BY <1>1, <2>2, <2>3 DEF JobOK
    <2>5. QED  BY <1>2, <2>2, <2>4 DEF Moving
<1>9. QED  BY <1>3, <1>4, <1>5, <1>6, <1>7, <1>8 DEF Step

------------------------------------------------------------------------------
(* Every step keeps Base.                                                   *)

RowsKept == \A u \in Transactions : row[u] # NoRow => row[u]' # NoRow

\* The jobs that do not move keep what they know.
LEMMA JobsStay ==
    ASSUME Base, LogPart', Grown, form' = form, RowsKept
    PROVE  \A j \in jobs : JobOK(j)'
<1> SUFFICES ASSUME NEW j \in jobs PROVE JobOK(j)'
    OBVIOUS
<1>1. JobOK(j) /\ LogPart /\ j.tx \in Transactions
    BY DEF Base, JobOK, Jobs
<1>2. row[j.tx] # NoRow => row[j.tx]' # NoRow
    BY <1>1 DEF RowsKept
<1>3. QED  BY <1>1, <1>2, JobStays

\* A new job is a handler of a stored event, or a rebuild.
LEMMA HandlerOK ==
    ASSUME LogPart', form' = form, NEW t \in Transactions, NEW n \in 1 .. Len(txLog[t])'
    PROVE  JobOK(Handler(t, n))'
<1>1. n \in Nat /\ Jobs' = Jobs
    <2>1. txLog'[t] \in Seq(TransactionStatuses)
        BY DEF LogPart
    <2>2. n \in Nat
        BY <2>1
    <2>3. QED  BY <2>2, RowsStay DEF Jobs
<1>2. PICK k : k = Job(t, n, "handle", NoRow, NoRow)
    OBVIOUS
<1>3. k \in Jobs /\ k.tx = t /\ k.n = n /\ k.at = "handle" /\ k.base = NoRow
    BY <1>1, <1>2, JobRecord
<1>4. JobOK(k)'
    BY <1>1, <1>3 DEF JobOK
<1>5. QED  BY <1>2, <1>4 DEF Handler, Job

\* A rebuild starts with what it read of the log.
LEMMA LoadOK ==
    ASSUME LogPart, NEW t \in Transactions, NEW n \in 1 .. Len(txLog[t])
    PROVE  JobOK(Job(t, n, "load", Entity(t, n), NoRow))
<1>1. Len(txLog[t]) \in Nat /\ Entity(t, n) \in Rows
    BY LogFields, EntityFields
<1>2. PICK k : k = Job(t, n, "load", Entity(t, n), NoRow)
    OBVIOUS
<1>3. /\ k \in Jobs /\ k.tx = t /\ k.n = n /\ k.at = "load" /\ k.base = NoRow
      /\ k.entity = Entity(t, n)
    BY <1>1, <1>2, JobRecord
<1>4. JobOK(k)
    BY <1>3 DEF JobOK
<1>5. QED  BY <1>2, <1>4

\* A step that leaves the rows alone and may add a job.
LEMMA BaseKept ==
    ASSUME Base, LogPart', Grown, CountPart', UNCHANGED <<form, row, shown>>,
           \A j \in jobs' \ jobs : JobOK(j)'
    PROVE  Base' /\ RowsKept
<1>1. RowPart' /\ RowsKept
    BY RowsUnchanged DEF Base, RowsKept
<1>2. \A j \in jobs : JobOK(j)'
    BY <1>1, JobsStay
<1>3. QED  BY <1>1, <1>2 DEF Base

\* Every step keeps logs, rows and jobs fitting together and deletes no row.
LEMMA BaseStep ==
    ASSUME Base, Next
    PROVE  Base' /\ RowsKept
<1>1. LogPart' /\ Grown /\ form' = form /\ LogPart /\ CountPart
    BY LogStep DEF Base
<1>2. MaxRebuilds \in Nat /\ MaxFaults \in Nat
    BY BoundsAssumption
<1>3. ASSUME NEW t \in Transactions, LookUp(t) \/ CheckAccounts(t) \/ StoreRefused(t)
      PROVE  Base' /\ RowsKept
    <2>1. UNCHANGED <<row, shown, jobs, rebuilds, faults, disturbed>>
        BY <1>3 DEF LookUp, CheckAccounts, StoreRefused, rowVars
    <2>2. QED  BY <1>1, <2>1, BaseKept DEF CountPart
<1>4. ASSUME NEW t \in Transactions, Store(t)
      PROVE  Base' /\ RowsKept
    <2>1. /\ UNCHANGED <<row, shown, rebuilds, faults, disturbed>>
          /\ jobs' = jobs \cup {Handler(t, 1)}
          /\ pc' = [pc EXCEPT ![t] = "pending"]
        BY <1>4 DEF Store, Opens, Goes, rowVars
    <2>2. pc'[t] = "pending"
        BY <1>1, <2>1 DEF LogPart
    <2>3. Stored(t)'
        BY <1>1, <2>2 DEF LogPart, LogOK
    <2>4. 1 \in 1 .. Len(txLog[t])'
        BY <1>1, <2>3, LogFields DEF LogPart, Stored
    <2>5. JobOK(Handler(t, 1))'
        BY <1>1, <2>4, HandlerOK
    <2>6. \A j \in jobs' \ jobs : j = Handler(t, 1)
        BY <2>1
    <2>7. \A j \in jobs' \ jobs : JobOK(j)'
        BY <2>5, <2>6
    <2>8. CountPart'
        BY <1>1, <2>1 DEF CountPart
    <2>9. QED  BY <1>1, <2>1, <2>7, <2>8, BaseKept
<1>5. ASSUME NEW t \in Transactions, StoreUnpublished(t)
      PROVE  Base' /\ RowsKept
    <2>1. /\ UNCHANGED <<row, shown, rebuilds, jobs>> /\ disturbed' = disturbed \cup {t}
          /\ faults < MaxFaults /\ faults' = faults + 1
        BY <1>5 DEF StoreUnpublished, Opens, rowVars
    <2>2. CountPart'
        BY <1>1, <1>2, <2>1 DEF CountPart
    <2>3. QED  BY <1>1, <2>1, <2>2, BaseKept
<1>6. ASSUME NEW t \in Transactions, NEW outcome \in Outcomes(t), End(t, outcome)
      PROVE  Base' /\ RowsKept
    <2>1. /\ Appends(t, outcome) /\ UNCHANGED <<row, shown, rebuilds, faults, disturbed>>
          /\ jobs' = jobs \cup {Handler(t, Len(txLog[t]) + 1)}
        BY <1>6 DEF End, Appends, rowVars
    <2>2. txLog' = [txLog EXCEPT ![t] = Append(txLog[t], outcome)]
        BY <1>1, <2>1, AppendsStep
    <2>3. PICK n \in Nat : n = Len(txLog[t]) + 1
        BY <1>1, LogFields
    <2>4. txLog'[t] = Append(txLog[t], outcome) /\ txLog[t] \in Seq(TransactionStatuses)
          /\ outcome \in TransactionStatuses
        BY <1>1, <2>2, LogFields DEF LogPart, Outcomes, TransactionStatuses
    <2>5. n \in 1 .. Len(txLog[t])'
        BY <2>3, <2>4
    <2>6. JobOK(Handler(t, n))'
        BY <1>1, <2>5, HandlerOK
    <2>7. \A j \in jobs' \ jobs : j = Handler(t, n)
        BY <2>1, <2>3
    <2>8. \A j \in jobs' \ jobs : JobOK(j)'
        BY <2>6, <2>7
    <2>9. CountPart'
        BY <1>1, <2>1 DEF CountPart
    <2>10. QED  BY <1>1, <2>1, <2>8, <2>9, BaseKept
<1>7. ASSUME NEW t \in Transactions, NEW outcome \in Outcomes(t), EndUnpublished(t, outcome)
      PROVE  Base' /\ RowsKept
    <2>1. /\ UNCHANGED <<row, shown, rebuilds, jobs>> /\ disturbed' = disturbed \cup {t}
          /\ faults < MaxFaults /\ faults' = faults + 1
        BY <1>7 DEF EndUnpublished, Appends, rowVars
    <2>2. CountPart'
        BY <1>1, <1>2, <2>1 DEF CountPart
    <2>3. QED  BY <1>1, <2>1, <2>2, BaseKept
<1>8. ASSUME NEW j \in jobs, Step(j)
      PROVE  Base' /\ RowsKept
    <2>1. /\ RowPart' /\ RowsKept
          /\ \/ jobs' = jobs \ {j}
             \/ \E k : jobs' = (jobs \ {j}) \cup {k} /\ JobOK(k)
        BY <1>1, <1>8, JobStep DEF RowsKept
    <2>2. \A k \in jobs : JobOK(k)'
        BY <1>1, <2>1, JobsStay
    <2>3. \A k : JobOK(k) => JobOK(k)'
        <3> SUFFICES ASSUME NEW k, JobOK(k) PROVE JobOK(k)'
            OBVIOUS
        <3>1. k.tx \in Transactions
            BY DEF JobOK, Jobs
        <3>2. QED  BY <1>1, <2>1, <3>1, JobStays DEF RowsKept
    <2>4. UNCHANGED <<rebuilds, faults>>
        BY <1>8, StepIsQuiet
    <2>5. disturbed' \subseteq disturbed \cup {j.tx} /\ j.tx \in Transactions
        BY <1>8 DEF Step, FindsExisting, InsertReads, UpdateApplies, UpdateMatchesNothing, Save,
                    SaveRefused, RebuildReads, Base, JobOK, Jobs
    <2>6. CountPart'
        BY <1>1, <2>4, <2>5 DEF CountPart
    <2>7. QED  BY <1>1, <2>1, <2>2, <2>3, <2>6 DEF Base
<1>9. ASSUME NEW j \in jobs, JobFails(j)
      PROVE  Base' /\ RowsKept
    <2>1. /\ UNCHANGED <<row, shown, rebuilds>> /\ disturbed' = disturbed \cup {j.tx}
          /\ faults < MaxFaults /\ faults' = faults + 1 /\ jobs' = jobs \ {j}
          /\ j.tx \in Transactions
        BY <1>9 DEF JobFails, Ends, rowVars, Base, JobOK, Jobs
    <2>2. CountPart'
        BY <1>1, <1>2, <2>1 DEF CountPart
    <2>3. QED  BY <1>1, <2>1, <2>2, BaseKept
<1>10. ASSUME NEW t \in Transactions, Rebuild(t)
       PROVE  Base' /\ RowsKept
    <2>1. PICK n \in Readable(txLog[t]) \ {0} :
             /\ jobs' = jobs \cup {Job(t, n, "load", Entity(t, n), NoRow)}
             /\ disturbed' \subseteq disturbed \cup {t}
        BY <1>10 DEF Rebuild
    <2>2. /\ UNCHANGED <<row, shown, faults>> /\ rebuilds < MaxRebuilds /\ rebuilds' = rebuilds + 1
        BY <1>10 DEF Rebuild, rowVars
    <2>3. Len(txLog[t]) \in Nat /\ n \in 1 .. Len(txLog[t])
        BY <1>1, LogFields DEF Readable
    <2>4. PICK k : k = Job(t, n, "load", Entity(t, n), NoRow)
        OBVIOUS
    <2>5. JobOK(k) /\ k.tx = t
        BY <1>1, <2>3, <2>4, LoadOK DEF Job
    <2>6. JobOK(k)'
        BY <1>1, <2>2, <2>5, JobStays
    <2>7. CountPart'
        BY <1>1, <1>2, <2>1, <2>2 DEF CountPart
    <2>8. QED  BY <1>1, <2>1, <2>2, <2>4, <2>6, <2>7, BaseKept
<1>11. CASE Crash
    <2>1. /\ UNCHANGED <<row, shown, rebuilds>> /\ faults < MaxFaults /\ faults' = faults + 1
          /\ jobs' = {} /\ disturbed' = disturbed \cup {j.tx : j \in jobs}
        BY <1>11 DEF Crash, rowVars
    <2>2. \A j \in jobs : j.tx \in Transactions
        BY DEF Base, JobOK, Jobs
    <2>3. CountPart'
        BY <1>1, <1>2, <2>1, <2>2 DEF CountPart
    <2>4. QED  BY <1>1, <2>1, <2>3, BaseKept
<1>12. QED
    BY <1>3, <1>4, <1>5, <1>6, <1>7, <1>8, <1>9, <1>10, <1>11 DEF Next

\* So does a step that changes nothing.
LEMMA BaseStutter ==
    ASSUME Base, UNCHANGED vars
    PROVE  Base'
<1>1. UNCHANGED <<form, pc, txLog, versions, row, shown, jobs, rebuilds, faults, raced, disturbed>>
    BY DEF vars, requestVars, logVars, rowVars
<1>2. LogPart' /\ Grown
    BY <1>1, QuietLogs DEF Base, LogPart
<1>3. CountPart'
    BY <1>1 DEF Base, CountPart
<1>4. QED  BY <1>1, <1>2, <1>3, BaseKept

\* The empty logs and read model satisfy the invariant.
LEMMA BaseInit ==
    ASSUME Init
    PROVE  Base
<1>1. /\ form \in Forms /\ pc = [t \in Transactions |-> "idle"]
      /\ txLog = [t \in Transactions |-> <<>>] /\ versions = txLog
      /\ row = [t \in Transactions |-> NoRow] /\ jobs = {} /\ rebuilds = 0 /\ faults = 0
      /\ shown = {} /\ raced = {} /\ disturbed = {}
    BY DEF Init
<1>2. \A t \in Transactions : LogOK(t)
    BY <1>1 DEF LogOK, Stored
<1>3. LogPart
    BY <1>1, <1>2 DEF LogPart, Places
<1>4. RowPart
    BY <1>1 DEF RowPart, RowOK
<1>5. CountPart
    BY <1>1, BoundsAssumption DEF CountPart
<1>6. QED  BY <1>1, <1>3, <1>4, <1>5 DEF Base

\* Logs, rows and jobs fit together: a job knows events that are stored, a row
\* shows one of its log's versions under its request's key.
THEOREM BaseInvariant == Spec => []Base
<1>1. Init => Base
    BY BaseInit
<1>2. Base /\ [Next]_vars => Base'
    BY BaseStep, BaseStutter
<1>3. QED  BY <1>1, <1>2, PTL DEF Spec

\* Every variable keeps its type; in particular no row says a version its log has
\* not reached, and no job knows an event that is not stored.
THEOREM TypeCorrect == Spec => []TypeOK
<1>1. Base => TypeOK
    <2> SUFFICES ASSUME Base PROVE TypeOK
        OBVIOUS
    <2>1. \A t \in Transactions :
             /\ Len(versions[t]) = Len(txLog[t])
             /\ row[t] # NoRow => t \in shown /\ row[t].version <= Len(txLog[t])
        BY DEF Base, LogPart, LogOK, RowPart, RowOK
    <2>2. \A j \in jobs :
             j.at \in {"handle", "insert", "load", "save"} /\ j.n \in 1 .. Len(txLog[j.tx])
        BY DEF Base, JobOK, Jobs
    <2>3. shown \cup raced \cup disturbed \subseteq Transactions
        BY DEF Base, LogPart, RowPart, CountPart
    <2>4. QED  BY <2>1, <2>2, <2>3 DEF TypeOK, Base, LogPart, RowPart, CountPart, Places
<1>2. QED  BY <1>1, BaseInvariant, PTL

------------------------------------------------------------------------------
(* One row for a key.                                                       *)

\* Only updates and saves change rows, one each.
LEMMA RowChange ==
    ASSUME Base, Next, NEW t \in Transactions, row'[t] # row[t]
    PROVE  /\ \E j \in jobs : j.tx = t /\ (UpdateApplies(j) \/ Save(j))
           /\ \A u \in Transactions \ {t} : row'[u] = row[u]
<1>1. row \in [Transactions -> Rows \cup {NoRow}]
    BY DEF Base, RowPart
<1>2. PICK j \in jobs : UpdateApplies(j) \/ Save(j)
    BY DEF Next, LookUp, CheckAccounts, Store, StoreUnpublished, StoreRefused, Opens, End,
           EndUnpublished, Appends, Step, JobFails, Rebuild, Crash, FindsExisting, InsertReads,
           UpdateMatchesNothing, SaveRefused, RebuildReads, rowVars
<1>3. j.tx \in Transactions
    BY DEF Base, JobOK, Jobs
<1>4. \E r : row' = [row EXCEPT ![j.tx] = r]
    BY <1>2, UpdateWrites, SaveWrites
<1>5. \A u \in Transactions \ {j.tx} : row'[u] = row[u]
    BY <1>1, <1>3, <1>4
<1>6. QED  BY <1>2, <1>5

\* A row that appears is inserted, and its key is nobody's.
LEMMA RowAppears ==
    ASSUME Base, Next, NEW t \in Transactions, row[t] = NoRow, row'[t] # NoRow
    PROVE  ~KeyTaken(t) /\ \A u \in Transactions \ {t} : row'[u] = row[u]
<1>1. PICK j \in jobs : j.tx = t /\ (UpdateApplies(j) \/ Save(j))
    BY RowChange
<1>2. Save(j)
    BY <1>1, UpdateWrites
<1>3. Insertable(t)
    BY <1>1, <1>2, SaveWrites
<1>4. QED  BY <1>3, RowChange DEF Insertable

\* Once a transaction of the same key has a row, the lookup finds the key.
LEMMA KeyOfRow ==
    ASSUME Base, NEW t \in Transactions, NEW u \in Transactions, Twins(t, u), row[u] # NoRow
    PROVE  KeyTaken(t)
BY DEF Base, RowPart, RowOK, Twins, KeyTaken

\* No insert, update or rebuild gives a second transaction of a key a row.
LEMMA OneRowStep ==
    ASSUME Base, OneRowPerKey, Next
    PROVE  OneRowPerKey'
<1> SUFFICES ASSUME NEW t \in Transactions, NEW u \in Transactions, Twins(t, u)',
                    row'[t] # NoRow, row'[u] # NoRow
             PROVE  FALSE
    BY DEF OneRowPerKey
<1>1. Twins(t, u) /\ Twins(u, t) /\ t # u
    BY LogStep DEF Base, Twins
<1>2. row[t] = NoRow \/ row[u] = NoRow
    BY <1>1 DEF OneRowPerKey
<1>3. CASE row[t] = NoRow
    <2>1. ~KeyTaken(t) /\ row'[u] = row[u]
        BY <1>1, <1>3, RowAppears
    <2>2. QED  BY <1>1, <2>1, KeyOfRow
<1>4. CASE row[u] = NoRow
    <2>1. ~KeyTaken(u) /\ row'[t] = row[t]
        BY <1>1, <1>4, RowAppears
    <2>2. QED  BY <1>1, <2>1, KeyOfRow
<1>5. QED  BY <1>2, <1>3, <1>4

\* Two transactions with one key never both have a row: the constraint refuses the
\* second insert, and no update or rebuild gives a row another key.
THEOREM RowsHaveOwnKeys == Spec => []OneRowPerKey
<1>1. Init => OneRowPerKey
    BY DEF Init, OneRowPerKey
<1>2. Base /\ OneRowPerKey /\ [Next]_vars => OneRowPerKey'
    <2>1. UNCHANGED vars /\ OneRowPerKey => OneRowPerKey'
        BY DEF OneRowPerKey, Twins, vars, requestVars, rowVars
    <2>2. QED  BY <2>1, OneRowStep
<1>3. QED  BY <1>1, <1>2, BaseInvariant, PTL DEF Spec

------------------------------------------------------------------------------
(* Retries.                                                                 *)

\* A request that found its key in the read model was refused, and stays so.
Refused ==
    /\ before \in [Transactions -> SUBSET Transactions]
    /\ \A t, u \in Transactions : Twins(t, u) /\ u \in before[t] => pc[t] = "refused"

\* Only the lookup writes before, and no step revives a refused request.
LEMMA RequestStep ==
    ASSUME Base, Next
    PROVE  /\ \A t \in Transactions : pc[t] = "refused" => pc'[t] = "refused"
           /\ before' = before \/ \E u \in Transactions : LookUp(u)
<1>1. pc \in [Transactions -> Places]
    BY DEF Base, LogPart
<1>2. ASSUME NEW u \in Transactions, LookUp(u) \/ CheckAccounts(u) \/ Store(u)
             \/ StoreUnpublished(u) \/ StoreRefused(u)
      PROVE  \A t \in Transactions : pc[t] = "refused" => pc'[t] = "refused"
    <2>1. pc[u] \in {"idle", "checking", "storing"} /\ \E to : pc' = [pc EXCEPT ![u] = to]
        BY <1>2 DEF LookUp, CheckAccounts, Store, StoreUnpublished, StoreRefused, Opens, Goes
    <2>2. QED  BY <1>1, <2>1
<1>3. ASSUME NEW u \in Transactions, CheckAccounts(u) \/ Store(u)
             \/ StoreUnpublished(u) \/ StoreRefused(u)
      PROVE  before' = before
    BY <1>3 DEF CheckAccounts, Store, StoreUnpublished, StoreRefused, Opens
<1>4. ASSUME NEW u \in Transactions, NEW outcome \in Outcomes(u),
             End(u, outcome) \/ EndUnpublished(u, outcome)
      PROVE  UNCHANGED <<pc, before>>
    BY <1>4 DEF End, EndUnpublished, Appends, requestVars
<1>5. ASSUME NEW j \in jobs, Step(j) \/ JobFails(j)
      PROVE  UNCHANGED <<pc, before>>
    BY <1>5, StepIsQuiet DEF JobFails, requestVars
<1>6. ASSUME NEW u \in Transactions, Rebuild(u)
      PROVE  UNCHANGED <<pc, before>>
    BY <1>6 DEF Rebuild, requestVars
<1>7. CASE Crash
    BY <1>1, <1>7 DEF Crash
<1>8. QED  BY <1>2, <1>3, <1>4, <1>5, <1>6, <1>7 DEF Next

\* A retry whose lookup found its key never goes on to its command.
LEMMA RefusedStep ==
    ASSUME Base, Refused, Next
    PROVE  Refused'
<1>1. /\ pc \in [Transactions -> Places] /\ before \in [Transactions -> SUBSET Transactions]
      /\ shown = {t \in Transactions : row[t] # NoRow}
    BY DEF Base, LogPart, Refused, RowPart
<1>2. \A t, u \in Transactions : Twins(t, u)' => Twins(t, u)
    BY LogStep DEF Base, Twins
<1>3. CASE before' = before
    BY <1>2, <1>3, RequestStep DEF Refused
<1>4. ASSUME NEW t \in Transactions, LookUp(t)
      PROVE  Refused'
    <2>1. /\ before' = [before EXCEPT ![t] = shown]
          /\ KeyTaken(t) => pc' = [pc EXCEPT ![t] = "refused"]
        BY <1>4 DEF LookUp, Goes
    <2>2. before' \in [Transactions -> SUBSET Transactions]
        BY <1>1, <2>1
    <2>3. ASSUME NEW v \in Transactions, NEW u \in Transactions, Twins(v, u)', u \in before'[v]
          PROVE  pc'[v] = "refused"
        <3>1. CASE v = t
            <4>1. row[u] # NoRow
                BY <1>1, <2>1, <2>3, <3>1
            <4>2. KeyTaken(t)
                BY <1>2, <2>3, <3>1, <4>1, KeyOfRow
            <4>3. QED  BY <1>1, <2>1, <3>1, <4>2
        <3>2. CASE v # t
            <4>1. u \in before[v] /\ Twins(v, u)
                BY <1>1, <1>2, <2>1, <2>3, <3>2
            <4>2. pc[v] = "refused"
                BY <4>1 DEF Refused
            <4>3. QED  BY <4>2, RequestStep
        <3>3. QED  BY <3>1, <3>2
    <2>4. QED  BY <2>2, <2>3 DEF Refused
<1>5. QED  BY <1>3, <1>4, RequestStep

\* A retry sent when its key was in the read model never stores an event.
THEOREM RetriesRefused == Spec => []RetriesAreRefused
<1>1. Init => Refused
    BY DEF Init, Refused
<1>2. Base /\ Refused /\ [Next]_vars => Refused'
    <2>1. UNCHANGED vars /\ Refused => Refused'
        BY DEF Refused, Twins, vars, requestVars
    <2>2. QED  BY <2>1, RefusedStep
<1>3. Base /\ Refused => RetriesAreRefused
    <2> SUFFICES ASSUME Base, Refused, NEW t \in Transactions, NEW u \in Transactions,
                        Twins(t, u), Stored(t), u \in before[t]
                 PROVE  FALSE
        BY DEF RetriesAreRefused
    <2>1. pc[t] = "refused"
        BY DEF Refused
    <2>2. LogOK(t)
        BY DEF Base, LogPart
    <2>3. QED  BY <2>1, <2>2 DEF LogOK
<1>4. QED  BY <1>1, <1>2, <1>3, BaseInvariant, PTL DEF Spec

------------------------------------------------------------------------------
(* The jobs of one transaction.                                             *)

JobsOf(t) == {j \in jobs : j.tx = t}

\* A job that would insert the row, unless something fails.
Creates(j) == j.n = 1 /\ (j.at \in {"handle", "insert"} \/ (j.at = "save" /\ j.base = NoRow))

\* One job inserts the row, before there is one; a rebuild never does.
OneCreation(t) ==
    /\ \A j, k \in JobsOf(t) : Creates(j) /\ Creates(k) => j = k
    /\ row[t] # NoRow => \A j \in JobsOf(t) : ~Creates(j)
    /\ \A j \in JobsOf(t) : j.at = "save" /\ j.base = NoRow => j.n = 1

\* The actions that touch a transaction's log, row or jobs.
Own(t) ==
    \/ Store(t) \/ StoreUnpublished(t) \/ Rebuild(t) \/ Crash
    \/ \E outcome \in Outcomes(t) : End(t, outcome) \/ EndUnpublished(t, outcome)
    \/ \E j \in JobsOf(t) : Step(j) \/ JobFails(j)

Quiet(t) == UNCHANGED <<form, txLog[t], versions[t], row[t], JobsOf(t)>>

\* The jobs of a transaction when one goes on,
LEMMA JobsOfMoves ==
    ASSUME NEW t, NEW j, j.tx = t, NEW k, k.tx = t, jobs' = (jobs \ {j}) \cup {k}
    PROVE  JobsOf(t)' = (JobsOf(t) \ {j}) \cup {k}
BY DEF JobsOf

\* when one starts,
LEMMA JobsOfAdds ==
    ASSUME NEW t, NEW k, k.tx = t, jobs' = jobs \cup {k}
    PROVE  JobsOf(t)' = JobsOf(t) \cup {k}
BY DEF JobsOf

\* and when one ends.
LEMMA JobsOfEnds ==
    ASSUME NEW t, NEW j, jobs' = jobs \ {j}
    PROVE  JobsOf(t)' = JobsOf(t) \ {j}
BY DEF JobsOf

\* A projection handler that starts, by its fields.
LEMMA HandlerFields ==
    ASSUME NEW t, NEW n
    PROVE  /\ Handler(t, n).tx = t /\ Handler(t, n).n = n /\ Handler(t, n).at = "handle"
           /\ Handler(t, n).base = NoRow
BY DEF Handler, Job

\* A job of a transaction, by its fields.
LEMMA JobFields ==
    ASSUME Base, NEW t \in Transactions, NEW j \in JobsOf(t)
    PROVE  /\ j \in jobs /\ j.tx = t /\ j \in Jobs /\ JobOK(j)
           /\ j.n \in 1 .. Len(txLog[t]) /\ Len(txLog[t]) \in Nat
BY LogFields DEF Base, JobsOf, JobOK, Jobs

\* Nothing is known of a transaction before its first event.
LEMMA Unstored ==
    ASSUME Base, NEW t \in Transactions, ~Stored(t)
    PROVE  JobsOf(t) = {} /\ row[t] = NoRow
<1>1. Len(txLog[t]) = 0
    BY LogFields DEF Base
<1>2. row[t] = NoRow
    BY <1>1 DEF Base, RowPart, RowOK
<1>3. QED  BY <1>1, <1>2, JobFields

\* A step that is not of a transaction leaves all that is about it alone.
LEMMA QuietOrOwn ==
    ASSUME Base, Next, NEW t \in Transactions, ~Own(t)
    PROVE  Quiet(t)
<1>1. /\ txLog \in [Transactions -> Seq(TransactionStatuses)]
      /\ versions \in [Transactions -> Seq(Nat)] /\ row \in [Transactions -> Rows \cup {NoRow}]
      /\ form' = form /\ \A j \in jobs : j.tx \in Transactions
    BY LogStep DEF Base, LogPart, RowPart, JobOK, Jobs
<1>2. ASSUME NEW u \in Transactions, LookUp(u) \/ CheckAccounts(u) \/ StoreRefused(u)
      PROVE  Quiet(t)
    BY <1>2 DEF LookUp, CheckAccounts, StoreRefused, logVars, rowVars, Quiet, JobsOf
<1>3. ASSUME NEW u \in Transactions, Store(u) \/ StoreUnpublished(u)
      PROVE  Quiet(t)
    <2>1. /\ u # t /\ row' = row /\ txLog' = [txLog EXCEPT ![u] = Requested]
          /\ versions' = [versions EXCEPT ![u] = <<1>>]
          /\ jobs' = jobs \/ jobs' = jobs \cup {Handler(u, 1)}
        BY <1>3 DEF Own, Store, StoreUnpublished, Opens, rowVars
    <2>2. txLog'[t] = txLog[t] /\ versions'[t] = versions[t] /\ row'[t] = row[t]
        BY <1>1, <2>1
    <2>3. JobsOf(t)' = JobsOf(t)
        BY <2>1, HandlerFields DEF JobsOf
    <2>4. QED  BY <1>1, <2>2, <2>3 DEF Quiet
<1>4. ASSUME NEW u \in Transactions, NEW outcome \in Outcomes(u),
             End(u, outcome) \/ EndUnpublished(u, outcome)
      PROVE  Quiet(t)
    <2>1. /\ u # t /\ row' = row /\ Appends(u, outcome)
          /\ jobs' = jobs \/ jobs' = jobs \cup {Handler(u, Len(txLog[u]) + 1)}
        BY <1>4 DEF Own, End, EndUnpublished, Appends, rowVars
    <2>2. txLog'[t] = txLog[t] /\ versions'[t] = versions[t] /\ row'[t] = row[t]
        BY <1>1, <2>1, AppendsStep DEF Base
    <2>3. JobsOf(t)' = JobsOf(t)
        BY <2>1, HandlerFields DEF JobsOf
    <2>4. QED  BY <1>1, <2>2, <2>3 DEF Quiet
<1>5. ASSUME NEW j \in jobs, Step(j) \/ JobFails(j)
      PROVE  Quiet(t)
    <2>1. j.tx # t
        BY <1>5 DEF Own, JobsOf
    <2>2. UNCHANGED <<txLog, versions>>
        BY <1>5, StepIsQuiet DEF JobFails, logVars
    <2>3. jobs' = jobs \ {j} \/ \E k : k.tx = j.tx /\ jobs' = (jobs \ {j}) \cup {k}
        <3>1. j \in Jobs
            BY DEF Base, JobOK
        <3>2. CASE FindsExisting(j) \/ InsertReads(j) \/ RebuildReads(j)
            BY <3>1, <3>2, FindsMove, InsertMove, RebuildMove DEF Moving, FindsExisting, Ends
        <3>3. QED
            BY <1>5, <3>2 DEF Step, JobFails, UpdateApplies, UpdateMatchesNothing, Save,
                              SaveRefused, Ends
    <2>4. JobsOf(t)' = JobsOf(t)
        BY <2>1, <2>3 DEF JobsOf
    <2>5. row'[t] = row[t]
        <3>1. row' = row \/ \E r : row' = [row EXCEPT ![j.tx] = r]
            BY <1>5, UpdateWrites, SaveWrites
               DEF Step, JobFails, FindsExisting, InsertReads, UpdateMatchesNothing, SaveRefused,
                   RebuildReads, rowVars
        <3>2. QED  BY <1>1, <2>1, <3>1
    <2>6. QED  BY <1>1, <2>2, <2>4, <2>5 DEF Quiet
<1>6. ASSUME NEW u \in Transactions, Rebuild(u)
      PROVE  Quiet(t)
    <2>1. /\ u # t /\ UNCHANGED <<row, txLog, versions>>
          /\ \E n : jobs' = jobs \cup {Job(u, n, "load", Entity(u, n), NoRow)}
        BY <1>6 DEF Own, Rebuild, rowVars, logVars
    <2>2. JobsOf(t)' = JobsOf(t)
        BY <2>1 DEF JobsOf, Job
    <2>3. QED  BY <1>1, <2>1, <2>2 DEF Quiet
<1>7. QED  BY <1>2, <1>3, <1>4, <1>5, <1>6 DEF Next, Own

------------------------------------------------------------------------------
(* One creation.                                                            *)

\* No job of the kind is added, and no row appears.
LEMMA CreationKept ==
    ASSUME NEW t, OneCreation(t), row[t]' # NoRow => row[t] # NoRow,
           \A k \in JobsOf(t)' \ JobsOf(t) : k.at # "insert" /\ (k.n = 1 => k.at # "handle")
                                             /\ (k.at = "save" => k.base # NoRow)
    PROVE  OneCreation(t)'
<1>1. \A k \in JobsOf(t)' \ JobsOf(t) : ~Creates(k) /\ ~(k.at = "save" /\ k.base = NoRow)
    BY DEF Creates
<1>2. \A j, k \in JobsOf(t)' : Creates(j) /\ Creates(k) => j = k
    BY <1>1 DEF OneCreation
<1>3. row[t]' # NoRow => \A j \in JobsOf(t)' : ~Creates(j)
    BY <1>1 DEF OneCreation
<1>4. \A j \in JobsOf(t)' : j.at = "save" /\ j.base = NoRow => j.n = 1
    BY <1>1 DEF OneCreation
<1>5. \A j : Creates(j)' <=> Creates(j)
    BY DEF Creates
<1>6. QED  BY <1>2, <1>3, <1>4, <1>5 DEF OneCreation

\* The creating job moves on.
LEMMA CreationMoves ==
    ASSUME NEW t, OneCreation(t), NEW j \in JobsOf(t), Creates(j), row[t]' = row[t],
           NEW k, Creates(k), k.n = 1, JobsOf(t)' = (JobsOf(t) \ {j}) \cup {k}
    PROVE  OneCreation(t)'
<1>1. \A i \in JobsOf(t)' : Creates(i) => i = k
    BY DEF OneCreation
<1>2. row[t]' = NoRow
    BY DEF OneCreation
<1>3. \A i \in JobsOf(t)' : i.at = "save" /\ i.base = NoRow => i.n = 1
    BY DEF OneCreation
<1>4. \A i : Creates(i)' <=> Creates(i)
    BY DEF Creates
<1>5. QED  BY <1>1, <1>2, <1>3, <1>4 DEF OneCreation

\* The creating job ends.
LEMMA CreationEnds ==
    ASSUME NEW t, OneCreation(t), NEW j \in JobsOf(t), Creates(j), JobsOf(t)' = JobsOf(t) \ {j}
    PROVE  OneCreation(t)'
<1>1. \A i \in JobsOf(t)' : ~Creates(i)
    BY DEF OneCreation
<1>2. \A i \in JobsOf(t)' : i.at = "save" /\ i.base = NoRow => i.n = 1
    BY DEF OneCreation
<1>3. \A i : Creates(i)' <=> Creates(i)
    BY DEF Creates
<1>4. QED  BY <1>1, <1>2, <1>3 DEF OneCreation

\* A rebuild that finds a row before it saves does not create one.
LEMMA OneCreationStep ==
    ASSUME Base, Next, NEW t \in Transactions, OneCreation(t),
           \A j \in JobsOf(t) : j.at = "load" => row[t] # NoRow
    PROVE  OneCreation(t)'
<1>1. CASE ~Own(t)
    BY <1>1, QuietOrOwn, CreationKept DEF Quiet
<1>2. CASE StoreUnpublished(t) \/ Crash \/ \E outcome \in Outcomes(t) : EndUnpublished(t, outcome)
    <2>1. row' = row /\ jobs' \subseteq jobs
        BY <1>2 DEF StoreUnpublished, Opens, Crash, EndUnpublished, Appends, rowVars
    <2>2. JobsOf(t)' \subseteq JobsOf(t)
        BY <2>1 DEF JobsOf
    <2>3. QED  BY <2>1, <2>2, CreationKept
<1>3. CASE Store(t)
    <2>1. row' = row /\ Opens(t) /\ jobs' = jobs \cup {Handler(t, 1)} /\ pc[t] = "storing"
        BY <1>3 DEF Store, Opens, rowVars
    <2>2. JobsOf(t) = {} /\ row[t] = NoRow
        BY <2>1, Unstored DEF Base, LogPart, LogOK
    <2>3. JobsOf(t)' = {Handler(t, 1)}
        BY <2>1, <2>2, HandlerFields, JobsOfAdds
    <2>4. QED  BY <2>1, <2>2, <2>3, HandlerFields DEF OneCreation
<1>4. ASSUME NEW outcome \in Outcomes(t), End(t, outcome)
      PROVE  OneCreation(t)'
    <2>1. row' = row /\ Appends(t, outcome) /\ jobs' = jobs \cup {Handler(t, Len(txLog[t]) + 1)}
        BY <1>4 DEF End, Appends, rowVars
    <2>2. Stored(t) /\ Len(txLog[t]) \in Nat
        BY <2>1, AppendsStep, LogFields DEF Base
    <2>3. PICK n : n = Len(txLog[t]) + 1
        OBVIOUS
    <2>4. n # 1
        BY <2>2, <2>3, LogFields DEF Base
    <2>5. PICK h : h = Handler(t, n)
        OBVIOUS
    <2>6. h.tx = t /\ h.at = "handle" /\ h.n # 1 /\ jobs' = jobs \cup {h}
        BY <2>1, <2>3, <2>4, <2>5, HandlerFields
    <2>7. JobsOf(t)' = JobsOf(t) \cup {h}
        BY <2>6, JobsOfAdds
    <2>8. QED  BY <2>1, <2>6, <2>7, CreationKept
<1>5. ASSUME Rebuild(t)
      PROVE  OneCreation(t)'
    <2>1. row' = row /\ \E n : jobs' = jobs \cup {Job(t, n, "load", Entity(t, n), NoRow)}
        BY <1>5 DEF Rebuild, rowVars
    <2>2. \A k \in JobsOf(t)' \ JobsOf(t) : k.at = "load"
        BY <2>1 DEF JobsOf, Job
    <2>3. QED  BY <2>1, <2>2, CreationKept
<1>6. ASSUME NEW j \in JobsOf(t), Step(j) \/ JobFails(j)
      PROVE  OneCreation(t)'
    <2>1. /\ j \in jobs /\ j.tx = t /\ j \in Jobs /\ JobOK(j)
        BY JobFields
    <2>2. ASSUME JobsOf(t)' = JobsOf(t) \ {j}, row[t]' # NoRow => row[t] # NoRow
          PROVE  OneCreation(t)'
        BY <2>2, CreationKept
    <2>3. CASE JobFails(j) \/ UpdateMatchesNothing(j) \/ SaveRefused(j)
        <3>1. row' = row /\ jobs' = jobs \ {j}
            BY <2>3 DEF JobFails, UpdateMatchesNothing, SaveRefused, Ends, rowVars
        <3>2. QED  BY <2>2, <3>1, JobsOfEnds
    <2>4. CASE UpdateApplies(j)
        BY <2>1, <2>2, <2>4, UpdateWrites, JobsOfEnds
    <2>5. CASE Save(j)
        <3>1. jobs' = jobs \ {j} /\ j.at = "save" /\ (j.base # NoRow => row[j.tx] # NoRow)
            BY <2>1, <2>5, SaveWrites
        <3>2. JobsOf(t)' = JobsOf(t) \ {j}
            BY <3>1, JobsOfEnds
        <3>3. CASE j.base = NoRow
            <4>1. Creates(j)
                BY <3>1, <3>3 DEF OneCreation, Creates
            <4>2. QED  BY <3>2, <4>1, CreationEnds
        <3>4. CASE j.base # NoRow
            BY <2>1, <2>2, <3>1, <3>2, <3>4
        <3>5. QED  BY <3>3, <3>4
    <2>6. CASE FindsExisting(j)
        <3>1. CASE row[t] # NoRow
            <4>1. row' = row /\ jobs' = jobs \ {j}
                BY <2>1, <2>6, <3>1 DEF FindsExisting, Ends, rowVars
            <4>2. QED  BY <2>2, <4>1, JobsOfEnds
        <3>2. CASE row[t] = NoRow
            <4>1. PICK k : k = Job(j.tx, j.n, "insert", j.entity, j.base)
                OBVIOUS
            <4>2. Moving(j, k) /\ j.at = "handle" /\ j.n = 1 /\ k.at = "insert"
                BY <2>1, <2>6, <3>2, <4>1, FindsMove DEF Job
            <4>3. /\ JobsOf(t)' = (JobsOf(t) \ {j}) \cup {k} /\ row' = row /\ k.n = 1
                  /\ Creates(j) /\ Creates(k)
                BY <2>1, <4>2, JobsOfMoves DEF Moving, Creates
            <4>4. QED  BY <4>3, CreationMoves
        <3>3. QED  BY <3>1, <3>2
    <2>7. CASE InsertReads(j)
        <3>1. PICK k : k = Job(j.tx, j.n, "save", Entity(j.tx, 1), row[j.tx])
            OBVIOUS
        <3>2. /\ Moving(j, k) /\ j.at \in {"handle", "insert"} /\ j.n = 1
              /\ k.at = "save" /\ k.base = row[t]
            BY <2>1, <2>7, <3>1, InsertMove DEF Job
        <3>3. Creates(j)
            BY <3>2 DEF Creates
        <3>4. row[t] = NoRow
            BY <3>3 DEF OneCreation
        <3>5. JobsOf(t)' = (JobsOf(t) \ {j}) \cup {k} /\ row' = row /\ k.n = 1 /\ Creates(k)
            BY <2>1, <3>2, <3>4, JobsOfMoves DEF Moving, Creates
        <3>6. QED  BY <3>3, <3>5, CreationMoves
    <2>8. CASE RebuildReads(j)
        <3>1. PICK k : k = Job(j.tx, j.n, "save", j.entity, row[j.tx])
            OBVIOUS
        <3>2. Moving(j, k) /\ j.at = "load" /\ k.at = "save" /\ k.base = row[t]
            BY <2>1, <2>8, <3>1, RebuildMove DEF Job
        <3>3. JobsOf(t)' = (JobsOf(t) \ {j}) \cup {k} /\ row' = row /\ row[t] # NoRow
            BY <2>1, <3>2, JobsOfMoves DEF Moving
        <3>4. QED  BY <3>2, <3>3, CreationKept
    <2>9. QED  BY <1>6, <2>3, <2>4, <2>5, <2>6, <2>7, <2>8 DEF Step
<1>7. QED  BY <1>1, <1>2, <1>3, <1>4, <1>5, <1>6 DEF Own

------------------------------------------------------------------------------
(* Before the first rebuild.                                                *)

FirstOf(t) == OneCreation(t) /\ \A j \in JobsOf(t) : j.at # "load" /\ j.base = NoRow

FirstInv == rebuilds = 0 => \A t \in Transactions : FirstOf(t)

\* Until a rebuild every step keeps one job at most that may create the row.
LEMMA FirstStep ==
    ASSUME Base, Next, FirstInv
    PROVE  FirstInv'
<1> SUFFICES ASSUME NEW t \in Transactions, rebuilds' = 0
             PROVE  FirstOf(t)'
    BY DEF FirstInv
<1>1. rebuilds = 0 /\ \A u \in Transactions : ~Rebuild(u)
    <2>1. \A u \in Transactions : ~Rebuild(u)
        BY DEF Rebuild, Base, CountPart
    <2>2. ASSUME NEW j \in jobs, Step(j)
          PROVE  rebuilds = 0
        BY <2>2, StepIsQuiet
    <2>3. QED
        BY <2>1, <2>2
           DEF Next, LookUp, CheckAccounts, StoreRefused, Store, StoreUnpublished, Opens, End,
               EndUnpublished, Appends, JobFails, Crash
<1>2. FirstOf(t)
    BY <1>1 DEF FirstInv
<1>3. OneCreation(t)'
    BY <1>2, OneCreationStep DEF FirstOf
<1>4. \A k \in JobsOf(t)' \ JobsOf(t) : k.at # "load" /\ k.base = NoRow
    <2>1. CASE ~Own(t)
        BY <2>1, QuietOrOwn DEF Quiet
    <2>2. CASE StoreUnpublished(t) \/ Crash
               \/ \E outcome \in Outcomes(t) : EndUnpublished(t, outcome)
        BY <2>2 DEF StoreUnpublished, Crash, EndUnpublished, JobsOf
    <2>3. CASE Store(t) \/ \E outcome \in Outcomes(t) : End(t, outcome)
        BY <2>3, HandlerFields DEF Store, End, JobsOf
    <2>4. ASSUME NEW j \in JobsOf(t), Step(j) \/ JobFails(j)
          PROVE  \A k \in JobsOf(t)' \ JobsOf(t) : k.at # "load" /\ k.base = NoRow
        <3>1. /\ j \in jobs /\ j.tx = t /\ j \in Jobs /\ JobOK(j)
              /\ j.at # "load" /\ j.base = NoRow
            BY <1>2, JobFields DEF FirstOf
        <3>2. CASE FindsExisting(j) /\ row[t] = NoRow
            <4>1. PICK k : k = Job(j.tx, j.n, "insert", j.entity, j.base)
                OBVIOUS
            <4>2. Moving(j, k) /\ k.at = "insert" /\ k.base = NoRow
                BY <3>1, <3>2, <4>1, FindsMove DEF Job
            <4>3. QED  BY <4>2 DEF Moving, JobsOf
        <3>3. CASE InsertReads(j)
            <4>1. PICK k : k = Job(j.tx, j.n, "save", Entity(j.tx, 1), row[j.tx])
                OBVIOUS
            <4>2. /\ Moving(j, k) /\ j.at \in {"handle", "insert"} /\ j.n = 1
                  /\ k.at = "save" /\ k.base = row[t]
                BY <3>1, <3>3, <4>1, InsertMove DEF Job
            <4>3. row[t] = NoRow
                BY <1>2, <4>2 DEF FirstOf, OneCreation, Creates
            <4>4. QED  BY <4>2, <4>3 DEF Moving, JobsOf
        <3>4. CASE ~InsertReads(j) /\ ~(FindsExisting(j) /\ row[t] = NoRow)
            <4>1. jobs' = jobs \ {j}
                BY <2>4, <3>1, <3>4
                   DEF Step, JobFails, FindsExisting, UpdateApplies, UpdateMatchesNothing, Save,
                       SaveRefused, RebuildReads, Ends
            <4>2. QED  BY <4>1 DEF JobsOf
        <3>5. QED  BY <3>2, <3>3, <3>4
    <2>5. QED  BY <1>1, <2>1, <2>2, <2>3, <2>4 DEF Own
<1>5. QED  BY <1>2, <1>3, <1>4 DEF FirstOf

\* Until a rebuild a row is created once and by the first event's handler.
LEMMA FirstInvariant == Spec => []FirstInv
<1>1. Init => FirstInv
    BY DEF Init, FirstInv, FirstOf, OneCreation, JobsOf
<1>2. Base /\ FirstInv /\ [Next]_vars => FirstInv'
    <2>1. UNCHANGED vars /\ FirstInv => FirstInv'
        BY DEF FirstInv, FirstOf, OneCreation, Creates, JobsOf, vars, rowVars
    <2>2. QED  BY <2>1, FirstStep
<1>3. QED  BY <1>1, <1>2, BaseInvariant, PTL DEF Spec

\* Until a rebuild, whatever the order of the handlers, a row is only replaced by
\* one of a newer version.
THEOREM RowsForward == Spec => RowsMoveForward
<1> DEFINE Forward == \A t \in Transactions :
              row[t] # NoRow /\ row[t]' # row[t] /\ rebuilds = 0
                  => row[t]'.version > row[t].version
<1>1. Base /\ FirstInv /\ [Next]_vars => [Forward]_vars
    <2> SUFFICES ASSUME Base, FirstInv, Next, NEW t \in Transactions,
                        row[t] # NoRow, row[t]' # row[t], rebuilds = 0
                 PROVE  row[t]'.version > row[t].version
        OBVIOUS
    <2>1. PICK j \in jobs : j.tx = t /\ (UpdateApplies(j) \/ Save(j))
        BY RowChange
    <2>2. j \in JobsOf(t) /\ row \in [Transactions -> Rows \cup {NoRow}]
        BY <2>1 DEF JobsOf, Base, RowPart
    <2>3. ~Save(j)
        <3>1. j.base = NoRow
            BY <2>2 DEF FirstInv, FirstOf
        <3>2. QED  BY <2>1, <3>1, SaveWrites DEF Insertable
    <2>4. /\ row' = [row EXCEPT ![j.tx] = Entity(j.tx, j.n)]
          /\ row[j.tx].version < Entity(j.tx, j.n).version
          /\ j.n \in 1 .. Len(txLog[j.tx])
        BY <2>1, <2>3, UpdateWrites DEF Base, JobOK
    <2>5. Entity(t, j.n).version \in 1 .. 2 /\ row[t].version \in 1 .. 2
        BY <2>1, <2>4, EntityFields DEF Base, RowPart, RowOK
    <2>6. row[t]' = Entity(t, j.n)
        BY <2>1, <2>2, <2>4
    <2>7. QED  BY <2>1, <2>4, <2>5, <2>6
<1>2. QED  BY <1>1, BaseInvariant, FirstInvariant, PTL DEF RowsMoveForward, Spec

------------------------------------------------------------------------------
(* The row of an undisturbed transaction.                                   *)

Last(t) == Len(txLog[t])

\* A rebuild that knows every event starts from the row that says them all, and a
\* save with a row before it writes nothing else.
JobCurrent(t, j) ==
    /\ j.base # NoRow => j.base = j.entity
    /\ j.at = "load" => row[t] # NoRow
    /\ j.at = "load" /\ j.n = Last(t) => row[t] = Entity(t, Last(t))

\* The row is some event's, or is about to be created; the last event's, or that
\* event's handler has yet to run.
CurrentOf(t) ==
    /\ OneCreation(t)
    /\ row[t] = NoRow => \E j \in JobsOf(t) : Creates(j)
    /\ row[t] # NoRow => \E n \in 1 .. Last(t) : row[t] = Entity(t, n)
    /\ Last(t) > 1 /\ row[t] # Entity(t, Last(t)) => Handler(t, Last(t)) \in JobsOf(t)
    /\ \A j \in JobsOf(t) : JobCurrent(t, j)

CurrentInv == \A t \in Transactions \ (disturbed \cup raced) : Stored(t) => CurrentOf(t)

\* What the log of a transaction shows depends on that log alone.
LEMMA CurrentFrame ==
    ASSUME NEW t, UNCHANGED <<form, txLog[t], versions[t]>>
    PROVE  /\ Last(t)' = Last(t) /\ (Stored(t)' <=> Stored(t))
           /\ \A n : Entity(t, n)' = Entity(t, n)
           /\ \A n : Handler(t, n)' = Handler(t, n)
           /\ \A j : Creates(j)' <=> Creates(j)
BY DEF Last, Stored, Entity, Handler, Job, Creates

\* A transaction whose log and row stay is as current as before.
LEMMA CurrentKept ==
    ASSUME NEW t, CurrentOf(t), OneCreation(t)',
           UNCHANGED <<form, txLog[t], versions[t], row[t]>>,
           row[t] = NoRow => \E k \in JobsOf(t)' : Creates(k),
           Last(t) > 1 /\ row[t] # Entity(t, Last(t)) => Handler(t, Last(t)) \in JobsOf(t)',
           \A k \in JobsOf(t)' \ JobsOf(t) : JobCurrent(t, k)
    PROVE  CurrentOf(t)'
<1>1. /\ Last(t)' = Last(t) /\ \A n : Entity(t, n)' = Entity(t, n)
      /\ \A n : Handler(t, n)' = Handler(t, n)
      /\ \A j : Creates(j)' <=> Creates(j)
    BY CurrentFrame
<1>2. row[t]' = NoRow => \E k \in JobsOf(t)' : Creates(k)'
    BY <1>1
<1>3. row[t]' # NoRow => \E n \in 1 .. Last(t)' : row[t]' = Entity(t, n)'
    BY <1>1 DEF CurrentOf
<1>4. Entity(t, Last(t))' = Entity(t, Last(t)) /\ Handler(t, Last(t))' = Handler(t, Last(t))
    BY DEF Entity, Handler, Job, Last
<1>5. (Last(t) > 1 /\ row[t] # Entity(t, Last(t)) => Handler(t, Last(t)) \in JobsOf(t))'
    BY <1>1, <1>4
<1>6. \A k \in JobsOf(t)' : JobCurrent(t, k)'
    <2> SUFFICES ASSUME NEW k \in JobsOf(t)' PROVE JobCurrent(t, k)'
        OBVIOUS
    <2>1. JobCurrent(t, k)
        BY DEF CurrentOf
    <2>2. QED  BY <1>1, <1>4, <2>1 DEF JobCurrent
<1>7. QED  BY <1>2, <1>3, <1>5, <1>6 DEF CurrentOf

\* With no job left, the row says every event.
LEMMA CurrentAlone ==
    ASSUME Base, NEW t \in Transactions, Stored(t), CurrentOf(t), JobsOf(t) = {}
    PROVE  row[t] # NoRow /\ row[t] = Entity(t, Last(t))
<1>1. Last(t) \in Nat /\ Last(t) > 0
    BY LogFields DEF Base, Last
<1>2. row[t] # NoRow /\ \E n \in 1 .. Last(t) : row[t] = Entity(t, n)
    BY DEF CurrentOf
<1>3. CASE Last(t) = 1
    BY <1>2, <1>3
<1>4. CASE Last(t) > 1
    BY <1>2, <1>4 DEF CurrentOf
<1>5. QED  BY <1>1, <1>3, <1>4

\* What was disturbed stays disturbed.
LEMMA DisturbedGrows ==
    ASSUME Next
    PROVE  disturbed \subseteq disturbed'
<1>1. ASSUME NEW j, Step(j)
      PROVE  disturbed \subseteq disturbed'
    BY <1>1 DEF Step, FindsExisting, InsertReads, UpdateApplies, UpdateMatchesNothing, Save,
                SaveRefused, RebuildReads
<1>2. ASSUME NEW t \in Transactions, Rebuild(t)
      PROVE  disturbed \subseteq disturbed'
    BY <1>2 DEF Rebuild
<1>3. QED
    BY <1>1, <1>2 DEF Next, LookUp, CheckAccounts, StoreRefused, Store, StoreUnpublished, End,
                      EndUnpublished, JobFails, Crash

\* A stored request has a handler that will insert its row.
LEMMA StoreCurrent ==
    ASSUME Base, Next, NEW t \in Transactions, Store(t)
    PROVE  CurrentOf(t)'
<1>1. row' = row /\ Opens(t) /\ jobs' = jobs \cup {Handler(t, 1)} /\ pc[t] = "storing"
      /\ txLog' = [txLog EXCEPT ![t] = Requested]
    BY DEF Store, Opens, rowVars
<1>2. JobsOf(t) = {} /\ row[t] = NoRow
    BY <1>1, Unstored DEF Base, LogPart, LogOK
<1>3. JobsOf(t)' = {Handler(t, 1)}
    BY <1>1, <1>2, HandlerFields, JobsOfAdds
<1>4. Last(t)' = 1
    BY <1>1 DEF Base, LogPart, Last, Requested
<1>5. OneCreation(t)
    BY <1>2 DEF OneCreation
<1>6. OneCreation(t)'
    BY <1>2, <1>5, OneCreationStep
<1>7. Creates(Handler(t, 1))'
    BY HandlerFields DEF Creates
<1>8. \A j \in JobsOf(t)' : JobCurrent(t, j)'
    BY <1>3, HandlerFields DEF JobCurrent
<1>9. QED  BY <1>1, <1>2, <1>3, <1>4, <1>6, <1>7, <1>8 DEF CurrentOf

\* A stored outcome has a handler that will update the row.
LEMMA EndCurrent ==
    ASSUME Base, Next, NEW t \in Transactions, NEW outcome \in Outcomes(t), End(t, outcome),
           CurrentOf(t), t \notin raced', OneCreation(t)'
    PROVE  CurrentOf(t)'
<1>1. row' = row /\ Appends(t, outcome) /\ jobs' = jobs \cup {Handler(t, Last(t) + 1)}
    BY DEF End, Appends, rowVars, Last
<1>2. /\ txLog' = [txLog EXCEPT ![t] = Append(txLog[t], outcome)] /\ Last(t) = 1
      /\ LogPart /\ LogPart' /\ Grown /\ form' = form
    BY <1>1, AppendsStep, LogStep DEF Base, Last
<1>3. Last(t)' = 2
    <2>1. txLog'[t] = Append(txLog[t], outcome) /\ txLog[t] \in Seq(TransactionStatuses)
        BY <1>2, LogFields DEF LogPart
    <2>2. QED  BY <1>2, <2>1 DEF Last
<1>4. PICK h : h = Handler(t, 2)
    OBVIOUS
<1>5. h.tx = t /\ h.at = "handle" /\ h.n = 2 /\ h.base = NoRow /\ jobs' = jobs \cup {h}
    BY <1>1, <1>2, <1>4, HandlerFields
<1>6. JobsOf(t)' = JobsOf(t) \cup {h}
    BY <1>5, JobsOfAdds
<1>7. row[t]' = NoRow => \E j \in JobsOf(t)' : Creates(j)'
    BY <1>1, <1>6 DEF CurrentOf, Creates
<1>8. row[t]' # NoRow => \E n \in 1 .. Last(t)' : row[t]' = Entity(t, n)'
    <2> SUFFICES ASSUME row[t] # NoRow
                 PROVE  \E n \in 1 .. Last(t)' : row[t]' = Entity(t, n)'
        BY <1>1
    <2>1. row[t] = Entity(t, 1)
        BY <1>2 DEF CurrentOf
    <2>2. Entity(t, 1)' = Entity(t, 1)
        BY <1>2, EntityStays DEF Last
    <2>3. 1 \in 1 .. Last(t)'
        BY <1>3
    <2>4. QED  BY <1>1, <2>1, <2>2, <2>3
<1>9. (Last(t) > 1 /\ row[t] # Entity(t, Last(t)) => Handler(t, Last(t)) \in JobsOf(t))'
    <2>1. Handler(t, Last(t))' = h
        BY <1>3, <1>4 DEF Handler, Job
    <2>2. QED  BY <1>6, <2>1
<1>10. \A j \in JobsOf(t)' : JobCurrent(t, j)'
    <2>1. ASSUME NEW j \in JobsOf(t) PROVE JobCurrent(t, j)'
        <3>1. j.n \in 1 .. Last(t) /\ JobCurrent(t, j)
            BY JobFields DEF CurrentOf, Last
        <3>2. j.n # Last(t)'
            BY <1>2, <1>3, <3>1
        <3>3. QED  BY <1>1, <3>1, <3>2 DEF JobCurrent
    <2>2. JobCurrent(t, h)'
        BY <1>5 DEF JobCurrent
    <2>3. QED  BY <1>6, <2>1, <2>2
<1>11. QED  BY <1>7, <1>8, <1>9, <1>10 DEF CurrentOf

\* A rebuild that starts with no handler running, from every event.
LEMMA RebuildCurrent ==
    ASSUME Base, Next, NEW t \in Transactions, Rebuild(t), CurrentOf(t), t \notin disturbed',
           OneCreation(t)', Stored(t)
    PROVE  CurrentOf(t)'
<1>1. PICK n \in Readable(txLog[t]) \ {0} :
         /\ jobs' = jobs \cup {Job(t, n, "load", Entity(t, n), NoRow)}
         /\ disturbed' = IF n = Len(txLog[t]) /\ Idle(t) THEN disturbed ELSE disturbed \cup {t}
    BY DEF Rebuild
<1>2. UNCHANGED <<form, txLog, versions, row>> /\ n = Last(t) /\ Idle(t)
    BY <1>1 DEF Rebuild, rowVars, requestVars, logVars, Last
<1>3. JobsOf(t) = {}
    BY <1>2 DEF Idle, JobsOf
<1>4. row[t] # NoRow /\ row[t] = Entity(t, Last(t))
    BY <1>3, CurrentAlone
<1>5. PICK k : k = Job(t, n, "load", Entity(t, n), NoRow)
    OBVIOUS
<1>6. k.tx = t /\ k.at = "load" /\ k.base = NoRow /\ k.n = n
    BY <1>5 DEF Job
<1>7. JobCurrent(t, k)
    BY <1>4, <1>6 DEF JobCurrent
<1>8. JobsOf(t)' = JobsOf(t) \cup {k}
    BY <1>1, <1>5, <1>6, JobsOfAdds
<1>9. QED  BY <1>2, <1>3, <1>4, <1>7, <1>8, CurrentKept

\* A job of the transaction ends or moves on, and its row stays.
LEMMA MoveCurrent ==
    ASSUME Base, Next, NEW t \in Transactions, NEW j \in JobsOf(t), CurrentOf(t), OneCreation(t)',
           FindsExisting(j) \/ InsertReads(j) \/ RebuildReads(j), t \notin disturbed'
    PROVE  CurrentOf(t)'
<1>1. /\ j \in jobs /\ j.tx = t /\ j \in Jobs /\ JobOK(j) /\ JobCurrent(t, j)
      /\ j.n \in 1 .. Last(t) /\ Last(t) \in Nat
    BY JobFields DEF CurrentOf, Last
<1>2. UNCHANGED <<form, txLog, versions>>
    BY StepIsQuiet DEF Step
<1>3. ASSUME NEW k, Moving(j, k), JobCurrent(t, k), row[t] = NoRow => Creates(k),
             j.n = 1 \/ j.at # "handle"
      PROVE  CurrentOf(t)'
    <2>1. JobsOf(t)' = (JobsOf(t) \ {j}) \cup {k} /\ row' = row
        BY <1>1, <1>3, JobsOfMoves DEF Moving
    <2>2. Last(t) > 1 => Handler(t, Last(t)) # j
        BY <1>3, HandlerFields
    <2>3. Last(t) > 1 /\ row[t] # Entity(t, Last(t)) => Handler(t, Last(t)) \in JobsOf(t)'
        BY <2>1, <2>2 DEF CurrentOf
    <2>4. row[t] = NoRow => \E i \in JobsOf(t)' : Creates(i)
        BY <1>3, <2>1
    <2>5. QED  BY <1>2, <1>3, <2>1, <2>3, <2>4, CurrentKept
<1>4. CASE FindsExisting(j)
    <2>1. j.at = "handle" /\ j.n = 1
        BY <1>4 DEF FindsExisting
    <2>2. row[t] = NoRow
        BY <2>1 DEF CurrentOf, OneCreation, Creates
    <2>3. PICK k : k = Job(j.tx, j.n, "insert", j.entity, j.base)
        OBVIOUS
    <2>4. /\ Moving(j, k) /\ k.at = "insert" /\ k.n = 1 /\ k.base = j.base /\ k.entity = j.entity
        BY <1>1, <1>4, <2>1, <2>2, <2>3, FindsMove DEF Job
    <2>5. JobCurrent(t, k) /\ Creates(k)
        BY <1>1, <2>4 DEF JobCurrent, Creates
    <2>6. QED  BY <1>3, <2>1, <2>4, <2>5
<1>5. CASE InsertReads(j)
    <2>1. PICK k : k = Job(j.tx, j.n, "save", Entity(j.tx, 1), row[j.tx])
        OBVIOUS
    <2>2. /\ Moving(j, k) /\ j.at \in {"handle", "insert"} /\ j.n = 1
          /\ k.at = "save" /\ k.n = 1 /\ k.base = row[t]
        BY <1>1, <1>5, <2>1, InsertMove DEF Job
    <2>3. row[t] = NoRow
        BY <2>2 DEF CurrentOf, OneCreation, Creates
    <2>4. JobCurrent(t, k) /\ Creates(k)
        BY <2>2, <2>3 DEF JobCurrent, Creates
    <2>5. QED  BY <1>3, <2>2, <2>4
<1>6. CASE RebuildReads(j)
    <2>1. PICK k : k = Job(j.tx, j.n, "save", j.entity, row[j.tx])
        OBVIOUS
    <2>2. /\ Moving(j, k) /\ j.at = "load" /\ k.at = "save" /\ k.base = row[t]
          /\ k.entity = Entity(t, j.n)
        BY <1>1, <1>6, <2>1, RebuildMove DEF Job, JobOK
    <2>3. j.n = Last(t)
        BY <1>1, <1>6 DEF RebuildReads, Last
    <2>4. row[t] # NoRow /\ row[t] = Entity(t, Last(t))
        BY <1>1, <2>2, <2>3 DEF JobCurrent
    <2>5. JobCurrent(t, k)
        BY <2>2, <2>3, <2>4 DEF JobCurrent
    <2>6. QED  BY <1>3, <2>2, <2>4, <2>5
<1>7. QED  BY <1>4, <1>5, <1>6

\* A job of the transaction writes the row of an event, the last one if no handler
\* of the last is left.
LEMMA WriteCurrent ==
    ASSUME Base, NEW t \in Transactions, NEW j \in JobsOf(t), CurrentOf(t), OneCreation(t)',
           UNCHANGED <<form, txLog, versions>>, JobsOf(t)' = JobsOf(t) \ {j},
           NEW n \in 1 .. Last(t), row[t]' = Entity(t, n),
           n = Last(t) \/ (row[t] = NoRow /\ j.at # "handle")
    PROVE  CurrentOf(t)'
<1>1. /\ Last(t)' = Last(t) /\ \A m : Entity(t, m)' = Entity(t, m)
      /\ \A m : Handler(t, m)' = Handler(t, m)
    BY CurrentFrame
<1>2. Entity(t, Last(t))' = Entity(t, Last(t)) /\ Handler(t, Last(t))' = Handler(t, Last(t))
    BY DEF Entity, Handler, Job, Last
<1>3. /\ LogPart /\ Last(t) \in Nat /\ NoRow \notin Rows
      /\ Entity(t, n) \in Rows /\ Entity(t, Last(t)) \in Rows
    BY LogFields, EntityFields, NoRowIsNoRow DEF Base, Last
<1>4. row[t]' # NoRow /\ \E m \in 1 .. Last(t)' : row[t]' = Entity(t, m)'
    BY <1>1, <1>3
<1>5. (Last(t) > 1 /\ row[t] # Entity(t, Last(t)) => Handler(t, Last(t)) \in JobsOf(t))'
    <2> SUFFICES ASSUME Last(t) > 1, row[t]' # Entity(t, Last(t))
                 PROVE  Handler(t, Last(t)) \in JobsOf(t)'
        BY <1>1, <1>2
    <2>1. row[t] = NoRow /\ j.at # "handle"
        OBVIOUS
    <2>2. Handler(t, Last(t)) \in JobsOf(t)
        BY <1>3, <2>1 DEF CurrentOf
    <2>3. QED  BY <2>1, <2>2, HandlerFields
<1>6. \A k \in JobsOf(t)' : JobCurrent(t, k)'
    <2> SUFFICES ASSUME NEW k \in JobsOf(t) PROVE JobCurrent(t, k)'
        OBVIOUS
    <2>1. JobCurrent(t, k)
        BY DEF CurrentOf
    <2>2. k.at = "load" => row[t]' = Entity(t, Last(t))'
        BY <1>2, <2>1 DEF JobCurrent
    <2>3. QED  BY <1>4, <2>1, <2>2 DEF JobCurrent
<1>7. QED  BY <1>4, <1>5, <1>6 DEF CurrentOf

\* A job of the transaction ends without a write.
LEMMA EndsCurrent ==
    ASSUME NEW t \in Transactions, NEW j \in JobsOf(t), CurrentOf(t), OneCreation(t)',
           UNCHANGED <<form, txLog, versions>>, JobsOf(t)' = JobsOf(t) \ {j},
           row[t]' = row[t], row[t] # NoRow,
           row[t] = Entity(t, Last(t)) \/ j.at # "handle"
    PROVE  CurrentOf(t)'
<1>1. Last(t) > 1 /\ row[t] # Entity(t, Last(t)) => Handler(t, Last(t)) \in JobsOf(t)'
    BY HandlerFields DEF CurrentOf
<1>2. QED  BY <1>1, CurrentKept

\* Every step keeps an undisturbed row current, or a handler on its way to it.
LEMMA CurrentOfStep ==
    ASSUME Base, Next, NEW t \in Transactions, t \notin disturbed', t \notin raced',
           Stored(t) => CurrentOf(t), Stored(t)'
    PROVE  CurrentOf(t)'
<1>1. CASE Store(t)
    BY <1>1, StoreCurrent
<1>2. CASE ~Stored(t) /\ ~Store(t)
    <2>1. ~StoreUnpublished(t)
        BY DEF StoreUnpublished
    <2>2. \A outcome \in Outcomes(t) : ~Appends(t, outcome)
        BY <1>2, AppendsStep DEF Base
    <2>3. JobsOf(t) = {}
        BY <1>2, Unstored
    <2>4. UNCHANGED txLog[t]
        BY <1>2, <2>1, <2>2, <2>3, QuietOrOwn
           DEF Own, Quiet, End, EndUnpublished, Rebuild, Crash, logVars
    <2>5. QED  BY <1>2, <2>4 DEF Stored
<1>3. ASSUME Stored(t), ~Store(t)
      PROVE  CurrentOf(t)'
    <2>1. CurrentOf(t) /\ OneCreation(t) /\ \A j \in JobsOf(t) : j.at = "load" => row[t] # NoRow
        BY <1>3 DEF CurrentOf, JobCurrent
    <2>2. OneCreation(t)'
        BY <2>1, OneCreationStep
    <2>3. CASE ~Own(t)
        <3>1. UNCHANGED <<form, txLog[t], versions[t], row[t], JobsOf(t)>>
            BY <2>3, QuietOrOwn DEF Quiet
        <3>2. QED  BY <2>1, <2>2, <3>1, CurrentKept DEF CurrentOf
    <2>4. CASE Crash
        <3>1. UNCHANGED <<form, txLog, versions, row>> /\ jobs' = {} /\ \A j \in jobs : j.tx # t
            BY <2>4 DEF Crash, logVars, rowVars
        <3>2. JobsOf(t)' = JobsOf(t)
            BY <3>1 DEF JobsOf
        <3>3. QED  BY <2>1, <2>2, <3>1, <3>2, CurrentKept DEF CurrentOf
    <2>5. ~StoreUnpublished(t) /\ \A outcome \in Outcomes(t) : ~EndUnpublished(t, outcome)
        BY DEF StoreUnpublished, EndUnpublished
    <2>6. ASSUME NEW j \in JobsOf(t), Step(j)
          PROVE  CurrentOf(t)'
        <3>1. /\ j \in jobs /\ j.tx = t /\ j \in Jobs /\ JobOK(j) /\ JobCurrent(t, j)
              /\ j.n \in 1 .. Last(t) /\ Last(t) \in Nat /\ LogPart
              /\ row \in [Transactions -> Rows \cup {NoRow}] /\ UNCHANGED <<form, txLog, versions>>
            BY <2>1, <2>6, JobFields, StepIsQuiet DEF CurrentOf, Last, Base, RowPart
        <3>2. Last(t) <= 2
            <4>1. t \notin raced
                BY LogStep DEF Base
            <4>2. QED  BY <3>1, <4>1 DEF LogPart, LogOK, Last
        <3>3. CASE FindsExisting(j) \/ InsertReads(j) \/ RebuildReads(j)
            BY <2>1, <2>2, <3>3, MoveCurrent
        <3>4. CASE UpdateApplies(j)
            <4>1. /\ jobs' = jobs \ {j} /\ j.n \in 2 .. Len(txLog[j.tx])
                  /\ row' = [row EXCEPT ![j.tx] = Entity(j.tx, j.n)]
                BY <3>1, <3>4, UpdateWrites
            <4>2. j.n = Last(t) /\ JobsOf(t)' = JobsOf(t) \ {j}
                <5>1. j.n \in 2 .. Last(t)
                    BY <3>1, <4>1 DEF Last
                <5>2. j.n = Last(t)
                    BY <3>1, <3>2, <5>1
                <5>3. QED  BY <4>1, <5>2, JobsOfEnds
            <4>3. row[t]' = Entity(t, j.n)
                BY <3>1, <4>1
            <4>4. QED  BY <2>1, <2>2, <3>1, <4>2, <4>3, WriteCurrent
        <3>5. CASE UpdateMatchesNothing(j)
            <4>1. /\ jobs' = jobs \ {j} /\ row' = row /\ row[t] # NoRow /\ j.n > 1
                  /\ ~(row[t].version < versions[t][j.n])
                BY <3>1, <3>5 DEF UpdateMatchesNothing, Older, Ends, rowVars
            <4>2. JobsOf(t)' = JobsOf(t) \ {j} /\ j.n = 2 /\ Last(t) = 2
                BY <3>1, <3>2, <4>1, JobsOfEnds
            <4>3. versions[t][2] = 2
                BY <3>1, <4>2 DEF LogPart, LogOK, Last
            <4>4. PICK m \in 1 .. 2 : row[t] = Entity(t, m)
                BY <2>1, <4>1, <4>2 DEF CurrentOf
            <4>5. m # 1
                <5>1. Entity(t, m).version = (IF m = 1 THEN 1 ELSE 2)
                    BY <3>1, <4>2, <4>4, EntityFields DEF Last
                <5>2. QED  BY <4>1, <4>2, <4>3, <4>4, <5>1
            <4>6. row[t] = Entity(t, Last(t))
                BY <4>2, <4>4, <4>5
            <4>7. QED  BY <2>1, <2>2, <3>1, <4>1, <4>2, <4>6, EndsCurrent
        <3>6. CASE SaveRefused(j)
            <4>1. jobs' = jobs \ {j} /\ row' = row /\ row[t] # NoRow /\ j.at = "save"
                BY <3>1, <3>6 DEF SaveRefused, Ends, rowVars
            <4>2. JobsOf(t)' = JobsOf(t) \ {j}
                BY <4>1, JobsOfEnds
            <4>3. QED  BY <2>1, <2>2, <3>1, <4>1, <4>2, EndsCurrent
        <3>7. CASE Save(j)
            <4>1. /\ jobs' = jobs \ {j} /\ j.at = "save"
                  /\ j.base = NoRow => Insertable(t)
                  /\ j.base # NoRow => row[t] # NoRow
                  /\ row' = [row EXCEPT ![t] = IF j.base = NoRow THEN j.entity
                                               ELSE Merged(row[t], j.base, j.entity)]
                BY <3>1, <3>7, SaveWrites
            <4>2. JobsOf(t)' = JobsOf(t) \ {j} /\ j.entity = Entity(t, j.n) /\ j.entity \in Rows
                <5>1. JobsOf(t)' = JobsOf(t) \ {j}
                    BY <3>1, <4>1, JobsOfEnds
                <5>2. j.entity = Entity(t, j.n) /\ j.n \in 1 .. Last(t)
                    BY <3>1, <4>1 DEF JobOK, Last
                <5>3. QED  BY <3>1, <5>1, <5>2, EntityFields DEF Last
            <4>3. CASE j.base = NoRow
                <5>1. row[t] = NoRow /\ row[t]' = Entity(t, j.n)
                    <6>1. row \in [Transactions -> Rows \cup {NoRow}] /\ Insertable(t)
                        BY <3>1, <4>1, <4>3 DEF RowPart
                    <6>2. row[t]' = j.entity
                        BY <4>1, <4>3, <6>1
                    <6>3. QED  BY <4>2, <6>1, <6>2 DEF Insertable
                <5>2. QED  BY <2>1, <2>2, <3>1, <4>1, <4>2, <5>1, WriteCurrent
            <4>4. CASE j.base # NoRow
                <5>1. row[t] \in Rows /\ j.base = j.entity /\ row[t] # NoRow
                    BY <3>1, <4>1, <4>4 DEF JobCurrent
                <5>2. Merged(row[t], j.entity, j.entity) = row[t]
                    BY <4>2, <5>1, MergedFields
                <5>3. row[t]' = row[t]
                    BY <3>1, <4>1, <4>4, <5>1, <5>2
                <5>4. QED  BY <2>1, <2>2, <3>1, <4>1, <4>2, <5>1, <5>3, EndsCurrent
            <4>5. QED  BY <4>3, <4>4
        <3>8. QED  BY <2>6, <3>3, <3>4, <3>5, <3>6, <3>7 DEF Step
    <2>7. \A j \in JobsOf(t) : ~JobFails(j)
        BY DEF JobFails, JobsOf
    <2>8. QED
        BY <1>3, <2>1, <2>2, <2>3, <2>4, <2>5, <2>6, <2>7, EndCurrent, RebuildCurrent DEF Own
<1>4. QED  BY <1>1, <1>2, <1>3

\* The same for all transactions.
LEMMA CurrentStep ==
    ASSUME Base, Next, CurrentInv
    PROVE  CurrentInv'
<1> SUFFICES ASSUME NEW t \in Transactions, t \notin disturbed', t \notin raced', Stored(t)'
             PROVE  CurrentOf(t)'
    BY DEF CurrentInv
<1>1. t \notin disturbed /\ t \notin raced
    BY DisturbedGrows, LogStep DEF Base
<1>2. Stored(t) => CurrentOf(t)
    BY <1>1 DEF CurrentInv
<1>3. QED  BY <1>2, CurrentOfStep

\* A row that nothing disturbed is current, or a handler is on its way to it.
LEMMA CurrentInvariant == Spec => []CurrentInv
<1>1. Init => CurrentInv
    BY DEF Init, CurrentInv, Stored
<1>2. Base /\ CurrentInv /\ [Next]_vars => CurrentInv'
    <2>1. UNCHANGED vars /\ CurrentInv => CurrentInv'
        BY DEF CurrentInv, CurrentOf, OneCreation, Creates, JobsOf, JobCurrent, Stored, Last, Entity,
               Handler, Job, vars, requestVars, logVars, rowVars
    <2>2. QED  BY <2>1, CurrentStep
<1>3. QED  BY <1>1, <1>2, BaseInvariant, PTL DEF Spec

\* A transaction that lost no event, raced no outcome and was rebuilt only while no
\* handler ran has, when its handlers are done, the row its log says.
THEOREM RowsCurrent == Spec => []RowsAreCurrent
<1>1. Base /\ CurrentInv => RowsAreCurrent
    <2> SUFFICES ASSUME Base, CurrentInv,
                        NEW t \in Transactions, t \notin disturbed, t \notin raced, Stored(t), Idle(t)
                 PROVE  row[t] # NoRow /\ row[t].status = Status(txLog[t])
        BY DEF RowsAreCurrent
    <2>1. CurrentOf(t) /\ JobsOf(t) = {}
        BY DEF CurrentInv, Idle, JobsOf
    <2>2. row[t] # NoRow /\ row[t] = Entity(t, Last(t))
        BY <2>1, CurrentAlone
    <2>3. Last(t) \in 1 .. Len(txLog[t])
        BY LogFields DEF Base, Last
    <2>4. Entity(t, Last(t)).status = txLog[t][Last(t)]
        BY <2>3, EntityFields DEF Base
    <2>5. QED  BY <2>2, <2>4 DEF Status, Last
<1>2. QED  BY <1>1, BaseInvariant, CurrentInvariant, PTL

==============================================================================
