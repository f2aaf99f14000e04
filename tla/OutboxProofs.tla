----------------------------- MODULE OutboxProofs -----------------------------
(***************************************************************************)
(* Proofs about Outbox, for every number of events, polls that overlap,    *)
(* faults and retries, and every batch size.                               *)
(***************************************************************************)
EXTENDS Outbox, FiniteSetTheorems, WellFoundedInduction, TLAPS

------------------------------------------------------------------------------
(* The inductive invariant.                                                 *)

Places ==
    {"idle", "claim", "claiming", "publish", "delivering", "record", "recording",
     "requeue", "requeuing"}

\* Where a poll works on an entity, and where its save() has read the row.
Works(p) == poll[p].at \notin {"idle", "claim", "requeue"}

Saves(p) == poll[p].at \in {"claiming", "delivering", "recording", "requeuing"}

AnyEntity == [event : Events, status : Statuses, retries : Nat]

PollType ==
    [at : Places, first : BOOLEAN, todo : SUBSET AnyEntity, entity : AnyEntity \cup {NoRow},
     base : Rows \cup {NoRow}]

\* What the columns of a row or of an entity say of an event is true: of any two
\* columns, whoever wrote them, so that a save may mix them.
Earned(e, status, retries) ==
    /\ status = "delivered" => e \in published
    /\ status = "failed" => failures[e] >= MaxRetries
    /\ retries <= failures[e]

RowOK(e) ==
    /\ row[e] # NoRow => e \in Added /\ Earned(e, row[e].status, row[e].retries)
    /\ row[e] = NoRow /\ e \in Added => e \in published

EntityOK(c) == row[c.event] # NoRow /\ Earned(c.event, c.status, c.retries)

PollOK(p) ==
    /\ poll[p].at = "idle" => poll[p] = Idle
    /\ poll[p].at \in {"claim", "requeue"} => poll[p].todo # {} /\ poll[p].entity = NoRow
    /\ \A c \in poll[p].todo : EntityOK(c)
    /\ Works(p) => poll[p].entity \in AnyEntity /\ EntityOK(poll[p].entity)
    /\ Saves(p) => poll[p].base \in Rows
    /\ poll[p].at = "delivering" => poll[p].entity.status = "delivered"

Types ==
    /\ added \in 0 .. MaxEvents /\ urgent \subseteq Added /\ published \subseteq Added
    /\ row \in [Events -> Rows \cup {NoRow}]
    /\ running \in BOOLEAN /\ ticking \in BOOLEAN
    /\ overlapped \in BOOLEAN /\ disorder \in BOOLEAN
    /\ faults \in 0 .. MaxFaults
    /\ failures \in [Events -> Nat]
    /\ poll \in [Polls -> PollType]

Base == Types /\ (\A e \in Events : RowOK(e)) /\ (\A p \in Polls : PollOK(p))

------------------------------------------------------------------------------
(* Rows, entities and polls as records.                                     *)

\* The bounds are numbers and an absent row is no row.
LEMMA Constants ==
    /\ MaxEvents \in Nat /\ MaxRetries \in Nat /\ MaxRetries > 0 /\ MaxFaults \in Nat
    /\ MaxPolls \in Nat /\ NoRow \notin Rows /\ NoRow \notin AnyEntity
<1>1. AnyEntity \subseteq [event : Nat, status : Statuses, retries : Nat]
    BY DEF AnyEntity, Events
<1>2. QED  BY <1>1, BoundsAssumption, NoRowAssumption

\* Every poll's record is given by its fields.
LEMMA PollFields ==
    ASSUME NEW r \in PollType
    PROVE  /\ r.at \in Places /\ r.first \in BOOLEAN /\ r.todo \subseteq AnyEntity
           /\ r.entity \in AnyEntity \cup {NoRow} /\ r.base \in Rows \cup {NoRow}
           /\ r = [at |-> r.at, first |-> r.first, todo |-> r.todo, entity |-> r.entity,
                   base |-> r.base]
BY DEF PollType

\* An idle poll is well typed.
LEMMA IdleType == Idle \in PollType
BY DEF Idle, Loaded, PollType, Places

\* Only one poll changes.
Changes(p) ==
    poll' \in [Polls -> PollType] /\ \A q \in Polls \ {p} : poll'[q] = poll[q]

\* One poll's record is replaced.
LEMMA OneChanges ==
    ASSUME poll \in [Polls -> PollType], NEW p \in Polls, NEW r \in PollType,
           poll' = [poll EXCEPT ![p] = r]
    PROVE  Changes(p) /\ poll'[p] = r
BY DEF Changes

\* save() reads.
LEMMA ReadsPoll ==
    ASSUME poll \in [Polls -> PollType], NEW p \in Polls, NEW at \in Places,
           NEW entity \in AnyEntity, row[entity.event] \in Rows \cup {NoRow}, Reads(p, at, entity)
    PROVE  /\ Changes(p)
           /\ poll'[p] = [at |-> at, first |-> poll[p].first,
                          todo |-> {c \in poll[p].todo : c.event # entity.event},
                          entity |-> entity, base |-> row[entity.event]]
<1> DEFINE todo == {c \in poll[p].todo : c.event # entity.event}
           old  == poll[p]
<1>1. PICK b : b = row[entity.event]
    OBVIOUS
<1>2. old \in PollType
    OBVIOUS
<1>3. poll' = [poll EXCEPT ![p] = [old EXCEPT !.at = at, !.todo = todo, !.entity = entity, !.base = b]]
    BY <1>1 DEF Reads
<1>4. todo \subseteq AnyEntity
    BY <1>2, PollFields
<1> HIDE DEF todo, old
<1>5. [old EXCEPT !.at = at, !.todo = todo, !.entity = entity, !.base = b]
         = [at |-> at, first |-> old.first, todo |-> todo, entity |-> entity, base |-> b]
    <2>1. DOMAIN old = {"at", "first", "todo", "entity", "base"}
        BY <1>2 DEF PollType
    <2> DEFINE k == [old EXCEPT !.at = at, !.todo = todo, !.entity = entity, !.base = b]
    <2>2. k = [f \in DOMAIN old |-> IF f = "base" THEN b ELSE IF f = "entity" THEN entity
                                    ELSE IF f = "todo" THEN todo ELSE IF f = "at" THEN at
                                    ELSE old[f]]
        BY <1>2 DEF PollType
    <2> HIDE DEF k
    <2>3. k = [at |-> at, first |-> old.first, todo |-> todo, entity |-> entity, base |-> b]
        BY <2>1, <2>2
    <2>4. QED  BY <2>3 DEF k
<1>6. [at |-> at, first |-> old.first, todo |-> todo, entity |-> entity, base |-> b] \in PollType
    BY <1>1, <1>2, <1>4, PollFields DEF PollType
<1>7. PICK r \in PollType :
         r = [at |-> at, first |-> old.first, todo |-> todo, entity |-> entity, base |-> b]
    BY <1>6
<1>8. poll' = [poll EXCEPT ![p] = r]
    BY <1>3, <1>5, <1>7
<1>9. QED  BY <1>1, <1>7, <1>8, OneChanges DEF todo, old

\* A poll leaves an entity for the next one.
LEMMA MovesPoll ==
    ASSUME poll \in [Polls -> PollType], NEW p \in Polls, NEW at \in Places,
           NEW entity \in AnyEntity \cup {NoRow},
           poll' = [poll EXCEPT ![p].at = at, ![p].entity = entity, ![p].base = NoRow]
    PROVE  /\ Changes(p)
           /\ poll'[p] = [at |-> at, first |-> poll[p].first, todo |-> poll[p].todo,
                          entity |-> entity, base |-> NoRow]
<1> DEFINE old == poll[p]
<1>1. old \in PollType
    OBVIOUS
<1>2. poll' = [poll EXCEPT ![p] = [old EXCEPT !.at = at, !.entity = entity, !.base = NoRow]]
    OBVIOUS
<1> HIDE DEF old
<1>3. [old EXCEPT !.at = at, !.entity = entity, !.base = NoRow]
         = [at |-> at, first |-> old.first, todo |-> old.todo, entity |-> entity, base |-> NoRow]
    <2>1. DOMAIN old = {"at", "first", "todo", "entity", "base"}
        BY <1>1 DEF PollType
    <2> DEFINE k == [old EXCEPT !.at = at, !.entity = entity, !.base = NoRow]
    <2>2. k = [f \in DOMAIN old |-> IF f = "base" THEN NoRow ELSE IF f = "entity" THEN entity
                                    ELSE IF f = "at" THEN at ELSE old[f]]
        BY <1>1 DEF PollType
    <2> HIDE DEF k
    <2>3. k = [at |-> at, first |-> old.first, todo |-> old.todo, entity |-> entity, base |-> NoRow]
        BY <2>1, <2>2
    <2>4. QED  BY <2>3 DEF k
<1>4. [at |-> at, first |-> old.first, todo |-> old.todo, entity |-> entity, base |-> NoRow]
         \in PollType
    BY <1>1, PollFields DEF PollType
<1>5. PICK r \in PollType :
         r = [at |-> at, first |-> old.first, todo |-> old.todo, entity |-> entity, base |-> NoRow]
    BY <1>4
<1>6. poll' = [poll EXCEPT ![p] = r]
    BY <1>2, <1>3, <1>5
<1>7. QED  BY <1>5, <1>6, OneChanges DEF old

\* save() writes: each column is the row's or the entity's.
LEMMA WritesRow ==
    ASSUME Base, NEW p \in Polls, Works(p), Writes(p)
    PROVE  LET entity == poll[p].entity
               old    == row[entity.event]
           IN  \E r \in Rows :
                  /\ row' = [row EXCEPT ![entity.event] = r]
                  /\ r.status = IF entity.status # poll[p].base.status THEN entity.status ELSE old.status
                  /\ r.retries = IF entity.retries # poll[p].base.retries THEN entity.retries ELSE old.retries
<1>1. PICK entity : entity = poll[p].entity
    OBVIOUS
<1>2. PICK base : base = poll[p].base
    OBVIOUS
<1>3. entity \in AnyEntity /\ EntityOK(entity) /\ row \in [Events -> Rows \cup {NoRow}]
    BY <1>1 DEF Base, Types, PollOK
<1>4. PICK old \in Rows : old = row[entity.event]
    BY <1>3 DEF EntityOK, AnyEntity
<1> DEFINE r == [c \in DOMAIN old |-> IF Columns(entity)[c] # base[c] THEN Columns(entity)[c] ELSE old[c]]
<1>5. row' = [row EXCEPT ![entity.event] = r]
    BY <1>1, <1>2, <1>3, <1>4 DEF Writes, Current, AnyEntity
<1>6. DOMAIN old = {"status", "retries"}
    BY DEF Rows
<1>7. r = [status |-> IF entity.status # base.status THEN entity.status ELSE old.status,
           retries |-> IF entity.retries # base.retries THEN entity.retries ELSE old.retries]
    BY <1>6 DEF Columns
<1> HIDE DEF r
<1>8. r \in Rows
    BY <1>3, <1>7 DEF Rows, AnyEntity
<1>9. QED  BY <1>1, <1>2, <1>4, <1>5, <1>7, <1>8

------------------------------------------------------------------------------
(* What is earned stays earned.                                             *)

Grows ==
    /\ published \subseteq published' /\ failures' \in [Events -> Nat]
    /\ \A e \in Events : failures[e] <= failures'[e]

RowsStay == \A e \in Events : row[e] # NoRow => row'[e] # NoRow

\* What was earned stays so: publications and failures are never taken back.
LEMMA EarnedGrows ==
    ASSUME failures \in [Events -> Nat], Grows, NEW e \in Events, NEW s \in Statuses, NEW n \in Nat,
           Earned(e, s, n)
    PROVE  Earned(e, s, n)'
<1>1. failures[e] \in Nat /\ failures'[e] \in Nat /\ failures[e] <= failures'[e] /\ MaxRetries \in Nat
    BY Constants DEF Grows
<1>2. QED  BY <1>1 DEF Earned, Grows

\* What an entity says stays true while its row exists.
LEMMA EntityStays ==
    ASSUME failures \in [Events -> Nat], Grows, NEW c \in AnyEntity, EntityOK(c),
           row[c.event] # NoRow => row'[c.event] # NoRow
    PROVE  EntityOK(c)'
<1>1. c.event \in Events /\ c.status \in Statuses /\ c.retries \in Nat
    BY DEF AnyEntity
<1>2. PICK e, s, n : e = c.event /\ s = c.status /\ n = c.retries
    OBVIOUS
<1>3. Earned(e, s, n)'
    BY <1>1, <1>2, EarnedGrows DEF EntityOK
<1>4. QED  BY <1>2, <1>3 DEF EntityOK

\* A row that nobody writes stays true.
LEMMA RowKept ==
    ASSUME failures \in [Events -> Nat], row \in [Events -> Rows \cup {NoRow}], Grows,
           NEW e \in Events, RowOK(e), row'[e] = row[e], e \in Added' => e \in Added, added \in Nat,
           added' \in Nat, added <= added'
    PROVE  RowOK(e)'
<1>1. CASE row[e] # NoRow
    <2>1. PICK s \in Statuses, n \in Nat : s = row[e].status /\ n = row[e].retries
        BY <1>1 DEF Rows
    <2>2. Earned(e, s, n)'
        BY <1>1, <2>1, EarnedGrows DEF RowOK
    <2>3. e \in Added'
        BY <1>1 DEF RowOK, Added
    <2>4. QED  BY <1>1, <2>1, <2>2, <2>3 DEF RowOK
<1>2. CASE row[e] = NoRow
    BY <1>2 DEF RowOK, Grows
<1>3. QED  BY <1>1, <1>2

\* A poll that does not move stays true while the rows it needs exist.
LEMMA PollKept ==
    ASSUME Base, Grows, NEW q \in Polls, poll'[q] = poll[q],
           \A c \in poll[q].todo \cup {poll[q].entity} :
              c # NoRow => (row[c.event] # NoRow => row'[c.event] # NoRow)
    PROVE  PollOK(q)'
<1>1. PollOK(q) /\ poll[q] \in PollType /\ failures \in [Events -> Nat]
    BY DEF Base, Types
<1>2. \A c \in poll[q].todo : EntityOK(c)'
    <2> SUFFICES ASSUME NEW c \in poll[q].todo PROVE EntityOK(c)'
        OBVIOUS
    <2>1. c \in AnyEntity /\ c # NoRow /\ EntityOK(c)
        BY <1>1, Constants, PollFields DEF PollOK
    <2>2. QED  BY <1>1, <2>1, EntityStays
<1>3. Works(q) => EntityOK(poll[q].entity)'
    <2> SUFFICES ASSUME Works(q) PROVE EntityOK(poll[q].entity)'
        OBVIOUS
    <2>1. PICK c \in AnyEntity : c = poll[q].entity
        BY <1>1 DEF PollOK
    <2>2. EntityOK(c) /\ c # NoRow
        BY <1>1, <2>1, Constants DEF PollOK
    <2>3. EntityOK(c)'
        BY <1>1, <2>1, <2>2, EntityStays
    <2>4. poll'[q].entity = c
        BY <2>1
    <2>5. QED  BY <2>1, <2>3, <2>4 DEF EntityOK
<1>4. \A c \in poll'[q].todo : EntityOK(c)'
    BY <1>2
<1>5. (Works(q) => EntityOK(poll[q].entity))'
    BY <1>3 DEF Works, EntityOK
<1>6. QED  BY <1>1, <1>4, <1>5 DEF PollOK, Works, Saves

\* One poll's record changes.
LEMMA PollsKept ==
    ASSUME Base, Grows, RowsStay, NEW p \in Polls, Changes(p), PollOK(p)'
    PROVE  poll' \in [Polls -> PollType] /\ \A q \in Polls : PollOK(q)'
<1>1. poll \in [Polls -> PollType]
    BY DEF Base, Types
<1>2. ASSUME NEW q \in Polls, q # p
      PROVE  PollOK(q)'
    <2>1. poll'[q] = poll[q] /\ poll[q] \in PollType
        BY <1>1, <1>2 DEF Changes
    <2>2. \A c \in poll[q].todo \cup {poll[q].entity} : c # NoRow => c.event \in Events
        BY <2>1, PollFields DEF AnyEntity
    <2>3. QED  BY <2>1, <2>2, PollKept DEF RowsStay
<1>3. QED  BY <1>1, <1>2 DEF Changes

\* A row is written by a save, whatever wrote the row meanwhile.
LEMMA RowWritten ==
    ASSUME Base, NEW p \in Polls, Works(p), row' = row \/ Writes(p), published' = published,
           Grows, added' = added
    PROVE  /\ row' \in [Events -> Rows \cup {NoRow}] /\ RowsStay
           /\ \A e \in Events : RowOK(e)'
<1>1. /\ row \in [Events -> Rows \cup {NoRow}] /\ failures \in [Events -> Nat]
      /\ \A e \in Events : RowOK(e)
      /\ added \in Nat /\ NoRow \notin Rows
    BY Constants DEF Base, Types
<1>2. \A e \in Events : row'[e] = row[e] => RowOK(e)'
    BY <1>1, RowKept DEF Added
<1>3. CASE row' = row
    BY <1>1, <1>2, <1>3 DEF RowsStay
<1>4. CASE Writes(p)
    <2>1. PICK c \in AnyEntity : c = poll[p].entity
        BY DEF Base, PollOK
    <2>2. EntityOK(c) /\ c.event \in Events /\ c.status \in Statuses /\ c.retries \in Nat
        BY <2>1 DEF Base, PollOK, AnyEntity
    <2>3. PICK old \in Rows : old = row[c.event]
        BY <1>1, <2>2 DEF EntityOK
    <2>4. PICK r \in Rows : /\ row' = [row EXCEPT ![c.event] = r]
                            /\ r.status \in {c.status, old.status}
                            /\ r.retries \in {c.retries, old.retries}
        BY <1>4, <2>1, <2>3, WritesRow
    <2>5. /\ Earned(c.event, c.status, c.retries) /\ Earned(c.event, old.status, old.retries)
          /\ c.event \in Added
        BY <1>1, <2>2, <2>3 DEF EntityOK, RowOK
    <2>6. Earned(c.event, r.status, r.retries)
        BY <2>4, <2>5 DEF Earned
    <2>7. PICK e \in Events, s \in Statuses, n \in Nat :
             e = c.event /\ s = r.status /\ n = r.retries
        BY <2>2 DEF Rows
    <2>8. Earned(e, s, n)'
        BY <1>1, <2>6, <2>7, EarnedGrows
    <2>9. row'[e] = r /\ \A f \in Events \ {e} : row'[f] = row[f]
        BY <1>1, <2>4, <2>7
    <2>10. RowOK(e)'
        BY <1>1, <2>5, <2>7, <2>8, <2>9 DEF RowOK, Added
    <2>11. \A f \in Events : RowOK(f)'
        BY <1>2, <2>9, <2>10
    <2>12. RowsStay
        BY <1>1, <2>9 DEF RowsStay
    <2>13. QED  BY <1>1, <2>2, <2>4, <2>11, <2>12
<1>5. QED  BY <1>3, <1>4

\* No row changes.
LEMMA RowsUnchanged ==
    ASSUME Base, row' = row, Grows, added' = added
    PROVE  RowsStay /\ \A e \in Events : RowOK(e)'
BY RowKept, Constants DEF Base, Types, RowsStay, Added

\* The loop goes on to the next entity, or the poll ends.
LEMMA NextPoll ==
    ASSUME Base, Grows, RowsStay, NEW p \in Polls, NEW at \in {"claim", "requeue"},
           NextOr(p, at) \/ Ends(p)
    PROVE  /\ poll' \in [Polls -> PollType] /\ \A q \in Polls : PollOK(q)'
           /\ ticking' \in BOOLEAN
<1>1. /\ poll \in [Polls -> PollType] /\ failures \in [Events -> Nat] /\ poll[p] \in PollType
      /\ ticking \in BOOLEAN /\ poll[p].first \in BOOLEAN
    BY PollFields DEF Base, Types
<1>2. CASE Ends(p)
    <2>1. poll' = [poll EXCEPT ![p] = Idle] /\ ticking' = (ticking \/ poll[p].first)
        BY <1>2 DEF Ends
    <2>2. Changes(p) /\ poll'[p] = Idle
        BY <1>1, <2>1, IdleType, OneChanges
    <2>3. PollOK(p)'
        BY <2>2 DEF PollOK, Works, Saves, Idle, Loaded
    <2>4. ticking' \in BOOLEAN
        BY <1>1, <2>1, Zenon
    <2>5. QED  BY <2>2, <2>3, <2>4, PollsKept
<1>3. CASE poll[p].todo # {} /\ NextOr(p, at)
    <2>1. /\ poll' = [poll EXCEPT ![p].at = at, ![p].entity = NoRow, ![p].base = NoRow]
          /\ ticking' = ticking
        BY <1>3 DEF NextOr
    <2>2. at \in Places /\ NoRow \in AnyEntity \cup {NoRow}
        BY DEF Places
    <2>3. Changes(p) /\ poll'[p] = [at |-> at, first |-> poll[p].first, todo |-> poll[p].todo,
                                    entity |-> NoRow, base |-> NoRow]
        BY <1>1, <2>1, <2>2, MovesPoll
    <2>4. \A c \in poll[p].todo : EntityOK(c)'
        <3> SUFFICES ASSUME NEW c \in poll[p].todo PROVE EntityOK(c)'
            OBVIOUS
        <3>1. c \in AnyEntity /\ EntityOK(c)
            BY <1>1, PollFields DEF Base, PollOK
        <3>2. c.event \in Events
            BY <3>1 DEF AnyEntity
        <3>3. QED  BY <1>1, <3>1, <3>2, EntityStays DEF RowsStay
    <2>5. PollOK(p)'
        BY <1>3, <2>3, <2>4 DEF PollOK, Works, Saves
    <2>6. QED  BY <1>1, <2>1, <2>3, <2>5, PollsKept
<1>4. QED  BY <1>2, <1>3 DEF NextOr

------------------------------------------------------------------------------
(* What a poll loads.                                                       *)

\* A nonempty set of numbers has a least.
LEMMA Smallest ==
    ASSUME NEW S \in SUBSET Nat, S # {}
    PROVE  \E e \in S : \A f \in S : e <= f
<1>1. PICK e \in S : \A f \in S : ~ (<<f, e>> \in OpToRel(<, Nat))
    BY NatLessThanWellFounded, WFMin
<1>2. \A f \in S : ~(f < e)
    BY <1>1 DEF OpToRel
<1>3. QED  BY <1>2

\* Some event comes first.
LEMMA FirstExists ==
    ASSUME NEW S \in SUBSET Events, S # {}
    PROVE  \E e \in S : \A f \in S : ~Precedes(f, e)
<1>1. Events \subseteq Nat
    BY DEF Events
<1>2. CASE S \cap urgent # {}
    <2>1. PICK e \in S \cap urgent : \A f \in S \cap urgent : e <= f
        BY <1>1, <1>2, Smallest
    <2>2. QED  BY <1>1, <2>1 DEF Precedes
<1>3. CASE S \cap urgent = {}
    <2>1. PICK e \in S : \A f \in S : e <= f
        BY <1>1, Smallest
    <2>2. QED  BY <1>1, <1>3, <2>1 DEF Precedes
<1>4. QED  BY <1>2, <1>3

\* Sets of events are finite and can be counted.
LEMMA EventsFinite ==
    ASSUME NEW S \in SUBSET Events
    PROVE  IsFiniteSet(S) /\ Cardinality(S) \in Nat
<1>1. IsFiniteSet(Events)
    BY FS_Interval, Constants DEF Events
<1>2. IsFiniteSet(S)
    BY <1>1, FS_Subset
<1>3. QED  BY <1>2, FS_CardinalityType

\* The order of events, without equality of truth values.
LEMMA Order ==
    ASSUME NEW e, NEW f
    PROVE  Precedes(e, f) <=> \/ e \in urgent /\ f \notin urgent
                              \/ (e \in urgent <=> f \in urgent) /\ e < f
<1>1. CASE e \in urgent /\ f \in urgent
    BY <1>1 DEF Precedes
<1>2. CASE e \in urgent /\ f \notin urgent
    BY <1>2 DEF Precedes
<1>3. CASE e \notin urgent /\ f \in urgent
    BY <1>3 DEF Precedes
<1>4. CASE e \notin urgent /\ f \notin urgent
    BY <1>4 DEF Precedes
<1>5. QED  BY <1>1, <1>2, <1>3, <1>4

\* The order of delivery is transitive.
LEMMA OrderTransitive ==
    ASSUME NEW e \in Events, NEW f \in Events, NEW g \in Events, Precedes(g, f), Precedes(f, e)
    PROVE  Precedes(g, e)
<1>1. e \in Nat /\ f \in Nat /\ g \in Nat
    BY DEF Events
<1>2. QED  BY <1>1, Order

\* A batch is of the given events, and of some when there are some.
LEMMA BatchLoads ==
    ASSUME NEW S \in SUBSET Events
    PROVE  /\ \A c \in Batch(S) : \E e \in S : c = Entity(e)
           /\ S # {} => Batch(S) # {}
<1>1. \A c \in Batch(S) : \E e \in S : c = Entity(e)
    BY DEF Batch
<1>2. ASSUME S # {} PROVE Batch(S) # {}
    <2>1. PICK e \in S : \A f \in S : ~Precedes(f, e)
        BY <1>2, FirstExists
    <2>2. {f \in S : Precedes(f, e)} = {}
        BY <2>1
    <2>3. Cardinality({f \in S : Precedes(f, e)}) < BatchSize
        BY <2>2, FS_EmptySet, BoundsAssumption
    <2>4. QED  BY <2>1, <2>3 DEF Batch
<1>3. QED  BY <1>1, <1>2

\* An event of a batch comes with those that precede it.
LEMMA BatchClosed ==
    ASSUME NEW S \in SUBSET Events, NEW e \in S, NEW f \in S, Precedes(f, e),
           \E c \in Batch(S) : c.event = e
    PROVE  Entity(f) \in Batch(S)
<1> DEFINE Above(g) == {h \in S : Precedes(h, g)}
<1>1. Cardinality(Above(e)) < BatchSize
    <2>1. PICK c \in Batch(S) : c.event = e
        OBVIOUS
    <2>2. PICK g \in S : Cardinality(Above(g)) < BatchSize /\ c = Entity(g)
        BY <2>1 DEF Batch
    <2>3. g = e
        BY <2>1, <2>2 DEF Entity
    <2>4. QED  BY <2>2, <2>3
<1>2. Above(f) \subseteq Above(e)
    BY OrderTransitive
<1>3. Above(e) \subseteq Events /\ Above(f) \subseteq Events
    OBVIOUS
<1> HIDE DEF Above
<1>4. Cardinality(Above(f)) <= Cardinality(Above(e))
    BY <1>2, <1>3, EventsFinite, FS_Subset
<1>5. Cardinality(Above(f)) < BatchSize
    BY <1>1, <1>3, <1>4, EventsFinite, BoundsAssumption
<1>6. QED  BY <1>5 DEF Batch, Above

\* An entity is loaded with the columns of its row.
LEMMA EntityLoaded ==
    ASSUME Base, NEW e \in Events, row[e] # NoRow
    PROVE  Entity(e) \in AnyEntity /\ EntityOK(Entity(e)) /\ Entity(e).event = e
<1>1. row[e] \in Rows /\ RowOK(e)
    BY DEF Base, Types
<1>2. PICK r \in Rows : r = row[e]
    BY <1>1
<1>3. r.status \in Statuses /\ r.retries \in Nat
    BY DEF Rows
<1>4. PICK c : c = [event |-> e, status |-> r.status, retries |-> r.retries]
    OBVIOUS
<1>5. c \in AnyEntity /\ c.event = e /\ c.status = r.status /\ c.retries = r.retries
    BY <1>3, <1>4 DEF AnyEntity
<1>6. EntityOK(c)
    BY <1>1, <1>2, <1>5 DEF EntityOK, RowOK
<1>7. QED  BY <1>2, <1>4, <1>5, <1>6 DEF Entity

\* A free poll starts with what it loaded.
LEMMA PollStarts ==
    ASSUME Base, NEW p \in Polls, NEW at \in {"claim", "requeue"}, NEW first \in BOOLEAN, NEW todo,
           todo # {}, \A c \in todo : \E e \in Events : row[e] # NoRow /\ c = Entity(e),
           poll' = [poll EXCEPT ![p] = Loaded(at, first, todo)],
           UNCHANGED <<row, published, failures>>
    PROVE  poll' \in [Polls -> PollType] /\ \A q \in Polls : PollOK(q)'
<1>1. \A c \in todo : c \in AnyEntity /\ EntityOK(c)
    BY EntityLoaded
<1>2. PICK r : r = Loaded(at, first, todo)
    OBVIOUS
<1>3. r \in PollType
    BY <1>1, <1>2 DEF PollType, Places, Loaded
<1>4. Changes(p) /\ poll'[p] = r
    BY <1>2, <1>3, OneChanges DEF Base, Types
<1>5. Grows /\ RowsStay
    BY DEF Grows, RowsStay, Base, Types
<1>6. \A c \in todo : EntityOK(c)'
    BY <1>1 DEF EntityOK, Earned
<1>7. PollOK(p)'
    BY <1>2, <1>4, <1>6 DEF PollOK, Works, Saves, Loaded
<1>8. QED  BY <1>4, <1>5, <1>7, PollsKept

------------------------------------------------------------------------------
(* The invariant's steps.                                                   *)

\* Polls that do not move stay true.
LEMMA PollsUnchanged ==
    ASSUME Base, Grows, RowsStay, poll' = poll
    PROVE  poll' \in [Polls -> PollType] /\ \A q \in Polls : PollOK(q)'
<1>1. poll \in [Polls -> PollType]
    BY DEF Base, Types
<1>2. ASSUME NEW q \in Polls PROVE PollOK(q)'
    <2>1. poll'[q] = poll[q] /\ poll[q] \in PollType
        BY <1>1
    <2>2. \A c \in poll[q].todo \cup {poll[q].entity} : c # NoRow => c.event \in Events
        BY <2>1, PollFields DEF AnyEntity
    <2>3. QED  BY <2>1, <2>2, PollKept DEF RowsStay
<1>3. QED  BY <1>1, <1>2

\* The counters are within their bounds, and what was added is an event.
LEMMA Counters ==
    ASSUME Base
    PROVE  /\ added \in Nat /\ added <= MaxEvents /\ Added \subseteq Events
           /\ faults \in Nat /\ faults <= MaxFaults
BY Constants DEF Base, Types, Added, Events

\* Nothing is published and nothing fails.
LEMMA GhostsGrow ==
    ASSUME Base, published' = published, failures' = failures
    PROVE  Grows
BY DEF Base, Types, Grows

\* Before any event the invariant holds.
LEMMA BaseInit == Init => Base
<1> SUFFICES ASSUME Init PROVE Base
    OBVIOUS
<1> USE Constants DEF Init
<1>1. Types
    <2>1. poll \in [Polls -> PollType]
        BY IdleType
    <2>2. added \in 0 .. MaxEvents /\ faults \in 0 .. MaxFaults /\ failures \in [Events -> Nat]
        OBVIOUS
    <2>3. urgent \subseteq Added /\ published \subseteq Added /\ row \in [Events -> Rows \cup {NoRow}]
        OBVIOUS
    <2>4. QED  BY <2>1, <2>2, <2>3 DEF Types
<1>2. \A e \in Events : RowOK(e)
    BY DEF RowOK, Added, Events
<1>3. \A p \in Polls : PollOK(p)
    BY DEF PollOK, Idle, Loaded, Works, Saves
<1>4. QED  BY <1>1, <1>2, <1>3 DEF Base

\* addToOutbox() adds a row that says nothing of its event.
LEMMA BaseAdd == Base /\ Add => Base'
<1> SUFFICES ASSUME Base, Add PROVE Base'
    OBVIOUS
<1>1. /\ added < MaxEvents /\ added' = added + 1 /\ urgent' \in {urgent, urgent \cup {added'}}
      /\ UNCHANGED <<overdue, running, ticking, poll, faults, published, failures, overlapped, disorder>>
    BY DEF Add, processVars, ghosts
<1>2. PICK e : e = added'
    OBVIOUS
<1>3. PICK r : r = [status |-> "pending", retries |-> 0]
    OBVIOUS
<1>4. row' = [row EXCEPT ![e] = r]
    BY <1>2, <1>3 DEF Add
<1>5. e \in Events /\ added \in Nat /\ row \in [Events -> Rows \cup {NoRow}] /\ r \in Rows
    BY <1>1, <1>2, <1>3, Counters, Constants DEF Events, Base, Types, Rows, Statuses
<1>6. Grows
    BY <1>1, GhostsGrow
<1>7. row'[e] = r /\ \A f \in Events \ {e} : row'[f] = row[f]
    BY <1>4, <1>5
<1>8. RowsStay
    BY <1>5, <1>7, Constants DEF RowsStay
<1>9. RowOK(e)'
    <2>1. row'[e] # NoRow /\ row'[e].status = "pending" /\ row'[e].retries = 0
        BY <1>3, <1>5, <1>7, Constants
    <2>2. e \in Added'
        BY <1>1, <1>2, <1>5 DEF Added
    <2>3. failures'[e] \in Nat
        BY <1>5, <1>6 DEF Grows
    <2>4. Earned(e, row[e].status, row[e].retries)'
        BY <2>1, <2>3 DEF Earned
    <2>5. QED  BY <2>1, <2>2, <2>4 DEF RowOK
<1>10. ASSUME NEW f \in Events, f # e PROVE RowOK(f)'
    <2>1. row'[f] = row[f] /\ (f \in Added' => f \in Added)
        BY <1>1, <1>2, <1>5, <1>7, <1>10 DEF Added, Events
    <2>2. added' \in Nat /\ added <= added' /\ RowOK(f) /\ failures \in [Events -> Nat]
        BY <1>1, <1>5 DEF Base, Types
    <2>3. QED  BY <1>5, <1>6, <2>1, <2>2, RowKept
<1>11. poll' \in [Polls -> PollType] /\ \A q \in Polls : PollOK(q)'
    BY <1>1, <1>6, <1>8, PollsUnchanged
<1>12. Types'
    <2>1. added' \in 0 .. MaxEvents /\ urgent' \subseteq Added' /\ published' \subseteq Added'
        BY <1>1, <1>5, Constants DEF Base, Types, Added
    <2>2. row' \in [Events -> Rows \cup {NoRow}]
        BY <1>4, <1>5
    <2>3. QED  BY <1>1, <1>11, <2>1, <2>2 DEF Base, Types
<1>13. QED  BY <1>9, <1>10, <1>11, <1>12 DEF Base

\* cleanupOldEvents() deletes a row of a published event that no poll holds.
LEMMA BaseCleanup == ASSUME NEW e \in Events, Base, Cleanup(e) PROVE Base'
<1>1. /\ row[e] # NoRow /\ row[e].status = "delivered" /\ row' = [row EXCEPT ![e] = NoRow]
      /\ \A p \in Busy : e \notin Held(p)
      /\ UNCHANGED <<added, urgent, overdue, running, ticking, poll, faults, published, failures,
                     overlapped, disorder>>
    BY DEF Cleanup, processVars, ghosts
<1>2. /\ row \in [Events -> Rows \cup {NoRow}] /\ added \in Nat /\ failures \in [Events -> Nat]
      /\ poll \in [Polls -> PollType]
    BY Counters DEF Base, Types
<1>3. Grows
    BY <1>1, GhostsGrow
<1>4. row'[e] = NoRow /\ \A f \in Events \ {e} : row'[f] = row[f]
    BY <1>1, <1>2
<1>5. RowOK(e)'
    BY <1>1, <1>4 DEF Base, RowOK, Earned
<1>6. ASSUME NEW f \in Events, f # e PROVE RowOK(f)'
    <2>1. row'[f] = row[f] /\ RowOK(f) /\ (f \in Added' => f \in Added)
        BY <1>1, <1>4, <1>6 DEF Base, Added
    <2>2. QED  BY <1>1, <1>2, <1>3, <2>1, RowKept
<1>7. ASSUME NEW q \in Polls PROVE PollOK(q)'
    <2>1. poll[q] \in PollType /\ poll'[q] = poll[q]
        BY <1>1, <1>2
    <2>2. ASSUME NEW c \in poll[q].todo \cup {poll[q].entity}, c # NoRow
          PROVE  row'[c.event] = row[c.event]
        <3>1. c.event \in Events
            BY <2>1, <2>2, PollFields DEF AnyEntity
        <3>2. CASE q \in Busy
            BY <1>1, <1>4, <2>2, <3>1, <3>2 DEF Held, Current
        <3>3. CASE q \notin Busy
            <4>1. poll[q] = Idle
                BY <3>3 DEF Busy, Base, PollOK
            <4>2. QED  BY <2>2, <4>1 DEF Idle, Loaded
        <3>4. QED  BY <3>2, <3>3
    <2>3. QED  BY <1>3, <2>1, <2>2, PollKept
<1>8. Types'
    <2>1. row' \in [Events -> Rows \cup {NoRow}]
        BY <1>1, <1>2
    <2>2. QED  BY <1>1, <2>1 DEF Base, Types, Added
<1>9. QED  BY <1>5, <1>6, <1>7, <1>8 DEF Base

\* Time says nothing of an event.
LEMMA BaseAges == ASSUME NEW e \in Events, Base, Ages(e) PROVE Base'
<1>1. UNCHANGED <<added, urgent, row, running, ticking, poll, faults, published, failures,
                  overlapped, disorder>>
    BY DEF Ages, processVars, ghosts
<1>2. QED
    BY <1>1 DEF Base, Types, Added, RowOK, Earned, EntityOK, PollOK, Works, Saves

\* A poll or a manual retry loads what the rows say.
LEMMA BaseStarts ==
    ASSUME NEW p \in Polls, Base, StartLoads(p) \/ Tick(p) \/ RetryFailed(p)
    PROVE  Base'
<1>1. /\ UNCHANGED <<added, urgent, row, overdue, faults, published, failures, disorder, ticking>>
      /\ running' \in BOOLEAN
    BY DEF StartLoads, Tick, Loads, RetryFailed, processVars, ghosts, Base, Types
<1>2. poll' \in [Polls -> PollType] /\ \A q \in Polls : PollOK(q)'
    <2>1. ASSUME NEW first \in BOOLEAN, Loads(p, first)
          PROVE  poll' \in [Polls -> PollType] /\ \A q \in Polls : PollOK(q)'
        <3> DEFINE S == {e \in Events : Due(e)}
        <3>1. PICK todo : todo = Batch(S)
            OBVIOUS
        <3>2. S # {} /\ S \in SUBSET Events
            BY <2>1 DEF Loads
        <3>3. poll' = [poll EXCEPT ![p] = Loaded("claim", first, todo)]
            BY <2>1, <3>1 DEF Loads
        <3>5. \A e \in S : e \in Events /\ row[e] # NoRow
            BY DEF Due
        <3> HIDE DEF S
        <3>6. todo # {} /\ \A c \in todo : \E e \in S : c = Entity(e)
            BY <3>1, <3>2, BatchLoads
        <3>7. \A c \in todo : \E e \in Events : row[e] # NoRow /\ c = Entity(e)
            BY <3>5, <3>6
        <3>8. QED  BY <1>1, <2>1, <3>3, <3>6, <3>7, PollStarts
    <2>2. ASSUME RetryFailed(p)
          PROVE  poll' \in [Polls -> PollType] /\ \A q \in Polls : PollOK(q)'
        <3>1. PICK some \in SUBSET {e \in Events : row[e] # NoRow /\ row[e].status = "failed"} :
                 /\ some # {}
                 /\ poll' = [poll EXCEPT ![p] = Loaded("requeue", FALSE, {Entity(e) : e \in some})]
            BY <2>2 DEF RetryFailed
        <3>2. PICK todo : todo = {Entity(e) : e \in some}
            OBVIOUS
        <3>3. poll' = [poll EXCEPT ![p] = Loaded("requeue", FALSE, todo)]
            BY <3>1, <3>2
        <3>4. todo # {} /\ \A c \in todo : \E e \in Events : row[e] # NoRow /\ c = Entity(e)
            BY <3>1, <3>2
        <3>5. QED  BY <1>1, <3>3, <3>4, PollStarts
    <2>3. QED  BY <2>1, <2>2 DEF StartLoads, Tick
<1>3. overlapped' \in BOOLEAN
    <2>1. overlapped' = overlapped \/ overlapped' = (overlapped \/ Busy # {})
        BY DEF StartLoads, Tick, Loads, RetryFailed, ghosts
    <2>2. overlapped \in BOOLEAN
        BY DEF Base, Types
    <2>3. QED  BY <2>1, <2>2, Zenon
<1>4. Grows /\ RowsStay
    BY <1>1, GhostsGrow DEF RowsStay
<1>5. \A e \in Events : RowOK(e)'
    BY <1>1, <1>4, RowsUnchanged
<1>6. Types'
    BY <1>1, <1>2, <1>3 DEF Base, Types, Added
<1>7. QED  BY <1>2, <1>5, <1>6 DEF Base

\* Starting with nothing to do, stopping and dying change no row.
LEMMA BaseProcess == Base /\ (StartEmpty \/ Stop \/ Crash) => Base'
<1> SUFFICES ASSUME Base, StartEmpty \/ Stop \/ Crash PROVE Base'
    OBVIOUS
<1>1. /\ UNCHANGED <<added, urgent, row, published, failures, overlapped, disorder>>
      /\ running' \in BOOLEAN /\ ticking' \in BOOLEAN
    BY DEF StartEmpty, Stop, Crash, ghosts
<1>2. faults' \in 0 .. MaxFaults
    BY Counters, Constants DEF StartEmpty, Stop, Crash, Base, Types
<1>3. Grows /\ RowsStay
    BY <1>1, GhostsGrow DEF RowsStay
<1>4. \A e \in Events : RowOK(e)'
    BY <1>1, <1>3, RowsUnchanged
<1>5. poll' \in [Polls -> PollType] /\ \A q \in Polls : PollOK(q)'
    <2>1. CASE Crash
        BY <2>1, IdleType DEF Crash, PollOK, Idle, Loaded, Works, Saves
    <2>2. CASE StartEmpty \/ Stop
        BY <1>3, <2>2, PollsUnchanged DEF StartEmpty, Stop
    <2>3. QED  BY <2>1, <2>2
<1>6. Types'
    BY <1>1, <1>2, <1>5 DEF Base, Types, Added
<1>7. QED  BY <1>4, <1>5, <1>6 DEF Base

\* An entity with another status, and with another retry count.
LEMMA EntityExcept ==
    ASSUME NEW c \in AnyEntity, NEW s, NEW n
    PROVE  /\ [c EXCEPT !.status = s] = [event |-> c.event, status |-> s, retries |-> c.retries]
           /\ [c EXCEPT !.retries = n, !.status = s] = [event |-> c.event, status |-> s, retries |-> n]
<1>1. DOMAIN c = {"event", "status", "retries"}
    BY DEF AnyEntity
<1> DEFINE j == [c EXCEPT !.status = s]
           k == [c EXCEPT !.retries = n, !.status = s]
<1>2. j = [f \in DOMAIN c |-> IF f = "status" THEN s ELSE c[f]]
    BY DEF AnyEntity
<1>3. k = [f \in DOMAIN c |-> IF f = "status" THEN s ELSE IF f = "retries" THEN n ELSE c[f]]
    BY DEF AnyEntity
<1> HIDE DEF j, k
<1>4. j = [event |-> c.event, status |-> s, retries |-> c.retries]
    BY <1>1, <1>2
<1>5. k = [event |-> c.event, status |-> s, retries |-> n]
    BY <1>1, <1>3
<1>6. QED  BY <1>4, <1>5 DEF j, k

\* The entities that claiming, delivering, failing and requeuing make, by their fields.
LEMMA EntityFields ==
    ASSUME NEW c \in AnyEntity
    PROVE  /\ c.event \in Events /\ c.status \in Statuses /\ c.retries \in Nat
           /\ \A s \in Statuses : /\ [c EXCEPT !.status = s] \in AnyEntity
                                  /\ [c EXCEPT !.status = s].event = c.event
                                  /\ [c EXCEPT !.status = s].status = s
                                  /\ [c EXCEPT !.status = s].retries = c.retries
           /\ /\ Requeued(c) \in AnyEntity /\ Requeued(c).event = c.event
              /\ Requeued(c).status = "pending" /\ Requeued(c).retries = 0
           /\ /\ Failed(c) \in AnyEntity /\ Failed(c).event = c.event
              /\ Failed(c).retries = c.retries + 1
              /\ Failed(c).status = IF c.retries + 1 >= MaxRetries THEN "failed" ELSE "pending"
<1>1. c.event \in Events /\ c.status \in Statuses /\ c.retries \in Nat
    BY DEF AnyEntity
<1>2. c = [event |-> c.event, status |-> c.status, retries |-> c.retries]
    BY DEF AnyEntity
<1>3. ASSUME NEW s \in Statuses
      PROVE  [c EXCEPT !.status = s] = [event |-> c.event, status |-> s, retries |-> c.retries]
    <2>1. PICK n : n = 0
        OBVIOUS
    <2>2. /\ [c EXCEPT !.status = s] = [event |-> c.event, status |-> s, retries |-> c.retries]
          /\ [c EXCEPT !.retries = n, !.status = s] = [event |-> c.event, status |-> s, retries |-> n]
        BY EntityExcept
    <2>3. QED  BY <2>2
<1>4. Requeued(c) = [event |-> c.event, status |-> "pending", retries |-> 0]
    <2>1. PICK s, n : s = "pending" /\ n = 0
        OBVIOUS
    <2>2. Requeued(c) = [c EXCEPT !.retries = n, !.status = s]
        BY <2>1 DEF Requeued, AnyEntity
    <2>3. [c EXCEPT !.retries = n, !.status = s] = [event |-> c.event, status |-> s, retries |-> n]
        BY EntityExcept
    <2>4. QED  BY <2>1, <2>2, <2>3
<1> DEFINE status == IF c.retries + 1 >= MaxRetries THEN "failed" ELSE "pending"
<1>5. Failed(c) = [event |-> c.event, status |-> status, retries |-> c.retries + 1]
    <2>1. PICK s : s = status
        OBVIOUS
    <2>2. PICK n : n = c.retries + 1
        OBVIOUS
    <2>3. Failed(c) = [c EXCEPT !.retries = n, !.status = s]
        BY <2>1, <2>2 DEF Failed, AnyEntity
    <2>4. [c EXCEPT !.retries = n, !.status = s] = [event |-> c.event, status |-> s, retries |-> n]
        BY EntityExcept
    <2>5. QED  BY <2>1, <2>2, <2>3, <2>4
<1>6. status \in Statuses
    BY DEF Statuses
<1> HIDE DEF status
<1>7. \A s \in Statuses, n \in Nat : [event |-> c.event, status |-> s, retries |-> n] \in AnyEntity
    BY <1>1 DEF AnyEntity
<1>8. c.retries + 1 \in Nat /\ "pending" \in Statuses /\ 0 \in Nat
    BY <1>1 DEF Statuses
<1>9. \A s \in Statuses : /\ [c EXCEPT !.status = s] \in AnyEntity
                          /\ [c EXCEPT !.status = s].event = c.event
                          /\ [c EXCEPT !.status = s].status = s
                          /\ [c EXCEPT !.status = s].retries = c.retries
    BY <1>1, <1>3, <1>7
<1>10. /\ Requeued(c) \in AnyEntity /\ Requeued(c).event = c.event
       /\ Requeued(c).status = "pending" /\ Requeued(c).retries = 0
    BY <1>4, <1>7, <1>8
<1>11. /\ Failed(c) \in AnyEntity /\ Failed(c).event = c.event
       /\ Failed(c).retries = c.retries + 1 /\ Failed(c).status = status
    BY <1>5, <1>6, <1>7, <1>8
<1>12. QED  BY <1>1, <1>9, <1>10, <1>11 DEF status

\* save() reads the row of an entity that says nothing untrue.
LEMMA PollReads ==
    ASSUME Base, Grows, RowsStay, NEW p \in Polls,
           NEW at \in {"claiming", "delivering", "recording", "requeuing"},
           NEW entity \in AnyEntity, row[entity.event] # NoRow,
           Earned(entity.event, entity.status, entity.retries)',
           at = "delivering" => entity.status = "delivered", Reads(p, at, entity)
    PROVE  poll' \in [Polls -> PollType] /\ \A q \in Polls : PollOK(q)'
<1>1. /\ poll \in [Polls -> PollType] /\ poll[p] \in PollType /\ PollOK(p) /\ at \in Places
      /\ failures \in [Events -> Nat] /\ row[entity.event] \in Rows
    BY EntityFields DEF Base, Types, Places
<1>2. PICK r \in Rows : r = row[entity.event]
    BY <1>1
<1>3. PICK todo : todo = {c \in poll[p].todo : c.event # entity.event}
    OBVIOUS
<1>4. Changes(p) /\ poll'[p] = [at |-> at, first |-> poll[p].first, todo |-> todo, entity |-> entity,
                                base |-> r]
    BY <1>1, <1>2, <1>3, ReadsPoll
<1>5. \A c \in todo : EntityOK(c)'
    <2> SUFFICES ASSUME NEW c \in todo PROVE EntityOK(c)'
        OBVIOUS
    <2>1. c \in AnyEntity /\ EntityOK(c)
        BY <1>1, <1>3, PollFields DEF PollOK
    <2>2. c.event \in Events
        BY <2>1, EntityFields
    <2>3. QED  BY <1>1, <2>1, <2>2, EntityStays DEF RowsStay
<1>6. EntityOK(entity)'
    BY EntityFields DEF EntityOK, RowsStay
<1>7. PollOK(p)'
    BY <1>4, <1>5, <1>6 DEF PollOK, Works, Saves
<1>8. QED  BY <1>4, <1>7, PollsKept

\* The steps in which a save() reads.
LEMMA BaseSteps ==
    ASSUME NEW p \in Polls, Base,
           ClaimReads(p) \/ Publish(p) \/ RecordReads(p) \/ RequeueReads(p)
    PROVE  Base'
<1>1. /\ UNCHANGED <<added, urgent, row, running, ticking, faults, failures, overlapped>>
      /\ published \subseteq published'
    BY DEF ClaimReads, Publish, RecordReads, RequeueReads, processVars, ghosts
<1>2. PollOK(p) /\ poll[p] \in PollType /\ failures \in [Events -> Nat] /\ disorder \in BOOLEAN
    BY DEF Base, Types
<1>3. Grows /\ RowsStay
    BY <1>1, <1>2 DEF Grows, RowsStay
<1>4. poll' \in [Polls -> PollType] /\ \A q \in Polls : PollOK(q)'
    <2>1. CASE ClaimReads(p)
        <3>1. PICK c \in poll[p].todo : Reads(p, "claiming", [c EXCEPT !.status = "processing"])
            BY <2>1 DEF ClaimReads
        <3>2. c \in AnyEntity /\ EntityOK(c) /\ "processing" \in Statuses
            BY <1>2, PollFields DEF PollOK, Statuses
        <3>3. PICK d \in AnyEntity : /\ d = [c EXCEPT !.status = "processing"] /\ d.event = c.event
                                     /\ d.status = "processing" /\ d.retries = c.retries
            BY <3>2, EntityFields
        <3>4. row[d.event] # NoRow /\ Earned(d.event, d.status, d.retries)'
            BY <1>1, <3>2, <3>3 DEF EntityOK, Earned
        <3>5. Reads(p, "claiming", d)
            BY <3>1, <3>3
        <3>6. QED  BY <1>3, <3>4, <3>5, PollReads
    <2>2. CASE Publish(p)
        <3>1. PICK c \in AnyEntity : c = poll[p].entity /\ EntityOK(c)
            BY <1>2, <2>2 DEF Publish, PollOK, Works
        <3>2. published' = published \cup {c.event} /\ Reads(p, "delivering", [c EXCEPT !.status = "delivered"])
            BY <2>2, <3>1 DEF Publish, Current
        <3>3. PICK d \in AnyEntity : /\ d = [c EXCEPT !.status = "delivered"] /\ d.event = c.event
                                     /\ d.status = "delivered" /\ d.retries = c.retries
            <4>1. "delivered" \in Statuses
                BY DEF Statuses
            <4>2. QED  BY <4>1, EntityFields
        <3>4. row[d.event] # NoRow /\ Earned(d.event, d.status, d.retries)'
            <4>1. row[c.event] # NoRow /\ c.retries <= failures[c.event]
                BY <3>1 DEF EntityOK, Earned
            <4>2. failures' = failures /\ c.event \in published'
                BY <1>1, <3>2
            <4>3. PICK e, n : e = c.event /\ n = c.retries
                OBVIOUS
            <4>4. Earned(e, "delivered", n)'
                BY <4>1, <4>2, <4>3 DEF Earned
            <4>5. QED  BY <3>3, <4>1, <4>3, <4>4
        <3>5. Reads(p, "delivering", d)
            BY <3>2, <3>3
        <3>6. QED  BY <1>3, <3>3, <3>4, <3>5, PollReads
    <2>3. CASE RecordReads(p)
        <3>1. PICK c \in AnyEntity : c = poll[p].entity /\ EntityOK(c)
            BY <1>2, <2>3 DEF RecordReads, PollOK, Works
        <3>2. Reads(p, "recording", c)
            BY <2>3, <3>1 DEF RecordReads, Current
        <3>3. Earned(c.event, c.status, c.retries)'
            BY <1>1, <3>1 DEF EntityOK, Earned
        <3>4. row[c.event] # NoRow
            BY <3>1 DEF EntityOK
        <3>5. QED  BY <1>3, <3>2, <3>3, <3>4, PollReads
    <2>4. CASE RequeueReads(p)
        <3>1. PICK c \in poll[p].todo : Reads(p, "requeuing", Requeued(c))
            BY <2>4 DEF RequeueReads
        <3>2. c \in AnyEntity /\ EntityOK(c)
            BY <1>2, PollFields DEF PollOK
        <3>3. PICK d \in AnyEntity : /\ d = Requeued(c) /\ d.event = c.event
                                     /\ d.status = "pending" /\ d.retries = 0
            BY <3>2, EntityFields
        <3>4. c.event \in Events /\ failures[c.event] \in Nat
            BY <1>2, <3>2, EntityFields
        <3>5. row[d.event] # NoRow /\ Earned(d.event, d.status, d.retries)'
            BY <1>1, <3>2, <3>3, <3>4 DEF EntityOK, Earned
        <3>6. Reads(p, "requeuing", d)
            BY <3>1, <3>3
        <3>7. QED  BY <1>3, <3>5, <3>6, PollReads
    <2>5. QED  BY <2>1, <2>2, <2>3, <2>4
<1>5. \A e \in Events : RowOK(e)'
    BY <1>1, <1>3, <1>2, RowKept, Counters DEF Base, Types, Added
<1>6. Types'
    <2>1. published' \subseteq Added'
        <3>1. CASE Publish(p)
            <4>1. poll[p].entity \in AnyEntity /\ EntityOK(poll[p].entity)
                BY <1>2, <3>1 DEF Publish, PollOK, Works
            <4>2. poll[p].entity.event \in Added
                BY <4>1, EntityFields DEF EntityOK, Base, RowOK
            <4>3. published' = published \cup {poll[p].entity.event}
                BY <3>1 DEF Publish, Current
            <4>4. QED  BY <1>1, <4>2, <4>3 DEF Base, Types, Added
        <3>2. CASE ~Publish(p)
            BY <3>2 DEF ClaimReads, RecordReads, RequeueReads, ghosts, Base, Types, Added
        <3>3. QED  BY <3>1, <3>2
    <2>2. disorder' \in BOOLEAN
        <3>1. \/ disorder' = disorder
              \/ disorder' = (disorder \/ (~overlapped /\ faults = 0 /\ OutOfTurn(Current(p).event)))
            BY DEF ClaimReads, Publish, RecordReads, RequeueReads, ghosts
        <3>2. QED  BY <1>2, <3>1, Zenon
    <2>3. QED  BY <1>1, <1>4, <2>1, <2>2 DEF Base, Types, Added
<1>7. QED  BY <1>4, <1>5, <1>6 DEF Base

\* A save that only claims keeps the entity.
LEMMA ClaimedPoll ==
    ASSUME poll \in [Polls -> PollType], NEW p \in Polls,
           poll' = [poll EXCEPT ![p].at = "publish", ![p].base = NoRow]
    PROVE  /\ Changes(p)
           /\ poll'[p] = [at |-> "publish", first |-> poll[p].first, todo |-> poll[p].todo,
                          entity |-> poll[p].entity, base |-> NoRow]
<1> DEFINE old == poll[p]
<1>1. old \in PollType
    OBVIOUS
<1>2. poll' = [poll EXCEPT ![p] = [old EXCEPT !.at = "publish", !.base = NoRow]]
    OBVIOUS
<1> HIDE DEF old
<1>3. [old EXCEPT !.at = "publish", !.base = NoRow]
         = [at |-> "publish", first |-> old.first, todo |-> old.todo, entity |-> old.entity, base |-> NoRow]
    <2>1. DOMAIN old = {"at", "first", "todo", "entity", "base"}
        BY <1>1 DEF PollType
    <2> DEFINE k == [old EXCEPT !.at = "publish", !.base = NoRow]
    <2>2. k = [f \in DOMAIN old |-> IF f = "base" THEN NoRow ELSE IF f = "at" THEN "publish" ELSE old[f]]
        BY <1>1 DEF PollType
    <2> HIDE DEF k
    <2>3. k = [at |-> "publish", first |-> old.first, todo |-> old.todo, entity |-> old.entity, base |-> NoRow]
        BY <2>1, <2>2
    <2>4. QED  BY <2>3 DEF k
<1>4. PICK r : r = [at |-> "publish", first |-> old.first, todo |-> old.todo, entity |-> old.entity,
                    base |-> NoRow]
    OBVIOUS
<1>5. r \in PollType
    BY <1>1, <1>4, PollFields DEF PollType, Places
<1>6. poll' = [poll EXCEPT ![p] = r]
    BY <1>2, <1>3, <1>4
<1>7. QED  BY <1>4, <1>5, <1>6, OneChanges DEF old

\* A poll goes on with its entity, or with a changed one.
LEMMA PollGoesOn ==
    ASSUME Base, Grows, RowsStay, NEW p \in Polls, NEW at \in {"publish", "record"}, NEW d \in AnyEntity,
           EntityOK(d)', Changes(p),
           poll'[p] = [at |-> at, first |-> poll[p].first, todo |-> poll[p].todo, entity |-> d,
                       base |-> NoRow]
    PROVE  poll' \in [Polls -> PollType] /\ \A q \in Polls : PollOK(q)'
<1>1. poll[p] \in PollType /\ PollOK(p) /\ failures \in [Events -> Nat]
    BY DEF Base, Types
<1>2. \A c \in poll[p].todo : EntityOK(c)'
    <2> SUFFICES ASSUME NEW c \in poll[p].todo PROVE EntityOK(c)'
        OBVIOUS
    <2>1. c \in AnyEntity /\ EntityOK(c)
        BY <1>1, PollFields DEF PollOK
    <2>2. c.event \in Events
        BY <2>1, EntityFields
    <2>3. QED  BY <1>1, <2>1, <2>2, EntityStays DEF RowsStay
<1>3. PollOK(p)'
    BY <1>2 DEF PollOK, Works, Saves, EntityOK
<1>4. QED  BY <1>3, PollsKept

\* The steps in which a save() writes, or fails with or without having written.
LEMMA BaseWrites ==
    ASSUME NEW p \in Polls, Base,
           ClaimWrites(p) \/ DeliverWrites(p) \/ RecordWrites(p) \/ RequeueWrites(p)
              \/ SaveFails(p) \/ LeavesLoop(p)
    PROVE  Base'
<1>1. /\ UNCHANGED <<added, urgent, running, published, overlapped, disorder>>
      /\ Works(p) /\ (row' = row \/ Writes(p))
    BY DEF ClaimWrites, DeliverWrites, RecordWrites, RequeueWrites, SaveFails, LeavesLoop,
           processVars, ghosts, Works
<1>2. /\ PollOK(p) /\ poll[p] \in PollType /\ poll \in [Polls -> PollType]
      /\ failures \in [Events -> Nat] /\ ticking \in BOOLEAN
    BY DEF Base, Types
<1>3. PICK c \in AnyEntity : c = poll[p].entity /\ c.event \in Events /\ c.retries \in Nat /\ EntityOK(c)
    BY <1>1, <1>2, EntityFields DEF PollOK
<1>4. Grows
    <2>1. CASE SaveFails(p)
        <3>1. failures' = [failures EXCEPT ![c.event] = @ + 1]
            BY <1>3, <2>1 DEF SaveFails, Current
        <3>2. QED  BY <1>1, <1>2, <1>3, <3>1 DEF Grows
    <2>2. CASE ~SaveFails(p)
        <3>1. failures' = failures
            BY <2>2 DEF ClaimWrites, DeliverWrites, RecordWrites, RequeueWrites, LeavesLoop, ghosts
        <3>2. QED  BY <1>1, <3>1, GhostsGrow
    <2>3. QED  BY <2>1, <2>2
<1>5. row' \in [Events -> Rows \cup {NoRow}] /\ RowsStay /\ \A e \in Events : RowOK(e)'
    BY <1>1, <1>4, RowWritten
<1>6. /\ poll' \in [Polls -> PollType] /\ \A q \in Polls : PollOK(q)'
      /\ ticking' \in BOOLEAN
    <2>1. CASE ClaimWrites(p)
        <3>1. poll' = [poll EXCEPT ![p].at = "publish", ![p].base = NoRow] /\ ticking' = ticking
            BY <2>1 DEF ClaimWrites, processVars
        <3>2. Changes(p) /\ poll'[p] = [at |-> "publish", first |-> poll[p].first, todo |-> poll[p].todo,
                                        entity |-> c, base |-> NoRow]
            BY <1>2, <1>3, <3>1, ClaimedPoll
        <3>3. row'[c.event] # NoRow
            BY <1>3, <1>5 DEF EntityOK, RowsStay
        <3>4. PICK e \in Events, s \in Statuses, n \in Nat : e = c.event /\ s = c.status /\ n = c.retries
            BY EntityFields
        <3>5. Earned(e, s, n)'
            BY <1>2, <1>3, <1>4, <3>4, EarnedGrows DEF EntityOK
        <3>6. EntityOK(c)'
            BY <3>3, <3>4, <3>5 DEF EntityOK
        <3>7. Changes(p) /\ "publish" \in {"publish", "record"}
            BY <3>2
        <3>8. poll' \in [Polls -> PollType] /\ \A q \in Polls : PollOK(q)'
            BY <1>4, <1>5, <3>2, <3>6, <3>7, PollGoesOn
        <3>9. QED  BY <1>2, <3>1, <3>8
    <2>2. CASE SaveFails(p)
        <3>1. PICK d \in AnyEntity : /\ d = Failed(c) /\ d.event = c.event /\ d.retries = c.retries + 1
                                     /\ d.status = IF c.retries + 1 >= MaxRetries THEN "failed" ELSE "pending"
            BY EntityFields
        <3>2. poll' = [poll EXCEPT ![p].at = "record", ![p].entity = d, ![p].base = NoRow] /\ ticking' = ticking
            <4>1. poll' = [poll EXCEPT ![p].at = "record", ![p].entity = Failed(@), ![p].base = NoRow]
                BY <2>2 DEF SaveFails
            <4>2. ticking' = ticking
                BY <2>2 DEF SaveFails, processVars
            <4>3. QED  BY <1>2, <1>3, <3>1, <4>1, <4>2
        <3>3. Changes(p) /\ poll'[p] = [at |-> "record", first |-> poll[p].first, todo |-> poll[p].todo,
                                        entity |-> d, base |-> NoRow]
            <4>1. "record" \in Places
                BY DEF Places
            <4>2. QED  BY <1>2, <3>2, <4>1, MovesPoll
        <3>4. row'[d.event] # NoRow /\ Earned(d.event, d.status, d.retries)'
            <4>1. row'[c.event] # NoRow /\ c.retries <= failures[c.event]
                BY <1>3, <1>5 DEF EntityOK, RowsStay, Earned
            <4>2. failures'[c.event] = failures[c.event] + 1 /\ failures[c.event] \in Nat
                BY <1>2, <1>3, <2>2 DEF SaveFails, Current
            <4>3. PICK e, s, n : e = d.event /\ s = d.status /\ n = d.retries
                OBVIOUS
            <4>4. /\ s # "delivered" /\ n <= failures'[e]
                  /\ s = "failed" => failures'[e] >= MaxRetries
                BY <1>3, <3>1, <4>1, <4>2, <4>3, Constants
            <4>5. Earned(e, s, n)'
                BY <4>4 DEF Earned
            <4>6. QED  BY <3>1, <4>1, <4>3, <4>5
        <3>5. EntityOK(d)'
            BY <3>4 DEF EntityOK
        <3>6. Changes(p) /\ "record" \in {"publish", "record"}
            BY <3>3
        <3>7. poll' \in [Polls -> PollType] /\ \A q \in Polls : PollOK(q)'
            BY <1>4, <1>5, <3>3, <3>5, <3>6, PollGoesOn
        <3>8. QED  BY <1>2, <3>2, <3>7
    <2>3. CASE DeliverWrites(p) \/ RecordWrites(p) \/ RequeueWrites(p) \/ LeavesLoop(p)
        <3>1. NextOr(p, "claim") \/ NextOr(p, "requeue") \/ Ends(p)
            BY <2>3 DEF DeliverWrites, RecordWrites, RequeueWrites, LeavesLoop
        <3>2. QED  BY <1>4, <1>5, <3>1, NextPoll
    <2>4. QED  BY <2>1, <2>2, <2>3
<1>7. faults' \in 0 .. MaxFaults
    BY Counters, Constants DEF ClaimWrites, DeliverWrites, RecordWrites, RequeueWrites, SaveFails,
           LeavesLoop, Base, Types
<1>8. Types'
    BY <1>1, <1>4, <1>5, <1>6, <1>7 DEF Base, Types, Added, Grows
<1>9. QED  BY <1>5, <1>6, <1>8 DEF Base

\* Every step keeps rows and entities true.
LEMMA BaseStep == Base /\ [Next]_vars => Base'
<1> SUFFICES ASSUME Base, [Next]_vars PROVE Base'
    OBVIOUS
<1>1. CASE Add
    BY <1>1, BaseAdd
<1>2. CASE \E e \in Events : Ages(e) \/ Cleanup(e)
    BY <1>2, BaseAges, BaseCleanup
<1>3. CASE \E p \in Polls : StartLoads(p) \/ Tick(p) \/ RetryFailed(p)
    BY <1>3, BaseStarts
<1>4. CASE StartEmpty \/ Stop \/ Crash
    BY <1>4, BaseProcess
<1>5. CASE \E p \in Polls : Step(p) \/ SaveFails(p) \/ LeavesLoop(p)
    BY <1>5, BaseSteps, BaseWrites DEF Step
<1>6. CASE UNCHANGED vars
    BY <1>6 DEF vars, processVars, ghosts, Base, Types, Added, RowOK, Earned, EntityOK, PollOK, Works,
                Saves
<1>7. QED  BY <1>1, <1>2, <1>3, <1>4, <1>5, <1>6 DEF Next

\* What rows and entities say of an event is true, whatever wrote them.
THEOREM BaseInvariant == Spec => []Base
<1>1. QED  BY BaseInit, BaseStep, PTL DEF Spec

\* Rows, polls and counters keep their types; an idle poll holds nothing.
THEOREM TypeCorrect == Spec => []TypeOK
<1>1. Base => TypeOK
    <2> SUFFICES ASSUME Base PROVE TypeOK
        OBVIOUS
    <2>1. ASSUME NEW c \in AnyEntity, EntityOK(c) PROVE c \in Entities
        <3>1. c.event \in Added
            BY <2>1, EntityFields DEF EntityOK, Base, RowOK
        <3>2. QED  BY <2>1, <3>1 DEF AnyEntity, Entities
    <2>2. ASSUME NEW p \in Polls
          PROVE  /\ p \notin Busy => poll[p] = Idle
                 /\ poll[p].at \in {"claim", "requeue"} => poll[p].todo # {}
                 /\ poll[p].todo \subseteq Entities
                 /\ Current(p) \in Entities \cup {NoRow}
                 /\ poll[p].base \in Rows \cup {NoRow}
        <3>1. poll[p] \in PollType /\ PollOK(p)
            BY DEF Base, Types
        <3>2. p \notin Busy => poll[p] = Idle
            BY <3>1 DEF Busy, PollOK
        <3>3. poll[p].todo \subseteq Entities
            BY <2>1, <3>1, PollFields DEF PollOK
        <3>4. Current(p) \in Entities \cup {NoRow}
            <4>1. CASE Works(p)
                BY <2>1, <3>1, <4>1 DEF PollOK, Current
            <4>2. CASE ~Works(p)
                BY <3>1, <4>2 DEF PollOK, Works, Current, Idle, Loaded
            <4>3. QED  BY <4>1, <4>2
        <3>5. QED  BY <3>1, <3>2, <3>3, <3>4, PollFields DEF PollOK
    <2>3. {running, ticking, overlapped, disorder} \subseteq BOOLEAN
        BY Zenon DEF Base, Types
    <2>4. QED  BY <2>2, <2>3 DEF Base, Types, TypeOK
<1>2. QED  BY <1>1, BaseInvariant, PTL

\* No event loss: a row that says delivered, or that is cleaned up, is of an
\* event that was published.
THEOREM DeliveredPublished == Spec => []DeliveredWasPublished
<1>1. Base => DeliveredWasPublished
    BY Counters DEF Base, RowOK, Earned, DeliveredWasPublished
<1>2. QED  BY <1>1, BaseInvariant, PTL

\* An event is given up only after maxRetries failures of its own.
THEOREM GivenUpEarned == Spec => []GivenUpAfterRetries
<1>1. Base => GivenUpAfterRetries
    BY Counters DEF Base, RowOK, Earned, GivenUpAfterRetries
<1>2. QED  BY <1>1, BaseInvariant, PTL

------------------------------------------------------------------------------
(* While no poll overlaps another and nothing fails, the only poll holds the *)
(* events that come before those it holds.                                   *)

Calm == ~overlapped /\ faults = 0

Has(r, e) == (\E c \in r.todo : c.event = e) \/ (r.entity # NoRow /\ r.entity.event = e)

RowCalm(e) ==
    row[e] # NoRow =>
        /\ row[e].status # "failed"
        /\ row[e].status = "pending" => e \notin published
        /\ row[e].status = "processing" =>
              \E p \in Polls : poll[p].at \in {"publish", "delivering"} /\ poll[p].entity.event = e

TodoCalm(p) ==
    \A c \in poll[p].todo :
        /\ row[c.event].status = "pending"
        /\ Works(p) => /\ c.event # poll[p].entity.event
                       /\ ~Precedes(c.event, poll[p].entity.event)

EntityCalm(p) ==
    /\ poll[p].at = "claiming" => /\ row[poll[p].entity.event].status = "pending"
                                  /\ poll[p].base.status = "pending"
                                  /\ poll[p].entity.status = "processing"
    /\ poll[p].at = "publish" => /\ row[poll[p].entity.event].status = "processing"
                                 /\ poll[p].entity.event \notin published
    /\ poll[p].at = "delivering" => /\ row[poll[p].entity.event].status = "processing"
                                    /\ poll[p].base.status = "processing"

\* With an event a poll holds the older ones of its priority that wait.
Closed(p) ==
    \A e \in Events : Has(poll[p], e) =>
        \A f \in Added \ published : f < e /\ (f \in urgent <=> e \in urgent) => Has(poll[p], f)

PollCalm(p) ==
    /\ poll[p].at \in {"idle", "claim", "claiming", "publish", "delivering"}
    /\ TodoCalm(p) /\ EntityCalm(p) /\ Closed(p)

CalmInv ==
    Calm => /\ ~disorder
            /\ \A e \in Events : RowCalm(e)
            /\ \A p \in Polls : PollCalm(p)
            /\ \A p, q \in Busy : p = q

\* The polls that idle are calm.
LEMMA IdleIsCalm ==
    ASSUME NEW q, poll'[q] = Idle
    PROVE  PollCalm(q)'
BY DEF PollCalm, TodoCalm, EntityCalm, Closed, Has, Works, Idle, Loaded

\* It is enough to look at the poll that moves.
LEMMA CalmOne ==
    ASSUME Base, Calm, CalmInv, NEW p \in Polls, p \in Busy \/ Busy = {},
           \A q \in Polls \ {p} : poll'[q] = poll[q],
           ~disorder', \A e \in Events : RowCalm(e)', PollCalm(p)'
    PROVE  CalmInv'
<1>1. \A q \in Polls \ {p} : poll[q] = Idle
    <2> SUFFICES ASSUME NEW q \in Polls, q # p PROVE poll[q] = Idle
        OBVIOUS
    <2>1. q \notin Busy
        BY DEF CalmInv
    <2>2. QED  BY <2>1 DEF Busy, Base, PollOK
<1>2. \A q \in Polls : PollCalm(q)'
    BY <1>1, IdleIsCalm
<1>3. \A q \in Polls \ {p} : poll'[q].at = "idle"
    BY <1>1 DEF Idle, Loaded
<1>4. \A q, r \in Busy' : q = r
    BY <1>3 DEF Busy
<1>5. QED  BY <1>2, <1>4 DEF CalmInv

\* Only the poll that runs takes an event.
LEMMA TakenByOne ==
    ASSUME Base, Calm, CalmInv, NEW p \in Polls, p \in Busy \/ Busy = {}, NEW e \in Events,
           row[e] # NoRow, row[e].status = "processing"
    PROVE  p \in Busy /\ poll[p].at \in {"publish", "delivering"} /\ poll[p].entity.event = e
<1>1. PICK q \in Polls : poll[q].at \in {"publish", "delivering"} /\ poll[q].entity.event = e
    BY DEF CalmInv, RowCalm
<1>2. q \in Busy
    BY <1>1 DEF Busy
<1>3. q = p
    BY <1>2 DEF CalmInv
<1>4. QED  BY <1>1, <1>2, <1>3

\* At first nothing is loaded.
LEMMA CalmInit == Init => CalmInv
BY DEF Init, CalmInv, RowCalm, PollCalm, TodoCalm, EntityCalm, Closed, Has, Works, Idle, Loaded, Busy

\* An added event comes after all others of its priority.
LEMMA CalmAdd == ASSUME Base, Calm, CalmInv, Add PROVE CalmInv'
<1>1. /\ added < MaxEvents /\ added' = added + 1 /\ urgent' \in {urgent, urgent \cup {added'}}
      /\ UNCHANGED <<poll, published, disorder>>
    BY DEF Add, processVars, ghosts
<1>2. PICK n : n = added'
    OBVIOUS
<1>3. /\ added \in Nat /\ n = added + 1 /\ n \notin Added /\ n \in Events /\ published \subseteq Added
      /\ row \in [Events -> Rows \cup {NoRow}] /\ poll \in [Polls -> PollType]
    BY <1>1, <1>2, Counters, Constants DEF Base, Types, Added, Events
<1>4. /\ \A e \in Events \ {n} : row'[e] = row[e]
      /\ row'[n].status = "pending"
    BY <1>2, <1>3 DEF Add
<1>5. \A e \in Events \ {n} : e \in urgent' <=> e \in urgent
    BY <1>1, <1>2
<1>6. ASSUME NEW e \in Events PROVE RowCalm(e)'
    <2>1. RowCalm(e) /\ poll' = poll /\ published' = published
        BY <1>1 DEF CalmInv
    <2>2. CASE e = n
        BY <1>1, <1>3, <1>4, <2>1, <2>2 DEF RowCalm
    <2>3. CASE e # n
        BY <1>4, <2>1, <2>3 DEF RowCalm
    <2>4. QED  BY <2>2, <2>3
<1>7. \A p \in Polls : \A e \in Events : Has(poll[p], e) => e \in Added /\ e # n
    <2> SUFFICES ASSUME NEW p \in Polls, NEW e \in Events, Has(poll[p], e) PROVE e \in Added /\ e # n
        OBVIOUS
    <2>1. PollOK(p) /\ poll[p] \in PollType /\ RowOK(e)
        BY <1>3 DEF Base
    <2>2. row[e] # NoRow
        <3>1. CASE \E c \in poll[p].todo : c.event = e
            BY <2>1, <3>1 DEF PollOK, EntityOK
        <3>2. CASE poll[p].entity # NoRow /\ poll[p].entity.event = e
            BY <2>1, <3>2 DEF PollOK, EntityOK, Works, Idle, Loaded
        <3>3. QED  BY <3>1, <3>2 DEF Has
    <2>3. QED  BY <1>3, <2>1, <2>2 DEF RowOK
<1>8. ASSUME NEW p \in Polls PROVE PollCalm(p)'
    <2>1. PollCalm(p) /\ poll'[p] = poll[p] /\ poll[p] \in PollType
        BY <1>1, <1>3 DEF CalmInv
    <2>2. \A c \in poll[p].todo : c.event \in Events \ {n}
        BY <1>7, <2>1, PollFields, EntityFields DEF Has
    <2>3. Works(p) => poll[p].entity.event \in Events \ {n}
        <3>1. Works(p) => poll[p].entity \in AnyEntity
            BY DEF Base, PollOK
        <3>2. QED  BY <1>7, <3>1, Constants, EntityFields DEF Has
    <2>4. TodoCalm(p)'
        <3> SUFFICES ASSUME NEW c \in poll[p].todo
                     PROVE  /\ row'[c.event].status = "pending"
                            /\ Works(p) => /\ c.event # poll[p].entity.event
                                           /\ ~Precedes(c.event, poll[p].entity.event)'
            BY <2>1 DEF TodoCalm, Works
        <3>1. row'[c.event].status = "pending"
            BY <1>4, <2>1, <2>2 DEF PollCalm, TodoCalm
        <3>2. ASSUME Works(p)
              PROVE  c.event # poll[p].entity.event /\ ~Precedes(c.event, poll[p].entity.event)'
            <4>1. PICK d, e \in Events \ {n} : d = c.event /\ e = poll[p].entity.event
                BY <2>2, <2>3, <3>2
            <4>2. d # e /\ ~Precedes(d, e)
                BY <2>1, <3>2, <4>1 DEF PollCalm, TodoCalm
            <4>3. ~Precedes(d, e)'
                BY <1>5, <4>2 DEF Precedes
            <4>4. QED  BY <2>1, <4>1, <4>2, <4>3 DEF Precedes
        <3>3. QED  BY <3>1, <3>2
    <2>5. EntityCalm(p)'
        BY <1>1, <1>4, <2>1, <2>3 DEF PollCalm, EntityCalm, Works
    <2>6. Closed(p)'
        <3> SUFFICES ASSUME NEW e \in Events, Has(poll[p], e), NEW f \in Added' \ published', f < e,
                            f \in urgent' <=> e \in urgent'
                     PROVE  Has(poll[p], f)
            BY <2>1 DEF Closed
        <3>1. e \in Added /\ e # n
            BY <1>7
        <3>2. f \in Added \ published /\ f # n /\ f \in Events
            BY <1>1, <1>3, <3>1, Counters DEF Added, Events
        <3>3. f \in urgent <=> e \in urgent
            BY <1>5, <3>1, <3>2
        <3>4. QED  BY <2>1, <3>2, <3>3 DEF PollCalm, Closed
    <2>7. QED  BY <2>1, <2>4, <2>5, <2>6 DEF PollCalm
<1>9. QED  BY <1>1, <1>6, <1>8 DEF CalmInv, Busy

\* A cleaned up event is held by no poll.
LEMMA CalmCleanup == ASSUME NEW e \in Events, Base, Calm, CalmInv, Cleanup(e) PROVE CalmInv'
<1>1. /\ row[e] # NoRow /\ row[e].status = "delivered" /\ row' = [row EXCEPT ![e] = NoRow]
      /\ \A p \in Busy : e \notin Held(p)
      /\ UNCHANGED <<added, urgent, poll, published, disorder>>
    BY DEF Cleanup, processVars, ghosts
<1>2. row \in [Events -> Rows \cup {NoRow}] /\ poll \in [Polls -> PollType]
    BY DEF Base, Types
<1>3. row'[e] = NoRow /\ \A f \in Events \ {e} : row'[f] = row[f]
    BY <1>1, <1>2
<1>4. ASSUME NEW f \in Events PROVE RowCalm(f)'
    BY <1>1, <1>3 DEF CalmInv, RowCalm
<1>5. ASSUME NEW p \in Polls PROVE PollCalm(p)'
    <2>1. PollCalm(p) /\ poll'[p] = poll[p] /\ poll[p] \in PollType
        BY <1>1, <1>2 DEF CalmInv
    <2>2. \A c \in poll[p].todo : c.event \in Events \ {e}
        <3> SUFFICES ASSUME NEW c \in poll[p].todo PROVE c.event \in Events \ {e}
            OBVIOUS
        <3>1. c.event \in Events
            BY <2>1, PollFields, EntityFields
        <3>2. row[c.event].status = "pending"
            BY <2>1 DEF PollCalm, TodoCalm
        <3>3. QED  BY <1>1, <3>1, <3>2
    <2>3. Works(p) => poll[p].entity.event \in Events \ {e}
        <3> SUFFICES ASSUME Works(p) PROVE poll[p].entity.event \in Events \ {e}
            OBVIOUS
        <3>1. poll[p].entity \in AnyEntity
            BY DEF Base, PollOK
        <3>2. row[poll[p].entity.event].status \in {"pending", "processing"}
            BY <2>1 DEF PollCalm, EntityCalm, Works
        <3>3. QED  BY <1>1, <3>1, <3>2, EntityFields
    <2>4. TodoCalm(p)'
        <3>1. \A f, g : Precedes(f, g)' <=> Precedes(f, g)
            BY <1>1 DEF Precedes
        <3>2. QED  BY <1>3, <2>1, <2>2, <3>1 DEF PollCalm, TodoCalm, Works
    <2>5. EntityCalm(p)'
        BY <1>1, <1>3, <2>1, <2>3 DEF PollCalm, EntityCalm, Works
    <2>6. Closed(p)'
        BY <1>1, <2>1 DEF PollCalm, Closed, Added
    <2>7. QED  BY <2>1, <2>4, <2>5, <2>6 DEF PollCalm
<1>6. QED  BY <1>1, <1>4, <1>5 DEF CalmInv, Busy

\* A poll that loads while no other runs is given pending events.
LEMMA CalmLoads ==
    ASSUME Base, Calm, CalmInv, NEW p \in Polls, NEW first \in BOOLEAN, Loads(p, first), Calm'
    PROVE  CalmInv'
<1> DEFINE S == {e \in Events : Due(e)}
<1>1. UNCHANGED <<added, urgent, row, published, disorder>>
    BY DEF Loads
<1>2. Busy = {}
    <2>1. overlapped' = (overlapped \/ Busy # {}) /\ ~overlapped'
        BY DEF Loads, Calm
    <2>2. QED  BY <2>1, Zenon
<1>3. PICK r : r = Loaded("claim", first, Batch(S))
    OBVIOUS
<1>4. poll'[p] = r /\ \A q \in Polls \ {p} : poll'[q] = poll[q]
    BY <1>3 DEF Loads, Base, Types
<1>5. \A e \in Events : row[e] # NoRow => row[e].status # "processing"
    BY <1>2, TakenByOne
<1>6. \A e \in S : e \in Events /\ row[e] # NoRow /\ row[e].status = "pending"
    BY <1>5 DEF Due
<1>7. \A e \in Added \ published : e \in S
    <2> SUFFICES ASSUME NEW e \in Added, e \notin published PROVE e \in S
        OBVIOUS
    <2>1. e \in Events /\ RowOK(e) /\ RowCalm(e)
        BY Counters DEF Base, CalmInv
    <2>2. row[e] # NoRow /\ row[e] \in Rows
        BY <2>1 DEF RowOK, Base, Types
    <2>3. row[e].status = "pending"
        BY <1>5, <2>1, <2>2 DEF RowOK, Earned, RowCalm, Rows, Statuses
    <2>4. QED  BY <2>1, <2>2, <2>3 DEF Due
<1>8. S \in SUBSET Events
    OBVIOUS
<1> HIDE DEF S
<1>9. r.at = "claim" /\ r.todo = Batch(S) /\ r.entity = NoRow
    BY <1>3 DEF Loaded
<1>10. \A c \in r.todo : c.event \in S
    BY <1>8, <1>9, BatchLoads DEF Entity
<1>11. \A e \in Events : RowCalm(e)'
    BY <1>1, <1>5 DEF CalmInv, RowCalm
<1>12. TodoCalm(p)'
    BY <1>1, <1>4, <1>6, <1>9, <1>10 DEF TodoCalm, Works
<1>13. EntityCalm(p)'
    BY <1>4, <1>9 DEF EntityCalm
<1>14. Closed(p)'
    <2> SUFFICES ASSUME NEW e \in Events, Has(r, e), NEW f \in Added \ published, f < e,
                        f \in urgent <=> e \in urgent
                 PROVE  Has(r, f)
        BY <1>1, <1>4 DEF Closed, Added
    <2>1. \E c \in Batch(S) : c.event = e
        BY <1>9 DEF Has
    <2>2. e \in S /\ f \in S
        BY <1>7, <1>9, <1>10, <2>1
    <2>3. Precedes(f, e)
        BY Order
    <2>4. Entity(f) \in Batch(S) /\ Entity(f).event = f
        BY <1>8, <2>1, <2>2, <2>3, BatchClosed DEF Entity
    <2>5. QED  BY <1>9, <2>4 DEF Has
<1>15. PollCalm(p)'
    BY <1>4, <1>9, <1>12, <1>13, <1>14 DEF PollCalm
<1>16. QED  BY <1>1, <1>2, <1>4, <1>11, <1>15, CalmOne DEF CalmInv

\* The poll takes the first of its entities.
LEMMA CalmClaimReads == ASSUME NEW p \in Polls, Base, Calm, CalmInv, ClaimReads(p) PROVE CalmInv'
<1>1. poll[p].at = "claim" /\ UNCHANGED <<added, urgent, row, published, disorder>>
    BY DEF ClaimReads, ghosts
<1>2. /\ poll[p] \in PollType /\ poll \in [Polls -> PollType] /\ PollOK(p) /\ PollCalm(p)
      /\ row \in [Events -> Rows \cup {NoRow}]
    BY DEF Base, Types, CalmInv
<1>3. PICK c \in poll[p].todo : /\ \A other \in poll[p].todo : ~Precedes(other.event, c.event)
                                /\ Reads(p, "claiming", [c EXCEPT !.status = "processing"])
    BY DEF ClaimReads
<1>4. PICK d \in AnyEntity : /\ d = [c EXCEPT !.status = "processing"] /\ d.event = c.event
                             /\ d.status = "processing"
    <2>1. c \in AnyEntity /\ "processing" \in Statuses
        BY <1>2, PollFields DEF Statuses
    <2>2. QED  BY <2>1, EntityFields
<1>5. PICK e : e = d.event
    OBVIOUS
<1>6. PICK todo : todo = {x \in poll[p].todo : x.event # e}
    OBVIOUS
<1>7. PICK r : r = row[e]
    OBVIOUS
<1>8. /\ Changes(p)
      /\ poll'[p] = [at |-> "claiming", first |-> poll[p].first, todo |-> todo, entity |-> d, base |-> r]
    <2>1. Reads(p, "claiming", d) /\ "claiming" \in Places /\ row[d.event] \in Rows \cup {NoRow}
        BY <1>2, <1>3, <1>4, EntityFields DEF Places
    <2>2. QED  BY <1>2, <1>5, <1>6, <1>7, <2>1, ReadsPoll
<1>9. row[e].status = "pending"
    BY <1>2, <1>4, <1>5 DEF PollCalm, TodoCalm
<1>10. p \in Busy
    BY <1>1 DEF Busy
<1>11. \A f \in Events : RowCalm(f)'
    <2>1. \A f \in Events : row[f] # NoRow => row[f].status # "processing"
        BY <1>1, <1>10, TakenByOne
    <2>2. QED  BY <1>1, <2>1 DEF CalmInv, RowCalm
<1>12. \A f : Has(poll'[p], f) <=> Has(poll[p], f)
    <2>1. poll[p].entity = NoRow
        BY <1>1, <1>2 DEF PollOK
    <2>2. d # NoRow
        BY Constants
    <2>3. poll'[p].todo = todo /\ poll'[p].entity = d
        BY <1>8
    <2>4. ASSUME NEW f PROVE Has(poll'[p], f) <=> Has(poll[p], f)
        <3>1. Has(poll[p], f) <=> \E x \in poll[p].todo : x.event = f
            BY <2>1 DEF Has
        <3>2. Has(poll'[p], f) <=> (\E x \in todo : x.event = f) \/ e = f
            BY <1>5, <2>2, <2>3 DEF Has
        <3>3. c \in poll[p].todo /\ c.event = e
            BY <1>4, <1>5
        <3>4. QED  BY <1>6, <3>1, <3>2, <3>3
    <2>5. QED  BY <2>4
<1>13. TodoCalm(p)'
    <2>1. poll'[p].todo = todo /\ poll'[p].entity = d
        BY <1>8
    <2>2. \A x \in todo : row[x.event].status = "pending" /\ x.event # e /\ ~Precedes(x.event, e)
        BY <1>2, <1>3, <1>4, <1>5, <1>6 DEF PollCalm, TodoCalm
    <2>3. QED  BY <1>1, <1>5, <2>1, <2>2 DEF TodoCalm, Precedes
<1>14. EntityCalm(p)'
    <2>1. /\ poll'[p].at = "claiming" /\ poll'[p].entity = d /\ poll'[p].base = r
          /\ row'[e] = row[e]
        BY <1>1, <1>8
    <2>2. row'[poll'[p].entity.event].status = "pending"
        BY <1>5, <1>9, <2>1
    <2>3. QED  BY <1>4, <1>7, <1>9, <2>1, <2>2 DEF EntityCalm
<1>15. Closed(p)'
    BY <1>1, <1>2, <1>12 DEF PollCalm, Closed, Added
<1>16. PollCalm(p)'
    BY <1>8, <1>13, <1>14, <1>15 DEF PollCalm
<1>17. QED  BY <1>1, <1>8, <1>10, <1>11, <1>16, CalmOne DEF Changes, CalmInv

\* The claim turns a pending row into a processing one.
LEMMA CalmClaimWrites == ASSUME NEW p \in Polls, Base, Calm, CalmInv, ClaimWrites(p) PROVE CalmInv'
<1>1. /\ poll[p].at = "claiming" /\ Writes(p) /\ UNCHANGED <<added, urgent, published, disorder>>
      /\ poll' = [poll EXCEPT ![p].at = "publish", ![p].base = NoRow]
    BY DEF ClaimWrites, ghosts
<1>2. /\ poll[p] \in PollType /\ poll \in [Polls -> PollType] /\ PollOK(p) /\ PollCalm(p) /\ Works(p)
      /\ row \in [Events -> Rows \cup {NoRow}]
    BY <1>1 DEF Base, Types, CalmInv, Works
<1>3. PICK d \in AnyEntity : d = poll[p].entity
    BY <1>2 DEF PollOK
<1>4. PICK e \in Events : e = d.event
    BY EntityFields
<1>5. /\ row[e].status = "pending" /\ poll[p].base.status = "pending" /\ d.status = "processing"
      /\ row[e] # NoRow
    BY <1>1, <1>2, <1>3, <1>4 DEF PollCalm, EntityCalm, PollOK, EntityOK
<1>6. PICK r \in Rows : row' = [row EXCEPT ![e] = r] /\ r.status = "processing"
    BY <1>1, <1>2, <1>3, <1>4, <1>5, WritesRow
<1>7. row'[e] = r /\ \A f \in Events \ {e} : row'[f] = row[f]
    BY <1>2, <1>6
<1>8. /\ Changes(p)
      /\ poll'[p] = [at |-> "publish", first |-> poll[p].first, todo |-> poll[p].todo, entity |-> d,
                     base |-> NoRow]
    BY <1>1, <1>2, <1>3, ClaimedPoll
<1>9. p \in Busy
    BY <1>1 DEF Busy
<1>10. e \notin published
    BY <1>5 DEF CalmInv, RowCalm
<1>11. ASSUME NEW f \in Events PROVE RowCalm(f)'
    <2>1. CASE f = e
        BY <1>3, <1>4, <1>6, <1>7, <1>8, <2>1 DEF RowCalm
    <2>2. CASE f # e
        <3>1. row[f] # NoRow => row[f].status # "processing"
            BY <1>1, <1>9, TakenByOne
        <3>2. row'[f] = row[f] /\ RowCalm(f)
            BY <1>7, <2>2 DEF CalmInv
        <3>3. QED  BY <1>1, <3>1, <3>2 DEF RowCalm
    <2>3. QED  BY <2>1, <2>2
<1>12. \A f : Has(poll'[p], f) <=> Has(poll[p], f)
    BY <1>3, <1>8 DEF Has
<1>13. TodoCalm(p)'
    <2>1. poll'[p].todo = poll[p].todo /\ poll'[p].entity = d
        BY <1>8
    <2>2. \A x \in poll[p].todo : /\ row[x.event].status = "pending" /\ x.event # e
                                  /\ ~Precedes(x.event, e) /\ x.event \in Events
        BY <1>2, <1>3, <1>4, PollFields, EntityFields DEF PollCalm, TodoCalm
    <2>3. \A x \in poll[p].todo : row'[x.event].status = "pending"
        BY <1>7, <2>2
    <2>4. QED  BY <1>1, <1>4, <2>1, <2>2, <2>3 DEF TodoCalm, Precedes
<1>14. EntityCalm(p)'
    <2>1. poll'[p].at = "publish" /\ poll'[p].entity = d
        BY <1>8
    <2>2. row'[poll'[p].entity.event].status = "processing"
        BY <1>4, <1>6, <1>7, <2>1
    <2>3. poll'[p].entity.event \notin published'
        BY <1>1, <1>4, <1>10, <2>1
    <2>4. QED  BY <2>1, <2>2, <2>3 DEF EntityCalm
<1>15. Closed(p)'
    BY <1>1, <1>2, <1>12 DEF PollCalm, Closed, Added
<1>16. PollCalm(p)'
    BY <1>8, <1>13, <1>14, <1>15 DEF PollCalm
<1>17. QED  BY <1>1, <1>8, <1>9, <1>11, <1>16, CalmOne DEF Changes, CalmInv

\* The first of a poll's events is published in its turn.
LEMMA CalmPublish == ASSUME NEW p \in Polls, Base, Calm, CalmInv, Publish(p) PROVE CalmInv'
<1>1. /\ poll[p].at = "publish" /\ UNCHANGED <<added, urgent, row>>
      /\ published' = published \cup {poll[p].entity.event}
    BY DEF Publish, Current
<1>2. /\ poll[p] \in PollType /\ poll \in [Polls -> PollType] /\ PollOK(p) /\ PollCalm(p) /\ Works(p)
      /\ row \in [Events -> Rows \cup {NoRow}]
    BY <1>1 DEF Base, Types, CalmInv, Works
<1>3. PICK c \in AnyEntity : c = poll[p].entity
    BY <1>2 DEF PollOK
<1>4. PICK e \in Events : e = c.event
    BY EntityFields
<1>5. row[e].status = "processing" /\ row[e] # NoRow /\ e \notin published
    BY <1>1, <1>2, <1>3, <1>4 DEF PollCalm, EntityCalm, PollOK, EntityOK
<1>6. PICK d \in AnyEntity : d = [c EXCEPT !.status = "delivered"] /\ d.event = e
    <2>1. "delivered" \in Statuses
        BY DEF Statuses
    <2>2. QED  BY <1>4, <2>1, EntityFields
<1>7. PICK todo : todo = {x \in poll[p].todo : x.event # e}
    OBVIOUS
<1>8. PICK r : r = row[e]
    OBVIOUS
<1>9. /\ Changes(p)
      /\ poll'[p] = [at |-> "delivering", first |-> poll[p].first, todo |-> todo, entity |-> d, base |-> r]
    <2>1. Reads(p, "delivering", d) /\ "delivering" \in Places /\ row[d.event] \in Rows \cup {NoRow}
        <3>1. Reads(p, "delivering", [c EXCEPT !.status = "delivered"])
            BY <1>3 DEF Publish, Current
        <3>2. "delivering" \in Places /\ row[d.event] \in Rows \cup {NoRow}
            BY <1>2, <1>6 DEF Places
        <3>3. QED  BY <1>6, <3>1, <3>2
    <2>2. /\ Changes(p)
          /\ poll'[p] = [at |-> "delivering", first |-> poll[p].first,
                         todo |-> {x \in poll[p].todo : x.event # d.event},
                         entity |-> d, base |-> row[d.event]]
        BY <1>2, <2>1, ReadsPoll
    <2>3. QED  BY <1>6, <1>7, <1>8, <2>2
<1>10. \A x \in poll[p].todo : /\ row[x.event].status = "pending" /\ x.event # e
                               /\ ~Precedes(x.event, e)
    BY <1>2, <1>3, <1>4 DEF PollCalm, TodoCalm
<1>11. p \in Busy
    BY <1>1 DEF Busy
<1>12. \A f : Has(poll'[p], f) <=> Has(poll[p], f)
    <2>1. poll'[p].todo = todo /\ poll'[p].entity = d /\ todo = poll[p].todo
        BY <1>7, <1>9, <1>10
    <2>2. d # NoRow /\ c # NoRow
        BY Constants
    <2>3. QED  BY <1>3, <1>4, <1>6, <2>1, <2>2 DEF Has
<1>13. ~disorder'
    <2>1. ~OutOfTurn(e)
        <3> SUFFICES ASSUME NEW f \in Added \ published, f < e, (e \in urgent) = (f \in urgent)
                     PROVE  FALSE
            BY <1>5 DEF OutOfTurn
        <3>1. f \in urgent <=> e \in urgent
            BY Zenon
        <3>2. Has(poll[p], e)
            BY <1>3, <1>4, Constants DEF Has
        <3>3. Has(poll[p], f)
            BY <1>2, <3>1, <3>2 DEF PollCalm, Closed
        <3>4. f \in Nat /\ e \in Nat
            BY Counters DEF Events
        <3>5. PICK x \in poll[p].todo : x.event = f
            BY <1>3, <1>4, <3>3, <3>4 DEF Has
        <3>6. Precedes(f, e)
            BY <3>1, Order
        <3>7. QED  BY <1>10, <3>5, <3>6
    <2>2. disorder' = (disorder \/ (~overlapped /\ faults = 0 /\ OutOfTurn(e)))
        BY <1>3, <1>4 DEF Publish, Current
    <2>3. ~disorder
        BY DEF CalmInv
    <2>4. QED  BY <2>1, <2>2, <2>3, Zenon
<1>14. ASSUME NEW f \in Events PROVE RowCalm(f)'
    <2>1. CASE f = e
        <3>1. poll'[p].at \in {"publish", "delivering"} /\ poll'[p].entity.event = e
            <4>1. poll'[p].at = "delivering" /\ poll'[p].entity = d
                BY <1>9
            <4>2. QED  BY <1>6, <4>1
        <3>2. row'[e].status = "processing"
            BY <1>1, <1>5
        <3>3. QED  BY <2>1, <3>1, <3>2 DEF RowCalm
    <2>2. CASE f # e
        <3>1. row[f] # NoRow => row[f].status # "processing"
            BY <1>3, <1>4, <1>11, <2>2, TakenByOne
        <3>2. RowCalm(f) /\ (f \in published' => f \in published)
            BY <1>1, <1>3, <1>4, <2>2 DEF CalmInv
        <3>3. QED  BY <1>1, <3>1, <3>2 DEF RowCalm
    <2>3. QED  BY <2>1, <2>2
<1>15. TodoCalm(p)'
    <2>1. poll'[p].todo = todo /\ poll'[p].entity = d
        BY <1>9
    <2>2. QED  BY <1>1, <1>6, <1>7, <1>10, <2>1 DEF TodoCalm, Precedes
<1>16. EntityCalm(p)'
    <2>1. poll'[p].at = "delivering" /\ poll'[p].entity = d /\ poll'[p].base = r
        BY <1>9
    <2>2. row'[poll'[p].entity.event].status = "processing"
        BY <1>1, <1>5, <1>6, <2>1
    <2>3. QED  BY <1>5, <1>8, <2>1, <2>2 DEF EntityCalm
<1>17. Closed(p)'
    BY <1>1, <1>2, <1>12 DEF PollCalm, Closed, Added
<1>18. PollCalm(p)'
    BY <1>9, <1>15, <1>16, <1>17 DEF PollCalm
<1>19. QED  BY <1>9, <1>11, <1>13, <1>14, <1>18, CalmOne DEF Changes

\* The delivered event is left behind by row and poll.
LEMMA CalmDelivers == ASSUME NEW p \in Polls, Base, Calm, CalmInv, DeliverWrites(p) PROVE CalmInv'
<1>1. /\ poll[p].at = "delivering" /\ Writes(p) /\ NextOr(p, "claim")
      /\ UNCHANGED <<added, urgent, published, disorder>>
    BY DEF DeliverWrites, ghosts
<1>2. /\ poll[p] \in PollType /\ poll \in [Polls -> PollType] /\ PollOK(p) /\ PollCalm(p) /\ Works(p)
      /\ row \in [Events -> Rows \cup {NoRow}]
    BY <1>1 DEF Base, Types, CalmInv, Works
<1>3. PICK d \in AnyEntity : d = poll[p].entity
    BY <1>2 DEF PollOK
<1>4. PICK e \in Events : e = d.event
    BY EntityFields
<1>5. /\ row[e].status = "processing" /\ poll[p].base.status = "processing" /\ d.status = "delivered"
      /\ row[e] # NoRow /\ e \in published
    BY <1>1, <1>2, <1>3, <1>4 DEF PollCalm, EntityCalm, PollOK, EntityOK, Earned
<1>6. PICK r \in Rows : row' = [row EXCEPT ![e] = r] /\ r.status = "delivered"
    BY <1>1, <1>2, <1>3, <1>4, <1>5, WritesRow
<1>7. row'[e] = r /\ \A f \in Events \ {e} : row'[f] = row[f]
    BY <1>2, <1>6
<1>8. p \in Busy
    BY <1>1 DEF Busy
<1>9. ASSUME NEW f \in Events PROVE RowCalm(f)'
    <2>1. CASE f = e
        BY <1>6, <1>7, <2>1 DEF RowCalm
    <2>2. CASE f # e
        <3>1. row[f] # NoRow => row[f].status # "processing"
            BY <1>3, <1>4, <1>8, <2>2, TakenByOne
        <3>2. row'[f] = row[f] /\ RowCalm(f)
            BY <1>7, <2>2 DEF CalmInv
        <3>3. QED  BY <1>1, <3>1, <3>2 DEF RowCalm
    <2>3. QED  BY <2>1, <2>2
<1>10. Changes(p) /\ PollCalm(p)'
    <2>1. CASE Ends(p)
        <3>1. Changes(p) /\ poll'[p] = Idle
            BY <1>2, <2>1, IdleType, OneChanges DEF Ends
        <3>2. QED  BY <3>1, IdleIsCalm
    <2>2. CASE poll[p].todo # {} /\ NextOr(p, "claim")
        <3>1. poll' = [poll EXCEPT ![p].at = "claim", ![p].entity = NoRow, ![p].base = NoRow]
            BY <2>2 DEF NextOr
        <3>2. "claim" \in Places /\ NoRow \in AnyEntity \cup {NoRow}
            BY DEF Places
        <3>3. Changes(p) /\ poll'[p] = [at |-> "claim", first |-> poll[p].first, todo |-> poll[p].todo,
                                        entity |-> NoRow, base |-> NoRow]
            BY <1>2, <3>1, <3>2, MovesPoll
        <3>4. \A x \in poll[p].todo : row[x.event].status = "pending" /\ x.event # e /\ x.event \in Events
            BY <1>2, <1>3, <1>4, PollFields, EntityFields DEF PollCalm, TodoCalm
        <3>5. TodoCalm(p)'
            BY <1>7, <3>3, <3>4 DEF TodoCalm, Works
        <3>6. EntityCalm(p)'
            BY <3>3 DEF EntityCalm
        <3>7. ASSUME NEW f PROVE Has(poll'[p], f) <=> Has(poll[p], f) /\ f # e
            <4>1. Has(poll[p], f) <=> (\E x \in poll[p].todo : x.event = f) \/ f = e
                BY <1>3, <1>4, Constants DEF Has
            <4>2. Has(poll'[p], f) <=> \E x \in poll[p].todo : x.event = f
                BY <3>3 DEF Has
            <4>3. QED  BY <3>4, <4>1, <4>2
        <3>8. Closed(p)'
            <4> SUFFICES ASSUME NEW g \in Events, Has(poll'[p], g), NEW f \in Added' \ published', f < g,
                                f \in urgent' <=> g \in urgent'
                         PROVE  Has(poll'[p], f)
                BY DEF Closed
            <4>1. Has(poll[p], g) /\ f \in Added \ published /\ (f \in urgent <=> g \in urgent)
                BY <1>1, <3>7 DEF Added
            <4>2. Has(poll[p], f) /\ f # e
                BY <1>2, <1>5, <4>1 DEF PollCalm, Closed
            <4>3. QED  BY <3>7, <4>2
        <3>9. QED  BY <3>3, <3>5, <3>6, <3>8 DEF PollCalm
    <2>3. QED  BY <1>1, <2>1, <2>2 DEF NextOr
<1>11. QED  BY <1>1, <1>8, <1>9, <1>10, CalmOne DEF Changes, CalmInv

\* Time changes neither rows nor polls.
LEMMA CalmAges == ASSUME NEW e \in Events, Calm, CalmInv, Ages(e) PROVE CalmInv'
<1>1. UNCHANGED <<added, urgent, row, poll, published, disorder>>
    BY DEF Ages, ghosts
<1>2. QED
    BY <1>1 DEF CalmInv, Busy, RowCalm, PollCalm, TodoCalm, EntityCalm, Closed, Added, Works, Precedes

\* Every step that leaves the outbox calm keeps the calm invariant.
LEMMA CalmStep == Base /\ CalmInv /\ [Next]_vars => CalmInv'
<1> SUFFICES ASSUME Base, CalmInv, [Next]_vars, Calm' PROVE CalmInv'
    BY DEF CalmInv
<1>1. Calm /\ faults' = faults
    <2>1. faults \in Nat /\ faults' = 0 /\ ~overlapped'
        BY Counters DEF Calm
    <2>2. faults' = faults \/ faults' = faults + 1
        BY DEF Next, vars, Add, Ages, Cleanup, StartLoads, Tick, RetryFailed, StartEmpty, Stop, Crash, Step,
               ClaimReads, ClaimWrites, Publish, DeliverWrites, RecordReads, RecordWrites, RequeueReads,
               RequeueWrites, SaveFails, LeavesLoop, Loads
    <2>3. overlapped' = overlapped \/ overlapped' = (overlapped \/ Busy # {})
        BY DEF Next, vars, ghosts, Add, Ages, Cleanup, StartLoads, Tick, RetryFailed, StartEmpty, Stop, Crash,
               Step, ClaimReads, ClaimWrites, Publish, DeliverWrites, RecordReads, RecordWrites, RequeueReads,
               RequeueWrites, SaveFails, LeavesLoop, Loads
    <2>4. ~overlapped
        BY <2>1, <2>3, Zenon
    <2>5. QED  BY <2>1, <2>2, <2>4 DEF Calm
<1>2. \A p \in Polls : poll[p].at \notin {"record", "recording", "requeue", "requeuing"}
    BY <1>1 DEF CalmInv, PollCalm
<1>3. \A p \in Polls : ~RetryFailed(p)
    BY <1>1 DEF CalmInv, RowCalm, RetryFailed
<1>4. faults \in Nat
    BY Counters
<1>5. ~Stop /\ ~Crash /\ \A p \in Polls : ~SaveFails(p) /\ ~LeavesLoop(p)
    <2>1. faults' # faults + 1
        BY <1>1, <1>4
    <2>2. QED  BY <2>1, Zenon DEF Stop, Crash, SaveFails, LeavesLoop
<1>6. CASE Add
    BY <1>1, <1>6, CalmAdd
<1>7. CASE \E e \in Events : Ages(e) \/ Cleanup(e)
    BY <1>1, <1>7, CalmAges, CalmCleanup
<1>8. CASE \E p \in Polls : StartLoads(p) \/ Tick(p)
    BY <1>1, <1>8, CalmLoads DEF StartLoads, Tick
<1>9. CASE StartEmpty \/ UNCHANGED vars
    <2>1. UNCHANGED <<added, urgent, row, poll, published, disorder>>
        BY <1>9 DEF StartEmpty, vars, ghosts
    <2>2. QED
        BY <1>1, <2>1 DEF CalmInv, Busy, RowCalm, PollCalm, TodoCalm, EntityCalm, Closed, Added, Works,
                          Precedes
<1>10. CASE \E p \in Polls : Step(p)
    <2>1. PICK p \in Polls : Step(p)
        BY <1>10
    <2>2. ClaimReads(p) \/ ClaimWrites(p) \/ Publish(p) \/ DeliverWrites(p)
        BY <1>2, <2>1 DEF Step, RecordReads, RecordWrites, RequeueReads, RequeueWrites
    <2>3. QED  BY <1>1, <2>2, CalmClaimReads, CalmClaimWrites, CalmPublish, CalmDelivers
<1>11. QED  BY <1>3, <1>5, <1>6, <1>7, <1>8, <1>9, <1>10 DEF Next

\* Only a calm publication out of turn is counted, and none is out of turn.
LEMMA NeverDisorder == Base /\ CalmInv /\ ~disorder /\ [Next]_vars => ~disorder'
<1> SUFFICES ASSUME Base, CalmInv, ~disorder, [Next]_vars PROVE ~disorder'
    OBVIOUS
<1>1. CASE \E p \in Polls : Publish(p)
    <2>1. PICK p \in Polls : Publish(p)
        BY <1>1
    <2>2. CASE Calm
        <3>1. CalmInv'
            BY <2>1, <2>2, CalmPublish
        <3>2. Calm'
            BY <2>1, <2>2 DEF Publish, Calm
        <3>3. QED  BY <3>1, <3>2 DEF CalmInv
    <2>3. CASE ~Calm
        <3>1. disorder' = (disorder \/ (~overlapped /\ faults = 0 /\ OutOfTurn(Current(p).event)))
            BY <2>1 DEF Publish
        <3>2. ~(~overlapped /\ faults = 0)
            BY <2>3 DEF Calm
        <3>3. QED  BY <3>1, <3>2, Zenon
    <2>4. QED  BY <2>2, <2>3
<1>2. CASE ~\E p \in Polls : Publish(p)
    <2>1. disorder' = disorder
        BY <1>2 DEF Next, vars, ghosts, Add, Ages, Cleanup, StartLoads, Tick, RetryFailed, StartEmpty, Stop,
               Crash, Step, ClaimReads, ClaimWrites, DeliverWrites, RecordReads, RecordWrites,
               RequeueReads, RequeueWrites, SaveFails, LeavesLoop, Loads
    <2>2. QED  BY <2>1
<1>3. QED  BY <1>1, <1>2

\* While no poll overlaps another and nothing fails, an event is published once
\* and in the order of its priority: overlapping polls and faults alone disturb it.
THEOREM InOrder == Spec => []InOrderUnlessDisturbed
<1>1. Init => ~disorder
    BY DEF Init
<1>2. Spec => []~disorder
    BY <1>1, BaseInit, BaseStep, CalmInit, CalmStep, NeverDisorder, PTL DEF Spec
<1>3. ~disorder => InOrderUnlessDisturbed
    BY DEF InOrderUnlessDisturbed
<1>4. QED  BY <1>2, <1>3, PTL

==============================================================================
