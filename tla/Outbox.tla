-------------------------------- MODULE Outbox --------------------------------
(***************************************************************************)
(* The outbox: rows of outbox_events and the polls that publish them.       *)
(*                                                                         *)
(* start() awaits a first poll and then polls every second; the interval    *)
(* does not wait for a poll to end, so polls overlap.  A poll works on the  *)
(* entities it loaded.  Repository.save() of an entity reads its row and    *)
(* later writes the columns in which the entity differs from that read.     *)
(*                                                                         *)
(* nextRetryAt is written and never read, so it is not modelled: an event   *)
(* that failed is loaded by the next poll.                                  *)
(***************************************************************************)
EXTENDS Integers, FiniteSets

CONSTANTS
    MaxEvents,      \* bound of the model: events
    MaxRetries,     \* OutboxEvent.maxRetries, 3 in the code
    BatchSize,      \* BATCH_SIZE, 100 in the code
    MaxFaults,      \* bound of the model: failing saves, crashes and stops
    MaxPolls,       \* bound of the model: polls and manual retries that may overlap
    NoRow

ASSUME BoundsAssumption ==
    /\ MaxEvents \in Nat /\ MaxRetries \in Nat \ {0} /\ BatchSize \in Nat \ {0}
    /\ MaxFaults \in Nat /\ MaxPolls \in Nat

Statuses == {"pending", "processing", "delivered", "failed"}

\* Of OutboxEvent's columns.  retries passes MaxRetries when a poll that failed
\* gives up an event and another, which read it before, goes on with it.
Rows == [status : Statuses, retries : Nat]

ASSUME NoRowAssumption == NoRow \notin Rows /\ NoRow \notin [event : Nat, status : Statuses, retries : Nat]

VARIABLES
    added,      \* how many events were added: event e is the e-th by createdAt
    urgent,     \* the events with a saga among their target streams: priority 10
    row,        \* event -> its row, or NoRow
    overdue,    \* events whose processedAt is more than 30 seconds ago
    running,    \* isRunning
    ticking,    \* the poll interval is set
    poll,       \* poll -> where it is, the entities it has not begun, the one it
                \* works on and what save() read for it
    faults,
    published,  \* ghost: events given to the event bus
    failures,   \* ghost: event -> how often processing it failed
    overlapped, \* ghost: two polls ran at once
    disorder    \* ghost: published twice, or before an older event, undisturbed

processVars == <<running, ticking>>
ghosts      == <<published, failures, overlapped, disorder>>
vars == <<added, urgent, row, overdue, processVars, poll, faults, ghosts>>

Events == 1 .. MaxEvents

\* A poll that has begun none of its entities.
Loaded(at, first, todo) ==
    [at |-> at, first |-> first, todo |-> todo, entity |-> NoRow, base |-> NoRow]

Idle == Loaded("idle", FALSE, {})

Polls == 1 .. MaxPolls

Busy == {p \in Polls : poll[p].at # "idle"}

------------------------------------------------------------------------------
(* What a poll loads.                                                       *)

\* Mutant: the newest event is delivered first.
PrecedesNewestFirst(e, f) == IF (e \in urgent) = (f \in urgent) THEN e > f ELSE e \in urgent

\* ORDER BY priority DESC, createdAt ASC.
Precedes(e, f) == IF (e \in urgent) = (f \in urgent) THEN e < f ELSE e \in urgent

\* Mutant: nobody returns to an event whose poll died.
DuePendingOnly(e) == row[e] # NoRow /\ row[e].status = "pending"

\* Pending, or taken by a poll more than 30 seconds ago.
Due(e) ==
    /\ row[e] # NoRow
    /\ row[e].status = "pending" \/ (row[e].status = "processing" /\ e \in overdue)

Entity(e) == [event |-> e, status |-> row[e].status, retries |-> row[e].retries]

\* The first BatchSize of them.
Batch(events) ==
    {Entity(e) : e \in {f \in events : Cardinality({g \in events : Precedes(g, f)}) < BatchSize}}

------------------------------------------------------------------------------
(* save().                                                                  *)

Current(p) == poll[p].entity

\* The events of the entities a poll has.
Held(p) == {entity.event : entity \in (poll[p].todo \cup {Current(p)}) \ {NoRow}}

Columns(entity) == [status |-> entity.status, retries |-> entity.retries]

\* The entity changes as given and its row is read.
Reads(p, at, entity) ==
    poll' = [poll EXCEPT ![p].at = at, ![p].todo = {c \in @ : c.event # entity.event},
                         ![p].entity = entity, ![p].base = row[entity.event]]

Writes(p) ==
    LET entity == Current(p)
        base   == poll[p].base
    IN  row' = [row EXCEPT ![entity.event] =
                   [c \in DOMAIN @ |-> IF Columns(entity)[c] # base[c]
                                       THEN Columns(entity)[c] ELSE @[c]]]

\* Mutant: the loop runs once too often.
NextOrRunsDry(p, at) ==
    /\ poll' = [poll EXCEPT ![p].at = at, ![p].entity = NoRow, ![p].base = NoRow]
    /\ UNCHANGED ticking

\* The poll ends.  After the first one start() sets the interval.
Ends(p) == poll' = [poll EXCEPT ![p] = Idle] /\ ticking' = (ticking \/ poll[p].first)

\* On to the next entity.
NextOr(p, at) ==
    IF poll[p].todo # {}
    THEN /\ poll' = [poll EXCEPT ![p].at = at, ![p].entity = NoRow, ![p].base = NoRow]
         /\ UNCHANGED ticking
    ELSE Ends(p)

------------------------------------------------------------------------------

\* addToOutbox()
Add ==
    /\ added < MaxEvents /\ added' = added + 1
    /\ urgent' \in {urgent, urgent \cup {added'}}
    /\ row' = [row EXCEPT ![added'] = [status |-> "pending", retries |-> 0]]
    /\ UNCHANGED <<overdue, processVars, poll, faults, ghosts>>

Added == 1 .. added

\* A place for one more poll.
Free(p) == p \notin Busy /\ \A q \in 1 .. p - 1 : q \in Busy

\* find() of processPendingEvents() with something to process.
Loads(p, first) ==
    /\ Free(p)
    /\ \E e \in Events : Due(e)
    /\ poll' = [poll EXCEPT ![p] = Loaded("claim", first, Batch({e \in Events : Due(e)}))]
    /\ overlapped' = (overlapped \/ Busy # {})
    /\ UNCHANGED <<added, urgent, row, overdue, faults, published, failures, disorder>>

\* start(), called when the module starts.
StartLoads(p) ==
    /\ ~running /\ running' = TRUE
    /\ Loads(p, TRUE)
    /\ UNCHANGED ticking

StartEmpty ==
    /\ ~running /\ running' = TRUE
    /\ ~\E e \in Events : Due(e)
    /\ ticking' = TRUE
    /\ UNCHANGED <<added, urgent, row, overdue, poll, faults, ghosts>>

Tick(p) ==
    /\ running /\ ticking
    /\ Loads(p, FALSE)
    /\ UNCHANGED processVars

\* stop(): polls that run go on.
Stop ==
    /\ faults < MaxFaults /\ faults' = faults + 1
    /\ running
    /\ running' = FALSE /\ ticking' = FALSE
    /\ UNCHANGED <<added, urgent, row, overdue, poll, ghosts>>

ClaimReads(p) ==
    /\ poll[p].at = "claim"
    /\ \E entity \in poll[p].todo :
          /\ \A other \in poll[p].todo : ~Precedes(other.event, entity.event)
          /\ Reads(p, "claiming", [entity EXCEPT !.status = "processing"])
    /\ UNCHANGED <<added, urgent, row, overdue, processVars, faults, ghosts>>

\* processedAt always differs, so it is always written.
ClaimWrites(p) ==
    /\ poll[p].at = "claiming"
    /\ Writes(p)
    /\ overdue' = overdue \ {Current(p).event}
    /\ poll' = [poll EXCEPT ![p].at = "publish", ![p].base = NoRow]
    /\ UNCHANGED <<added, urgent, processVars, faults, ghosts>>

\* The event was published before, or an older one of its priority was not.
OutOfTurn(e) ==
    \/ e \in published
    \/ \E f \in Added \ published : f < e /\ (e \in urgent) = (f \in urgent)

\* publish() and the second save()'s read.
Publish(p) ==
    /\ poll[p].at = "publish"
    /\ published' = published \cup {Current(p).event}
    /\ disorder' = (disorder \/ (~overlapped /\ faults = 0 /\ OutOfTurn(Current(p).event)))
    /\ Reads(p, "delivering", [Current(p) EXCEPT !.status = "delivered"])
    /\ UNCHANGED <<added, urgent, row, overdue, processVars, faults, failures, overlapped>>

DeliverWrites(p) ==
    /\ poll[p].at = "delivering"
    /\ Writes(p)
    /\ NextOr(p, "claim")
    /\ UNCHANGED <<added, urgent, overdue, running, faults, ghosts>>

\* Mutant: the attempts are compared with one more than allowed.
FailedEarly(entity) ==
    [entity EXCEPT !.retries = @ + 1,
                   !.status = IF entity.retries + 2 >= MaxRetries THEN "failed" ELSE "pending"]

\* handleEventFailure()
Failed(entity) ==
    [entity EXCEPT !.retries = @ + 1,
                   !.status = IF entity.retries + 1 >= MaxRetries THEN "failed" ELSE "pending"]

\* A save throws, with or without having written.
SaveFails(p) ==
    /\ faults < MaxFaults /\ faults' = faults + 1
    /\ poll[p].at \in {"claiming", "delivering"}
    /\ row' = row \/ Writes(p)
    /\ failures' = [failures EXCEPT ![Current(p).event] = @ + 1]
    /\ poll' = [poll EXCEPT ![p].at = "record", ![p].entity = Failed(@), ![p].base = NoRow]
    /\ UNCHANGED <<added, urgent, overdue, processVars, published, overlapped, disorder>>

RecordReads(p) ==
    /\ poll[p].at = "record"
    /\ Reads(p, "recording", Current(p))
    /\ UNCHANGED <<added, urgent, row, overdue, processVars, faults, ghosts>>

RecordWrites(p) ==
    /\ poll[p].at = "recording"
    /\ Writes(p)
    /\ NextOr(p, "claim")
    /\ UNCHANGED <<added, urgent, overdue, running, faults, ghosts>>

\* A save of handleEventFailure() or retryFailedEvents() throws, with or without
\* having written: the error leaves the loop, and the rest is dropped.
LeavesLoop(p) ==
    /\ faults < MaxFaults /\ faults' = faults + 1
    /\ poll[p].at \in {"recording", "requeuing"}
    /\ row' = row \/ Writes(p)
    /\ Ends(p)
    /\ UNCHANGED <<added, urgent, overdue, running, ghosts>>

------------------------------------------------------------------------------
(* Operations for administrators.                                           *)

Requeued(entity) == [entity EXCEPT !.retries = 0, !.status = "pending"]

\* retryFailedEvents() loads up to a limit its caller chooses, in no order.
RetryFailed(p) ==
    /\ Free(p)
    /\ \E some \in SUBSET {e \in Events : row[e] # NoRow /\ row[e].status = "failed"} :
          /\ some # {}
          /\ poll' = [poll EXCEPT ![p] = Loaded("requeue", FALSE, {Entity(e) : e \in some})]
    /\ UNCHANGED <<added, urgent, row, overdue, processVars, faults, ghosts>>

RequeueReads(p) ==
    /\ poll[p].at = "requeue"
    /\ \E entity \in poll[p].todo : Reads(p, "requeuing", Requeued(entity))
    /\ UNCHANGED <<added, urgent, row, overdue, processVars, faults, ghosts>>

RequeueWrites(p) ==
    /\ poll[p].at = "requeuing"
    /\ Writes(p)
    /\ NextOr(p, "requeue")
    /\ UNCHANGED <<added, urgent, overdue, running, faults, ghosts>>

\* Mutant: the age alone decides.
CleanupAny(e) ==
    /\ row[e] # NoRow /\ row[e].status # "failed"
    /\ \A p \in Busy : e \notin Held(p)
    /\ row' = [row EXCEPT ![e] = NoRow]
    /\ UNCHANGED <<added, urgent, overdue, processVars, poll, faults, ghosts>>

\* cleanupOldEvents(), a week later: no poll holds the event any more.
Cleanup(e) ==
    /\ row[e] # NoRow /\ row[e].status = "delivered"
    /\ \A p \in Busy : e \notin Held(p)
    /\ row' = [row EXCEPT ![e] = NoRow]
    /\ UNCHANGED <<added, urgent, overdue, processVars, poll, faults, ghosts>>

------------------------------------------------------------------------------

\* 30 seconds pass since the event's processedAt.
Ages(e) ==
    /\ row[e] # NoRow /\ row[e].status = "processing" /\ e \notin overdue
    /\ overdue' = overdue \cup {e}
    /\ UNCHANGED <<added, urgent, row, processVars, poll, faults, ghosts>>

Crash ==
    /\ faults < MaxFaults /\ faults' = faults + 1
    /\ running \/ Busy # {}
    /\ running' = FALSE /\ ticking' = FALSE
    /\ poll' = [p \in Polls |-> Idle]
    /\ UNCHANGED <<added, urgent, row, overdue, ghosts>>

Init ==
    /\ added = 0 /\ urgent = {} /\ row = [e \in Events |-> NoRow] /\ overdue = {}
    /\ running = FALSE /\ ticking = FALSE
    /\ poll = [p \in Polls |-> Idle]
    /\ faults = 0
    /\ published = {} /\ failures = [e \in Events |-> 0]
    /\ overlapped = FALSE /\ disorder = FALSE

Step(p) ==
    ClaimReads(p) \/ ClaimWrites(p) \/ Publish(p) \/ DeliverWrites(p)
        \/ RecordReads(p) \/ RecordWrites(p) \/ RequeueReads(p) \/ RequeueWrites(p)

Next ==
    \/ Add
    \/ \E e \in Events : Ages(e) \/ Cleanup(e)
    \/ \E p \in Polls : StartLoads(p) \/ Tick(p) \/ RetryFailed(p)
    \/ StartEmpty \/ Stop \/ Crash
    \/ \E p \in Polls : Step(p) \/ SaveFails(p) \/ LeavesLoop(p)

\* Calls settle, time passes, and the interval goes off.
Fairness ==
    /\ \A p \in Polls : WF_vars(Step(p))
    /\ \A e \in Events : WF_vars(Ages(e))
    /\ WF_vars(\E p \in Polls : Tick(p))

Spec == Init /\ [][Next]_vars /\ Fairness

------------------------------------------------------------------------------

Entities == [event : Added, status : Statuses, retries : Nat]

TypeOK ==
    /\ added \in 0 .. MaxEvents /\ urgent \cup published \subseteq Added
    /\ row \in [Events -> Rows \cup {NoRow}]
    /\ \A p \in Polls :
          /\ p \notin Busy => poll[p] = Idle
          /\ poll[p].at \in {"claim", "requeue"} => poll[p].todo # {}
          /\ poll[p].todo \subseteq Entities
          /\ Current(p) \in Entities \cup {NoRow}
          /\ poll[p].base \in Rows \cup {NoRow}
    /\ {running, ticking, overlapped, disorder} \subseteq BOOLEAN
    /\ faults \in 0 .. MaxFaults

\* "No event loss": an event whose row says delivered, or is cleaned up, was
\* published, whichever polls raced for the row and whatever failed.
DeliveredWasPublished ==
    \A e \in Added :
        row[e] = NoRow \/ row[e].status = "delivered" => e \in published

\* An event is given up only after maxRetries failures, although polls that
\* overlap overwrite each other's count.
GivenUpAfterRetries ==
    \A e \in Added :
        row[e] # NoRow /\ row[e].status = "failed" => failures[e] >= MaxRetries

\* While no poll overlaps another and nothing fails, an event is published once,
\* and never before an older one of its priority.
InOrderUnlessDisturbed == ~disorder

\* "Guarantees at-least-once delivery", "Survives application crashes": an event
\* is published or given up, unless the processor stands still; when it is
\* started again the same holds from there on.
EventsAreDelivered ==
    \A e \in Events :
        e \in Added
            ~> \/ e \in published
               \/ row[e] # NoRow /\ row[e].status = "failed"
               \/ ~running

==============================================================================
