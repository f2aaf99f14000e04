-------------------------------- MODULE Regions --------------------------------
(***************************************************************************)
(* The stamps of events: processes of several regions execute commands on   *)
(* shared aggregates, each with the one clock of its AggregateRoot class,   *)
(* and replicators that move the clock on with the events of other regions. *)
(*                                                                         *)
(* A command awaits getEvents(); replaying what it returned and stamping    *)
(* the new event then happen without an await.  So a process that replays   *)
(* does nothing else, and the loop over the events may be cut into steps.   *)
(* The append is awaited, so events may reach the log in another order than *)
(* the one they were stamped in.                                            *)
(*                                                                         *)
(* What a replicator appends never reaches a log: the parsed event has no   *)
(* toJSON(), append() throws and the error is logged.                       *)
(***************************************************************************)
EXTENDS Clock, Sequences

CONSTANTS
    Processes,
    Regions,
    RegionOf,       \* process -> REGION_ID
    Aggregates,
    None,           \* the process replays nothing
    Times,          \* what Date.now() may return, forwards or backwards
    MaxEvents,      \* bound of the model: events
    MaxCounter,     \* bound of the model: counter of a clock
    MaxRestarts     \* bound of the model: restarts

ASSUME RegionsAssumption ==
    /\ RegionOf \in [Processes -> Regions]
    /\ None \notin Aggregates
    /\ Times \subseteq Nat
    /\ MaxEvents \in Nat /\ MaxCounter \in Nat /\ MaxRestarts \in Nat

VARIABLES
    log,        \* aggregate -> its events
    clock,      \* process -> its clock
    target,     \* process -> the aggregate whose events it replays, or None
    replay,     \* process -> the events it still has to replay
    sent,       \* stamped events whose append() has not ended
    created,    \* aggregates whose creation was stamped
    stamped,    \* how many events were stamped
    restarts,
    known       \* ghost: process -> stamps it gave or took since it started

vars == <<log, clock, target, replay, sent, created, stamped, restarts, known>>

\* after is a ghost: the stamps known where the event was stamped.
Events == [aggregate : Aggregates, region : Regions, stamp : Stamps, after : SUBSET Stamps]

------------------------------------------------------------------------------

Moves(p, c) ==
    /\ c.counter <= MaxCounter
    /\ clock' = [clock EXCEPT ![p] = c]

\* The clock takes a stamp in.
Takes(p, stamp) ==
    /\ \E time \in Times : Moves(p, Update(clock[p], stamp, time))
    /\ known' = [known EXCEPT ![p] = @ \cup {stamp}]

\* apply() stamps a new event.
StampsEvent(p, a) ==
    /\ stamped < MaxEvents /\ stamped' = stamped + 1
    /\ \E time \in Times : Moves(p, Now(clock[p], time))
    /\ sent' = sent \cup {[aggregate |-> a, region |-> RegionOf[p],
                           stamp |-> clock'[p], after |-> known[p]]}
    /\ known' = [known EXCEPT ![p] = @ \cup {clock'[p]}]

\* A command that creates an aggregate reads nothing.
Create(p, a) ==
    /\ target[p] = None /\ a \notin created
    /\ created' = created \cup {a}
    /\ StampsEvent(p, a)
    /\ UNCHANGED <<log, target, replay, restarts>>

\* getEvents() resolves with a prefix of the log.
Load(p, a) ==
    /\ target[p] = None
    /\ \E n \in 1 .. Len(log[a]) : replay' = [replay EXCEPT ![p] = SubSeq(log[a], 1, n)]
    /\ target' = [target EXCEPT ![p] = a]
    /\ UNCHANGED <<log, clock, sent, created, stamped, restarts, known>>

\* Mutant: replayed events leave the clock alone.
ReplaySilently(p) ==
    /\ replay[p] # <<>>
    /\ replay' = [replay EXCEPT ![p] = Tail(@)]
    /\ known' = [known EXCEPT ![p] = @ \cup {Head(replay[p]).stamp}]
    /\ UNCHANGED <<log, clock, target, sent, created, stamped, restarts>>

\* apply() of a historical event.
Replay(p) ==
    /\ replay[p] # <<>>
    /\ replay' = [replay EXCEPT ![p] = Tail(@)]
    /\ Takes(p, Head(replay[p]).stamp)
    /\ UNCHANGED <<log, target, sent, created, stamped, restarts>>

Ends(p) == target' = [target EXCEPT ![p] = None]

\* The command is accepted.
Decide(p) ==
    /\ target[p] # None /\ replay[p] = <<>>
    /\ StampsEvent(p, target[p])
    /\ Ends(p)
    /\ UNCHANGED <<log, replay, created, restarts>>

Refuse(p) ==
    /\ target[p] # None /\ replay[p] = <<>>
    /\ Ends(p)
    /\ UNCHANGED <<log, clock, replay, sent, created, stamped, restarts, known>>

AppendEvent(e) ==
    /\ sent' = sent \ {e}
    /\ log' = [log EXCEPT ![e.aggregate] = Append(@, e)]
    /\ UNCHANGED <<clock, target, replay, created, stamped, restarts, known>>

AppendFails(e) ==
    /\ sent' = sent \ {e}
    /\ UNCHANGED <<log, clock, target, replay, created, stamped, restarts, known>>

\* The replicator ignores events of its own region.
Replicate(p, a, i) ==
    /\ target[p] = None
    /\ log[a][i].region # RegionOf[p]
    /\ Takes(p, log[a][i].stamp)
    /\ UNCHANGED <<log, target, replay, sent, created, stamped, restarts>>

\* Mutant: a command goes on over a restart.
RestartMidway(p) ==
    /\ restarts < MaxRestarts /\ restarts' = restarts + 1
    /\ clock' = [clock EXCEPT ![p] = Zero]
    /\ known' = [known EXCEPT ![p] = {}]
    /\ Ends(p)
    /\ UNCHANGED <<log, replay, sent, created, stamped>>

\* The clock of a new process starts at zero.
Restart(p) ==
    /\ restarts < MaxRestarts /\ restarts' = restarts + 1
    /\ clock' = [clock EXCEPT ![p] = Zero]
    /\ known' = [known EXCEPT ![p] = {}]
    /\ replay' = [replay EXCEPT ![p] = <<>>]
    /\ Ends(p)
    /\ UNCHANGED <<log, sent, created, stamped>>

Init ==
    /\ log = [a \in Aggregates |-> <<>>]
    /\ clock = [p \in Processes |-> Zero]
    /\ target = [p \in Processes |-> None]
    /\ replay = [p \in Processes |-> <<>>]
    /\ sent = {} /\ created = {} /\ stamped = 0 /\ restarts = 0
    /\ known = [p \in Processes |-> {}]

Next ==
    \/ \E p \in Processes, a \in Aggregates : Create(p, a) \/ Load(p, a)
    \/ \E p \in Processes : Replay(p) \/ Decide(p) \/ Refuse(p) \/ Restart(p)
    \/ \E e \in sent : AppendEvent(e) \/ AppendFails(e)
    \/ \E p \in Processes, a \in Aggregates : \E i \in 1 .. Len(log[a]) : Replicate(p, a, i)

Spec == Init /\ [][Next]_vars

------------------------------------------------------------------------------

TypeOK ==
    /\ log \in [Aggregates -> Seq(Events)]
    /\ clock \in [Processes -> Stamps]
    /\ target \in [Processes -> Aggregates \cup {None}]
    /\ replay \in [Processes -> Seq(Events)]
    /\ \A p \in Processes : target[p] = None => replay[p] = <<>>
    /\ sent \subseteq Events
    /\ created \subseteq Aggregates
    /\ stamped \in 0 .. MaxEvents /\ restarts \in 0 .. MaxRestarts
    /\ known \in [Processes -> SUBSET Stamps]

AllEvents == sent \cup UNION {{log[a][i] : i \in 1 .. Len(log[a])} : a \in Aggregates}

\* "If event A causes event B, HLC(A) < HLC(B)": an event's stamp exceeds those of
\* the events its command read, of what the process had replicated, replayed and
\* stamped since it started, even after a restart or a clock that was set back.
CausesPrecede == \A e \in AllEvents : \A s \in e.after : Before(s, e.stamp)

\* "Clock always moves forward", until its process restarts.
ClocksMoveForward ==
    [][\A p \in Processes :
          clock[p]' # clock[p] /\ restarts' = restarts => Before(clock[p], clock[p]')]_vars

\* "HLC stays within a bound of physical clock": the physical part of a clock or
\* of a stamp is always a time that some Date.now() returned, whatever was merged.
NoInventedTime ==
    /\ \A p \in Processes : clock[p].physical \in Times \cup {0}
    /\ \A e \in AllEvents : e.stamp.physical \in Times

==============================================================================
