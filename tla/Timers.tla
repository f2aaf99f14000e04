-------------------------------- MODULE Timers --------------------------------
(***************************************************************************)
(* Durable timers: TimerService schedules and cancels rows of               *)
(* workflow_timers, and every five seconds TimerProcessor loads the timers  *)
(* that are due, publishes the payload of each and saves it as triggered.   *)
(*                                                                         *)
(* The interval does not wait for a run to end, so runs overlap.  A timer's *)
(* save() reads its row and writes its status if the two differ.            *)
(***************************************************************************)
EXTENDS Integers, Sequences, FiniteSets, Functions

CONSTANTS
    Timers,
    NoRow,
    BatchSize,      \* 20 in the code
    MaxFaults,      \* bound of the model: failing calls and crashes
    MaxRuns         \* bound of the model: runs that overlap

VARIABLES
    row,        \* timer -> its status, or NoRow
    due,        \* timers whose executeAt has come
    up,         \* the process runs
    run,        \* run -> where it is, the entities it still has, what save() read
    faults,
    fired,      \* ghost: timers whose payload was published
    revoked,    \* ghost: timers cancelled before any run had loaded them
    overlapped, \* ghost: two runs at once
    died,       \* ghost: the process died with a run in it
    again       \* ghost: a timer was fired twice while none of that happened

ghosts == <<fired, revoked, overlapped, died, again>>
vars == <<row, due, up, run, faults, ghosts>>

Statuses == {"pending", "triggered", "cancelled", "failed"}

ASSUME TimersAssumption ==
    /\ IsFiniteSet(Timers) /\ NoRow \notin Statuses
    /\ BatchSize \in Nat \ {0} /\ MaxFaults \in Nat /\ MaxRuns \in Nat \ {0}

Runs == 1 .. MaxRuns

Idle == [at |-> "idle", todo |-> <<>>, status |-> "pending", base |-> NoRow]

Busy == {r \in Runs : run[r].at # "idle"}

Holding(t) == {r \in Busy : \E i \in 1 .. Len(run[r].todo) : run[r].todo[i] = t}

------------------------------------------------------------------------------
(* TimerService.                                                            *)

Schedule(t) ==
    /\ up
    /\ row[t] = NoRow /\ row' = [row EXCEPT ![t] = "pending"]
    /\ UNCHANGED <<due, up, run, faults, ghosts>>

\* One UPDATE, whatever the status is.
Cancel(t) ==
    /\ up /\ row[t] # NoRow
    /\ row' = [row EXCEPT ![t] = "cancelled"]
    /\ revoked' = IF Holding(t) = {} /\ t \notin fired THEN revoked \cup {t} ELSE revoked
    /\ UNCHANGED <<due, up, run, faults, fired, overlapped, died, again>>

------------------------------------------------------------------------------
(* TimerProcessor.                                                          *)

\* Mutant: the comparison with the clock is the wrong way round.
LoadableEarly(t) == row[t] = "pending" /\ t \notin due

\* Mutant: only triggered timers are left out.
LoadableAny(t) == row[t] \notin {NoRow, "triggered"} /\ t \in due

Loadable(t) == row[t] = "pending" /\ t \in due

\* find() has no order.
Batches ==
    LET loadable == {t \in Timers : Loadable(t)}
        size     == IF Cardinality(loadable) < BatchSize THEN Cardinality(loadable)
                    ELSE BatchSize
    IN  Injection(1 .. size, loadable)

\* processTimers() finds timers that are due.
Load(r) ==
    /\ up
    /\ r \notin Busy /\ \A q \in 1 .. r - 1 : q \in Busy
    /\ \E t \in Timers : Loadable(t)
    /\ \E todo \in Batches :
          run' = [run EXCEPT ![r] = [Idle EXCEPT !.at = "fire", !.todo = todo]]
    /\ overlapped' = (overlapped \/ Busy # {})
    /\ UNCHANGED <<row, due, up, faults, fired, revoked, died, again>>

Saves(r, status) ==
    run' = [run EXCEPT ![r].at = "save", ![r].status = status, ![r].base = row[Head(run[r].todo)]]

\* publish(), and the read of the save() that follows.
Fire(r) ==
    LET t == Head(run[r].todo)
    IN  /\ run[r].at = "fire"
        /\ fired' = fired \cup {t}
        /\ again' = (again \/ (t \in fired /\ ~overlapped /\ ~died))
        /\ Saves(r, "triggered")
        /\ UNCHANGED <<row, due, up, faults, revoked, overlapped, died>>

\* publish() throws: nothing was fired.
FireFails(r) ==
    /\ faults < MaxFaults /\ faults' = faults + 1
    /\ run[r].at = "fire"
    /\ Saves(r, "failed")
    /\ UNCHANGED <<row, due, up, ghosts>>

Writes(r) ==
    row' = [row EXCEPT ![Head(run[r].todo)] =
               IF run[r].status # run[r].base THEN run[r].status ELSE @]

\* Mutant: the loop runs once too often.
SaveRunsDry(r) ==
    /\ run[r].at = "save"
    /\ Writes(r)
    /\ run' = [run EXCEPT ![r] = [Idle EXCEPT !.at = "fire", !.todo = Tail(run[r].todo)]]
    /\ UNCHANGED <<due, up, faults, ghosts>>

Save(r) ==
    /\ run[r].at = "save"
    /\ Writes(r)
    /\ run' = [run EXCEPT ![r] =
                  IF Len(@.todo) = 1 THEN Idle
                  ELSE [Idle EXCEPT !.at = "fire", !.todo = Tail(run[r].todo)]]
    /\ UNCHANGED <<due, up, faults, ghosts>>

\* Mutant: the timer is left for the next run.
SaveFailsForRetry(r) ==
    /\ faults < MaxFaults /\ faults' = faults + 1
    /\ run[r].at = "save" /\ run[r].status = "triggered"
    /\ row' = row \/ Writes(r)
    /\ run' = [run EXCEPT ![r].at = "fail", ![r].status = "pending"]
    /\ UNCHANGED <<due, up, ghosts>>

\* The save throws, with or without having written: the catch block saves it as
\* failed, although it was published.
SaveFails(r) ==
    /\ faults < MaxFaults /\ faults' = faults + 1
    /\ run[r].at = "save" /\ run[r].status = "triggered"
    /\ row' = row \/ Writes(r)
    /\ run' = [run EXCEPT ![r].at = "fail", ![r].status = "failed"]
    /\ UNCHANGED <<due, up, ghosts>>

FailureReads(r) ==
    /\ run[r].at = "fail"
    /\ Saves(r, run[r].status)
    /\ UNCHANGED <<row, due, up, faults, ghosts>>

\* The process goes down with its runs: a crash, or a find() or a save() in the
\* catch block that throws, since nothing handles the rejection.
Crash ==
    /\ faults < MaxFaults /\ faults' = faults + 1
    /\ up /\ up' = FALSE
    /\ run' = [r \in Runs |-> Idle]
    /\ died' = (died \/ Busy # {})
    /\ UNCHANGED <<row, due, fired, revoked, overlapped, again>>

Restart ==
    /\ ~up /\ up' = TRUE
    /\ UNCHANGED <<row, due, run, faults, ghosts>>

------------------------------------------------------------------------------

\* executeAt comes.
FallsDue(t) ==
    /\ row[t] # NoRow /\ t \notin due
    /\ due' = due \cup {t}
    /\ UNCHANGED <<row, up, run, faults, ghosts>>

Init ==
    /\ row = [t \in Timers |-> NoRow] /\ due = {} /\ up = TRUE
    /\ run = [r \in Runs |-> Idle]
    /\ faults = 0
    /\ fired = {} /\ revoked = {}
    /\ overlapped = FALSE /\ died = FALSE /\ again = FALSE

Step(r) == Fire(r) \/ Save(r) \/ FailureReads(r)

Next ==
    \/ \E t \in Timers : Schedule(t) \/ Cancel(t) \/ FallsDue(t)
    \/ \E r \in Runs : Load(r) \/ Step(r) \/ FireFails(r) \/ SaveFails(r)
    \/ Crash \/ Restart

\* Calls settle and the interval goes off.
Fairness ==
    /\ \A r \in Runs : WF_vars(Step(r))
    /\ WF_vars(\E r \in Runs : Load(r))

Spec == Init /\ [][Next]_vars /\ Fairness

------------------------------------------------------------------------------

TypeOK ==
    /\ row \in [Timers -> Statuses \cup {NoRow}]
    /\ due \cup fired \cup revoked \subseteq {t \in Timers : row[t] # NoRow}
    /\ {up, overlapped, died, again} \subseteq BOOLEAN
    /\ \A r \in Runs :
          /\ run[r].at \in {"idle", "fire", "save", "fail"}
          /\ run[r].todo = <<>> <=> r \notin Busy
          /\ run[r].base \in Statuses \cup {NoRow}
          /\ up \/ r \notin Busy
    /\ faults \in 0 .. MaxFaults

\* A timer that was cancelled before any run loaded it never fires, although a
\* run that overlaps or fails may write over the row of one it has loaded.
RevokedNeverFires == revoked \cap fired = {}

\* A timer that fired is not pending once no run holds it, so that no later run
\* fires it again, whatever runs overlapped or failed, unless the process died.
FiredIsSettled ==
    \A t \in fired : Holding(t) = {} /\ ~died => row[t] # "pending"

\* A timer fires once unless runs overlap or the process dies in one.
FiresOnceUnlessDisturbed == ~again

\* A timer that is due is fired, marked failed or cancelled while the process
\* stays up.
DueTimersSettle ==
    \A t \in Timers : row[t] = "pending" /\ t \in due ~> row[t] # "pending" \/ ~up

==============================================================================
