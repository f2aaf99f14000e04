---------------------------- MODULE TimersProofs ----------------------------
(***************************************************************************)
(* Proofs about module Timers, for any set of timers, any batch size and    *)
(* any number of overlapping runs and faults.                               *)
(***************************************************************************)
EXTENDS Timers, SequenceTheorems, FiniteSetTheorems, TLAPS

(* The inductive invariant.                                                 *)

Entities ==
    [at : {"idle", "fire", "save", "fail"}, todo : Seq(Timers), status : Statuses,
     base : Statuses \cup {NoRow}]

\* The run has the i-th entity t left.
Holds(r, t) == \E i \in 1 .. Len(run[r].todo) : run[r].todo[i] = t

Shape == run \in [Runs -> Entities]

\* Rows stay once they are loaded.
HeldRowsExist == \A r \in Runs, t \in Timers : Holds(r, t) => row[t] # NoRow

\* What a run that saves will leave is not pending.
SavesSettle ==
    \A r \in Runs :
        /\ run[r].at = "save" =>
              /\ run[r].status \in {"triggered", "failed"} /\ run[r].base # NoRow
              /\ run[r].base # "pending" => row[Head(run[r].todo)] # "pending"
        /\ run[r].at = "fail" => run[r].status = "failed"

FiredAreHeld ==
    \A t \in fired : ~died /\ row[t] = "pending" => \E r \in Runs : Holds(r, t)

RevokedAreFree ==
    \A t \in revoked :
        row[t] = "cancelled" /\ t \notin fired /\ \A r \in Runs : ~Holds(r, t)

\* A run comes to a timer once.
EachOnce ==
    \A r \in Runs : \A i, j \in 1 .. Len(run[r].todo) :
        run[r].todo[i] = run[r].todo[j] => i = j

\* While runs do not overlap, at most one is busy.
OneRun == ~overlapped => \A q, r \in Busy : q = r

\* What a run that nothing disturbed has not come to is not fired.
RestUnfired ==
    ~overlapped /\ ~died =>
        \A r \in Runs : \A i \in 1 .. Len(run[r].todo) :
            i > 1 \/ run[r].at = "fire" => run[r].todo[i] \notin fired

IInv ==
    /\ TypeOK /\ Shape /\ HeldRowsExist /\ SavesSettle /\ FiredAreHeld
    /\ RevokedAreFree /\ EachOnce /\ OneRun /\ RestUnfired /\ ~again

------------------------------------------------------------------------------

(* A busy run has a next timer.                                             *)
LEMMA NextTimer ==
    ASSUME TypeOK, Shape, NEW r \in Runs, run[r].at # "idle"
    PROVE  /\ run[r].todo \in Seq(Timers) /\ Len(run[r].todo) \in Nat \ {0}
           /\ Head(run[r].todo) = run[r].todo[1] /\ Head(run[r].todo) \in Timers
           /\ Holds(r, Head(run[r].todo))
<1>1. run[r].todo \in Seq(Timers) /\ run[r].todo # <<>>
  BY DEF Shape, Entities, TypeOK, Busy
<1>2. Len(run[r].todo) \in Nat /\ Len(run[r].todo) # 0
  BY <1>1
<1>3. Head(run[r].todo) = run[r].todo[1] /\ run[r].todo[1] \in Timers
  BY <1>1, <1>2
<1> QED BY <1>1, <1>2, <1>3 DEF Holds

(* find() returns timers that are loadable, each once, and at least one.    *)
LEMMA BatchFacts ==
    ASSUME TimersAssumption, NEW t \in Timers, Loadable(t), NEW todo \in Batches
    PROVE  /\ todo \in Seq(Timers) /\ todo # <<>>
           /\ \A i \in 1 .. Len(todo) : todo[i] \in Timers /\ Loadable(todo[i])
           /\ \A i, j \in 1 .. Len(todo) : todo[i] = todo[j] => i = j
<1> DEFINE loadable == {u \in Timers : Loadable(u)}
           size == IF Cardinality(loadable) < BatchSize THEN Cardinality(loadable) ELSE BatchSize
<1>1. IsFiniteSet(loadable)
  BY FS_Subset DEF TimersAssumption
<1>2. Cardinality(loadable) \in Nat /\ Cardinality(loadable) # 0
  BY <1>1, FS_CardinalityType, FS_EmptySet
<1>3. size \in Nat /\ size # 0
  BY <1>2 DEF TimersAssumption
<1>4. todo \in [1 .. size -> loadable] /\ IsInjective(todo)
  BY DEF Batches, Injection
<1> HIDE DEF size
<1>5. todo \in Seq(loadable) /\ Len(todo) = size
  BY <1>3, <1>4
<1>6. todo # <<>> /\ todo \in Seq(Timers)
  BY <1>3, <1>4, <1>5
<1>7. \A i \in 1 .. Len(todo) : todo[i] \in loadable
  BY <1>4, <1>5
<1>8. \A i, j \in 1 .. Len(todo) : todo[i] = todo[j] => i = j
  BY <1>4, <1>5 DEF IsInjective
<1> QED BY <1>6, <1>7, <1>8

(* The rest of a run.                                                       *)
LEMMA RestFacts ==
    ASSUME TypeOK, Shape, NEW r \in Runs, run[r].at # "idle"
    PROVE  /\ Tail(run[r].todo) \in Seq(Timers)
           /\ Len(Tail(run[r].todo)) = Len(run[r].todo) - 1
           /\ \A i \in 1 .. Len(Tail(run[r].todo)) : Tail(run[r].todo)[i] = run[r].todo[i + 1]
<1>1. run[r].todo \in Seq(Timers) /\ run[r].todo # <<>>
  BY NextTimer
<1> QED BY <1>1, HeadTailProperties

(* A run that is not busy holds nothing.                                    *)
LEMMA IdleHoldsNothing ==
    ASSUME TypeOK, NEW r \in Runs, NEW t \in Timers, Holds(r, t)
    PROVE  run[r].at # "idle" /\ r \in Busy
<1>1. CASE r \notin Busy
  <2>1. run[r].todo = <<>>
    BY <1>1 DEF TypeOK
  <2> QED BY <2>1 DEF Holds
<1> QED BY <1>1 DEF Busy

\* A timer that is held by nobody is in no run.
LEMMA HoldingIsHolds ==
    ASSUME TypeOK, NEW t \in Timers, Holding(t) = {}
    PROVE  \A r \in Runs : ~Holds(r, t)
BY IdleHoldsNothing DEF Holding, Holds

(* The steps that leave the runs alone.                                     *)
LEMMA ScheduleKeeps ==
    ASSUME IInv, TimersAssumption, NEW t \in Timers, Schedule(t)
    PROVE  IInv'
<1> USE DEF Schedule, ghosts
<1>1. TypeOK'
  BY DEF IInv, TypeOK, Busy, Runs, Statuses, TimersAssumption
<1>2. Shape' /\ EachOnce' /\ OneRun' /\ RestUnfired' /\ ~again'
  BY DEF IInv, Shape, EachOnce, OneRun, RestUnfired, Busy
<1>3. HeldRowsExist'
  BY DEF IInv, HeldRowsExist, Holds, TypeOK, TimersAssumption, Statuses
<1>4. SavesSettle'
  <2> SUFFICES ASSUME NEW r \in Runs, run[r].at = "save"
               PROVE  row'[Head(run[r].todo)] = row[Head(run[r].todo)]
    BY DEF IInv, SavesSettle
  <2>1. Head(run[r].todo) \in Timers /\ row[Head(run[r].todo)] # NoRow
    BY NextTimer DEF IInv, HeldRowsExist
  <2> QED BY <2>1 DEF IInv, TypeOK
<1>5. FiredAreHeld' /\ RevokedAreFree'
  <2>1. t \notin fired /\ t \notin revoked
    BY DEF IInv, TypeOK
  <2> QED BY <2>1 DEF IInv, FiredAreHeld, RevokedAreFree, Holds, TypeOK
<1> QED BY <1>1, <1>2, <1>3, <1>4, <1>5 DEF IInv

\* cancel() keeps the invariant, whichever runs hold the timer.
LEMMA CancelKeeps ==
    ASSUME IInv, TimersAssumption, NEW t \in Timers, Cancel(t)
    PROVE  IInv'
<1> USE DEF Cancel
<1>1. TypeOK'
  BY DEF IInv, TypeOK, Busy, Runs, Statuses, TimersAssumption
<1>2. Shape' /\ EachOnce' /\ OneRun' /\ RestUnfired' /\ ~again'
  BY DEF IInv, Shape, EachOnce, OneRun, RestUnfired, Busy
<1>3. HeldRowsExist'
  BY DEF IInv, HeldRowsExist, Holds, TypeOK, TimersAssumption, Statuses
<1>4. SavesSettle'
  <2> SUFFICES ASSUME NEW r \in Runs, run[r].at = "save"
               PROVE  row[Head(run[r].todo)] # "pending" => row'[Head(run[r].todo)] # "pending"
    BY DEF IInv, SavesSettle
  <2> QED BY NextTimer DEF IInv, TypeOK
<1>5. FiredAreHeld'
  BY DEF IInv, FiredAreHeld, Holds, TypeOK
<1>6. RevokedAreFree'
  <2> SUFFICES ASSUME NEW u \in revoked'
               PROVE  row'[u] = "cancelled" /\ u \notin fired /\ \A r \in Runs : ~Holds(r, u)
    BY DEF RevokedAreFree, Holds
  <2>1. CASE u \in revoked
    BY <2>1 DEF IInv, RevokedAreFree, TypeOK
  <2>2. CASE u \notin revoked
    <3>1. u = t /\ Holding(t) = {} /\ t \notin fired
      BY <2>2
    <3> QED BY <3>1, HoldingIsHolds DEF IInv, TypeOK
  <2> QED BY <2>1, <2>2
<1> QED BY <1>1, <1>2, <1>3, <1>4, <1>5, <1>6 DEF IInv

\* So does the passing of time,
LEMMA FallsDueKeeps ==
    ASSUME IInv, NEW t \in Timers, FallsDue(t)
    PROVE  IInv'
<1> USE DEF FallsDue, ghosts
<1>1. TypeOK'
  BY DEF IInv, TypeOK, Busy, Runs, Statuses
<1>2. Shape' /\ EachOnce' /\ OneRun' /\ RestUnfired' /\ ~again'
  BY DEF IInv, Shape, EachOnce, OneRun, RestUnfired, Busy
<1>3. HeldRowsExist' /\ SavesSettle' /\ FiredAreHeld' /\ RevokedAreFree'
  BY DEF IInv, HeldRowsExist, SavesSettle, FiredAreHeld, RevokedAreFree, Holds
<1> QED BY <1>1, <1>2, <1>3 DEF IInv

\* a restart,
LEMMA RestartKeeps ==
    ASSUME IInv, Restart
    PROVE  IInv'
<1> USE DEF Restart, ghosts
<1>1. TypeOK'
  BY DEF IInv, TypeOK, Busy, Runs, Statuses
<1>2. Shape' /\ EachOnce' /\ OneRun' /\ RestUnfired' /\ ~again'
  BY DEF IInv, Shape, EachOnce, OneRun, RestUnfired, Busy
<1>3. HeldRowsExist' /\ SavesSettle' /\ FiredAreHeld' /\ RevokedAreFree'
  BY DEF IInv, HeldRowsExist, SavesSettle, FiredAreHeld, RevokedAreFree, Holds
<1> QED BY <1>1, <1>2, <1>3 DEF IInv

(* The process takes its runs with it.                                      *)
LEMMA CrashKeeps ==
    ASSUME IInv, TimersAssumption, Crash
    PROVE  IInv'
<1> USE DEF Crash
<1>1. Idle \in Entities /\ Idle.at = "idle" /\ Idle.todo = <<>>
  BY DEF Idle, Entities, Statuses
<1>2. \A r \in Runs : run'[r] = Idle /\ r \notin Busy'
  BY <1>1 DEF Busy
<1>3. \A r \in Runs : Len(run'[r].todo) = 0
  BY <1>1, <1>2
<1>4. \A r \in Runs, t \in Timers : ~Holds(r, t)'
  BY <1>3 DEF Holds
<1>5. TypeOK'
  <2>1. faults' \in 0 .. MaxFaults
    BY DEF IInv, TypeOK, TimersAssumption
  <2>2. died' \in BOOLEAN /\ up' \in BOOLEAN
    OBVIOUS
  <2>3. \A r \in Runs :
           /\ run'[r].at \in {"idle", "fire", "save", "fail"}
           /\ run'[r].todo = <<>> <=> r \notin Busy'
           /\ run'[r].base \in Statuses \cup {NoRow}
           /\ up' \/ r \notin Busy'
    BY <1>1, <1>2 DEF Idle
  <2> QED BY <2>1, <2>2, <2>3 DEF IInv, TypeOK
<1>6. Shape' /\ OneRun'
  BY <1>1, <1>2 DEF Shape, OneRun, Busy
<1>7. HeldRowsExist' /\ EachOnce' /\ RestUnfired' /\ ~again'
  BY <1>3, <1>4 DEF IInv, HeldRowsExist, EachOnce, RestUnfired
<1>8. SavesSettle'
  BY <1>1, <1>2 DEF SavesSettle
<1>9. FiredAreHeld'
  <2> SUFFICES ASSUME ~died', NEW t \in fired, row[t] = "pending" PROVE FALSE
    BY DEF FiredAreHeld
  <2>1. t \in Timers /\ Busy = {} /\ ~died
    BY DEF IInv, TypeOK
  <2> QED BY <2>1, IdleHoldsNothing DEF IInv, FiredAreHeld
<1>10. RevokedAreFree'
  BY <1>4 DEF IInv, RevokedAreFree, TypeOK
<1> QED BY <1>5, <1>6, <1>7, <1>8, <1>9, <1>10 DEF IInv

------------------------------------------------------------------------------

(* processTimers() takes timers that are pending and, while no runs overlap *)
(* and none died, not fired.                                                *)
LEMMA LoadKeeps ==
    ASSUME IInv, TimersAssumption, NEW r \in Runs, Load(r)
    PROVE  IInv'
<1>1. PICK todo \in Batches : run' = [run EXCEPT ![r] = [Idle EXCEPT !.at = "fire", !.todo = todo]]
  BY DEF Load
<1>2. /\ todo \in Seq(Timers) /\ todo # <<>>
      /\ \A i \in 1 .. Len(todo) : todo[i] \in Timers /\ Loadable(todo[i])
      /\ \A i, j \in 1 .. Len(todo) : todo[i] = todo[j] => i = j
  BY BatchFacts DEF Load
<1> DEFINE loaded == [Idle EXCEPT !.at = "fire", !.todo = todo]
<1>3. loaded \in Entities /\ loaded.at = "fire" /\ loaded.todo = todo /\ loaded.base = NoRow
  BY <1>2 DEF Idle, Entities, Statuses
<1>4. run'[r] = loaded /\ \A q \in Runs \ {r} : run'[q] = run[q]
  BY <1>1 DEF IInv, Shape
<1> HIDE DEF loaded
<1>5. Busy' = Busy \cup {r}
  BY <1>3, <1>4 DEF Busy
<1>6. UNCHANGED <<row, due, up, faults, fired, revoked, died, again>> /\ up
      /\ overlapped' = (overlapped \/ Busy # {})
  BY DEF Load
<1>7. TypeOK'
  <2>1. overlapped' \in BOOLEAN
    BY <1>6
  <2> QED BY <1>2, <1>3, <1>4, <1>5, <1>6, <2>1 DEF IInv, TypeOK
<1>8. Shape'
  BY <1>1, <1>3 DEF IInv, Shape, loaded
<1>9. HeldRowsExist'
  BY <1>2, <1>3, <1>4, <1>6 DEF IInv, HeldRowsExist, Holds, Loadable, TimersAssumption, Statuses
<1>10. SavesSettle' /\ EachOnce'
  BY <1>2, <1>3, <1>4, <1>6 DEF IInv, SavesSettle, EachOnce
<1>11. FiredAreHeld'
  <2> SUFFICES ASSUME NEW t \in fired, ~died, row[t] = "pending"
               PROVE  \E q \in Runs : Holds(q, t)'
    BY <1>6 DEF FiredAreHeld
  <2>1. PICK q \in Runs : Holds(q, t)
    BY DEF IInv, FiredAreHeld
  <2>2. q # r
    BY <2>1, IdleHoldsNothing DEF IInv, Load, TypeOK
  <2> QED BY <1>4, <2>1, <2>2 DEF Holds
<1>12. RevokedAreFree'
  <2> SUFFICES ASSUME NEW t \in revoked
               PROVE  \A q \in Runs : ~Holds(q, t)'
    BY <1>6 DEF IInv, RevokedAreFree
  <2>1. row[t] = "cancelled"
    BY DEF IInv, RevokedAreFree
  <2>2. ~Holds(r, t)'
    BY <1>2, <1>3, <1>4, <2>1 DEF Holds, Loadable
  <2> QED BY <1>4, <2>2 DEF IInv, RevokedAreFree, Holds
<1>13. OneRun'
  BY <1>5, <1>6 DEF OneRun
<1>14. RestUnfired'
  <2> SUFFICES ASSUME ~overlapped', ~died, NEW q \in Runs, NEW i \in 1 .. Len(run'[q].todo)
               PROVE  run'[q].todo[i] \notin fired
    BY <1>6 DEF RestUnfired
  <2>1. Busy = {}
    BY <1>6
  <2>2. q = r
    <3> SUFFICES ASSUME q # r PROVE FALSE
      OBVIOUS
    <3>1. run[q].todo = <<>> /\ run'[q].todo = run[q].todo
      BY <1>4, <2>1 DEF IInv, TypeOK
    <3> QED BY <3>1
  <2>3. todo[i] \in Timers /\ row[todo[i]] = "pending"
    BY <1>2, <1>3, <1>4, <2>2 DEF Loadable
  <2>4. todo[i] \notin fired
    BY <2>1, <2>3, IdleHoldsNothing DEF IInv, FiredAreHeld
  <2> QED BY <1>3, <1>4, <2>2, <2>4
<1> QED BY <1>6, <1>7, <1>8, <1>9, <1>10, <1>11, <1>12, <1>13, <1>14 DEF IInv

(* What save() does first: it reads the row of the next timer.              *)
LEMMA SavesFacts ==
    ASSUME IInv, NEW r \in Runs, run[r].at # "idle", NEW status \in {"triggered", "failed"},
           Saves(r, status)
    PROVE  /\ run' \in [Runs -> Entities]
           /\ \A q \in Runs \ {r} : run'[q] = run[q]
           /\ run'[r].at = "save" /\ run'[r].todo = run[r].todo /\ run'[r].status = status
           /\ run'[r].base = row[Head(run[r].todo)] /\ run'[r].base # NoRow
           /\ Busy' = Busy
<1>1. /\ Head(run[r].todo) \in Timers /\ row[Head(run[r].todo)] # NoRow
      /\ row[Head(run[r].todo)] \in Statuses \cup {NoRow}
  BY NextTimer DEF IInv, HeldRowsExist, TypeOK
<1>2. run' \in [Runs -> Entities]
  <2> DEFINE new == [run[r] EXCEPT !.at = "save", !.status = status,
                                   !.base = row[Head(run[r].todo)]]
  <2>1. run \in [Runs -> Entities] /\ run[r] \in Entities
    BY DEF IInv, Shape
  <2>2. new \in Entities
    BY <1>1, <2>1 DEF Entities, Statuses
  <2>3. run' = [run EXCEPT ![r] = new]
    BY <2>1 DEF Saves
  <2> HIDE DEF new
  <2> QED BY <2>1, <2>2, <2>3
<1>3. /\ \A q \in Runs \ {r} : run'[q] = run[q]
      /\ run'[r].at = "save" /\ run'[r].todo = run[r].todo /\ run'[r].status = status
      /\ run'[r].base = row[Head(run[r].todo)]
  BY DEF Saves, IInv, Shape, Entities
<1> QED BY <1>1, <1>2, <1>3 DEF Busy

(* A run that reads the row leaves all but what was fired as it was.        *)
LEMMA ReadingKeeps ==
    ASSUME IInv, NEW r \in Runs, run[r].at # "idle", NEW status \in {"triggered", "failed"},
           Saves(r, status), UNCHANGED <<row, due, up, revoked, overlapped, died>>,
           faults' \in 0 .. MaxFaults
    PROVE  /\ fired' \subseteq fired \cup {Head(run[r].todo)} /\ again' \in BOOLEAN => TypeOK'
           /\ Shape' /\ HeldRowsExist' /\ SavesSettle' /\ EachOnce' /\ OneRun'
<1>1. ASSUME fired' \subseteq fired \cup {Head(run[r].todo)}, again' \in BOOLEAN
      PROVE  TypeOK'
  <2>1. Head(run[r].todo) \in Timers /\ row[Head(run[r].todo)] # NoRow
    BY NextTimer DEF IInv, HeldRowsExist
  <2>2. \A q \in Runs :
           /\ run'[q].at \in {"idle", "fire", "save", "fail"}
           /\ run'[q].todo = <<>> <=> q \notin Busy'
           /\ run'[q].base \in Statuses \cup {NoRow}
           /\ up' \/ q \notin Busy'
    <3> TAKE q \in Runs
    <3>1. run'[q] \in Entities /\ run[q] \in Entities /\ Busy' = Busy /\ up' = up
      BY SavesFacts DEF IInv, Shape
    <3>2. run'[q].todo = run[q].todo
      BY SavesFacts
    <3>3. /\ run[q].todo = <<>> <=> q \notin Busy
          /\ up \/ q \notin Busy
      BY DEF IInv, TypeOK
    <3> QED BY <3>1, <3>2, <3>3 DEF Entities
  <2> QED BY <1>1, <2>1, <2>2 DEF IInv, TypeOK
<1>2. Shape'
  BY SavesFacts DEF Shape
<1>3. HeldRowsExist' /\ EachOnce'
  BY SavesFacts DEF IInv, HeldRowsExist, EachOnce, Holds
<1>4. SavesSettle'
  BY SavesFacts DEF IInv, SavesSettle
<1>5. OneRun'
  BY SavesFacts DEF IInv, OneRun
<1> QED BY <1>1, <1>2, <1>3, <1>4, <1>5

(* publish() fires the next timer of the run, which no other run holds and  *)
(* which was not fired while no runs overlap and none died.                 *)
LEMMA FireKeeps ==
    ASSUME IInv, NEW r \in Runs, Fire(r)
    PROVE  IInv'
<1> DEFINE t == Head(run[r].todo)
<1>1. /\ run[r].at = "fire" /\ fired' = fired \cup {t}
      /\ again' = (again \/ (t \in fired /\ ~overlapped /\ ~died))
      /\ Saves(r, "triggered")
      /\ UNCHANGED <<row, due, up, faults, revoked, overlapped, died>>
  BY DEF Fire
<1>2. /\ run[r].todo \in Seq(Timers) /\ Len(run[r].todo) \in Nat \ {0}
      /\ t = run[r].todo[1] /\ t \in Timers /\ Holds(r, t)
  BY <1>1, NextTimer DEF IInv
<1>3. /\ \A q \in Runs : run'[q].todo = run[q].todo
      /\ \A q \in Runs \ {r} : run'[q] = run[q]
      /\ run'[r].at = "save" /\ Busy' = Busy
  BY <1>1, SavesFacts
<1>4. ~overlapped /\ ~died => t \notin fired
  BY <1>1, <1>2 DEF IInv, RestUnfired
<1>5. ~again'
  BY <1>1, <1>4 DEF IInv
<1> HIDE DEF t
<1>6. TypeOK' /\ Shape' /\ HeldRowsExist' /\ SavesSettle' /\ EachOnce' /\ OneRun'
  <2>1. faults' \in 0 .. MaxFaults /\ fired' \subseteq fired \cup {t} /\ again' \in BOOLEAN
    BY <1>1, <1>5 DEF IInv, TypeOK
  <2> QED BY <1>1, <2>1, ReadingKeeps DEF t
<1>7. FiredAreHeld'
  BY <1>1, <1>2, <1>3 DEF IInv, FiredAreHeld, Holds
<1>8. RevokedAreFree'
  BY <1>1, <1>2, <1>3 DEF IInv, RevokedAreFree, Holds
<1>9. RestUnfired'
  <2> SUFFICES ASSUME ~overlapped, ~died, NEW q \in Runs, NEW i \in 1 .. Len(run[q].todo),
                      i > 1 \/ run'[q].at = "fire"
               PROVE  run[q].todo[i] \notin fired \cup {t}
    BY <1>1, <1>3 DEF RestUnfired
  <2>1. q \in Busy /\ r \in Busy
    BY <1>1 DEF IInv, TypeOK, Busy
  <2>2. q = r /\ i > 1
    BY <1>3, <2>1 DEF IInv, OneRun
  <2> QED BY <1>2, <2>2 DEF IInv, RestUnfired, EachOnce
<1> QED BY <1>5, <1>6, <1>7, <1>8, <1>9 DEF IInv

\* a publication that fails,
LEMMA FireFailsKeeps ==
    ASSUME IInv, TimersAssumption, NEW r \in Runs, FireFails(r)
    PROVE  IInv'
<1>1. /\ run[r].at = "fire" /\ Saves(r, "failed")
      /\ UNCHANGED <<row, due, up, fired, revoked, overlapped, died, again>>
  BY DEF FireFails, ghosts
<1>2. faults' \in 0 .. MaxFaults
  BY DEF FireFails, IInv, TypeOK, TimersAssumption
<1>3. /\ \A q \in Runs : run'[q].todo = run[q].todo
      /\ \A q \in Runs \ {r} : run'[q] = run[q]
      /\ run'[r].at = "save"
  BY <1>1, SavesFacts
<1>4. TypeOK' /\ Shape' /\ HeldRowsExist' /\ SavesSettle' /\ EachOnce' /\ OneRun'
  <2>1. again' \in BOOLEAN
    BY <1>1 DEF IInv, TypeOK
  <2> QED BY <1>1, <1>2, <2>1, ReadingKeeps
<1>5. FiredAreHeld' /\ RevokedAreFree'
  BY <1>1, <1>3 DEF IInv, FiredAreHeld, RevokedAreFree, Holds
<1>6. RestUnfired'
  BY <1>1, <1>3 DEF IInv, RestUnfired
<1> QED BY <1>1, <1>4, <1>5, <1>6 DEF IInv

\* the read of the save after it,
LEMMA FailureReadsKeeps ==
    ASSUME IInv, NEW r \in Runs, FailureReads(r)
    PROVE  IInv'
<1>1. /\ run[r].at = "fail" /\ Saves(r, "failed")
      /\ UNCHANGED <<row, due, up, faults, fired, revoked, overlapped, died, again>>
  BY DEF FailureReads, ghosts, IInv, SavesSettle
<1>2. faults' \in 0 .. MaxFaults
  BY <1>1 DEF IInv, TypeOK
<1>3. /\ \A q \in Runs : run'[q].todo = run[q].todo
      /\ \A q \in Runs \ {r} : run'[q] = run[q]
      /\ run'[r].at = "save"
  BY <1>1, SavesFacts
<1>4. TypeOK' /\ Shape' /\ HeldRowsExist' /\ SavesSettle' /\ EachOnce' /\ OneRun'
  <2>1. again' \in BOOLEAN
    BY <1>1 DEF IInv, TypeOK
  <2> QED BY <1>1, <1>2, <2>1, ReadingKeeps
<1>5. FiredAreHeld' /\ RevokedAreFree'
  BY <1>1, <1>3 DEF IInv, FiredAreHeld, RevokedAreFree, Holds
<1>6. RestUnfired'
  BY <1>1, <1>3 DEF IInv, RestUnfired
<1> QED BY <1>1, <1>4, <1>5, <1>6 DEF IInv

(* What the update of a save leaves in the row.                             *)
LEMMA WritesFacts ==
    ASSUME IInv, NEW r \in Runs, run[r].at = "save", Writes(r)
    PROVE  /\ row' \in [Timers -> Statuses \cup {NoRow}]
           /\ \A t \in Timers \ {Head(run[r].todo)} : row'[t] = row[t]
           /\ row'[Head(run[r].todo)] \notin {NoRow, "pending"}
<1> DEFINE t == Head(run[r].todo)
<1>1. t \in Timers /\ row[t] # NoRow
  BY NextTimer DEF IInv, HeldRowsExist
<1>2. /\ run[r].status \in {"triggered", "failed"} /\ run[r].base # NoRow
      /\ run[r].base # "pending" => row[t] # "pending"
  BY DEF IInv, SavesSettle
<1>3. row' = [row EXCEPT ![t] = IF run[r].status # run[r].base THEN run[r].status ELSE @]
  BY DEF Writes
<1> HIDE DEF t
<1>4. /\ row' \in [Timers -> Statuses \cup {NoRow}]
      /\ \A u \in Timers \ {t} : row'[u] = row[u]
  BY <1>2, <1>3 DEF IInv, TypeOK, Statuses
<1>5. row'[t] = IF run[r].status # run[r].base THEN run[r].status ELSE row[t]
  BY <1>1, <1>3 DEF IInv, TypeOK
<1>6. run[r].status # NoRow
  BY <1>2, TimersAssumption DEF TimersAssumption, Statuses
<1> QED BY <1>1, <1>2, <1>4, <1>5, <1>6 DEF t

(* The save of a timer leaves it settled, and the run goes on to the next.  *)
LEMMA SaveKeeps ==
    ASSUME IInv, TimersAssumption, NEW r \in Runs, Save(r)
    PROVE  IInv'
<1> DEFINE t == Head(run[r].todo)
           rest == Tail(run[r].todo)
           next == IF Len(run[r].todo) = 1 THEN Idle ELSE [Idle EXCEPT !.at = "fire", !.todo = rest]
<1>1. /\ run[r].at = "save" /\ Writes(r)
      /\ UNCHANGED <<due, up, faults, fired, revoked, overlapped, died, again>>
      /\ run' = [run EXCEPT ![r] = next]
  BY DEF Save, ghosts
<1>2. /\ run[r].todo \in Seq(Timers) /\ Len(run[r].todo) \in Nat \ {0}
      /\ t = run[r].todo[1] /\ t \in Timers /\ Holds(r, t)
  BY <1>1, NextTimer DEF IInv
<1>3. /\ rest \in Seq(Timers) /\ Len(rest) = Len(run[r].todo) - 1
      /\ \A i \in 1 .. Len(rest) : rest[i] = run[r].todo[i + 1]
  BY <1>1, RestFacts DEF IInv
<1>4. /\ row' \in [Timers -> Statuses \cup {NoRow}]
      /\ \A u \in Timers \ {t} : row'[u] = row[u]
      /\ row'[t] \notin {NoRow, "pending"}
  BY <1>1, WritesFacts
<1>5. /\ next \in Entities /\ next.base = NoRow /\ next.todo = rest
      /\ next.at = IF rest = <<>> THEN "idle" ELSE "fire"
  <2> HIDE DEF rest
  <2>1. CASE Len(run[r].todo) = 1
    <3>1. next = Idle
      BY <2>1
    <3>2. rest \in Seq(Timers) /\ Len(rest) = 0
      BY <1>3, <2>1
    <3>3. rest = <<>>
      BY <3>2, EmptySeq
    <3> HIDE DEF next
    <3> QED BY <3>1, <3>3 DEF Idle, Entities, Statuses
  <2>2. CASE Len(run[r].todo) # 1
    <3>1. next = [Idle EXCEPT !.at = "fire", !.todo = rest]
      BY <2>2
    <3>2. Len(rest) # 0
      BY <1>2, <1>3, <2>2
    <3>3. rest # <<>>
      BY <3>2
    <3> HIDE DEF next
    <3> QED BY <1>3, <3>1, <3>3 DEF Idle, Entities, Statuses
  <2> QED BY <2>1, <2>2
<1> HIDE DEF next, rest, t
<1>6. run' \in [Runs -> Entities] /\ run'[r] = next /\ \A q \in Runs \ {r} : run'[q] = run[q]
  BY <1>1, <1>5 DEF IInv, Shape
<1>7. /\ Busy' \subseteq Busy /\ r \in Busy
      /\ \A q \in Runs \ {r} : q \in Busy' <=> q \in Busy
      /\ r \in Busy' <=> rest # <<>>
  BY <1>1, <1>5, <1>6 DEF Busy
\* The timer of the others and those the run has left are those it held.
<1>8. \A q \in Runs, u \in Timers : Holds(q, u)' => Holds(q, u)
  <2> SUFFICES ASSUME NEW q \in Runs, NEW u \in Timers, Holds(q, u)'
               PROVE  Holds(q, u)
    OBVIOUS
  <2>1. CASE q # r
    BY <1>6, <2>1 DEF Holds
  <2>2. CASE q = r
    <3>1. PICK i \in 1 .. Len(rest) : rest[i] = u
      BY <1>5, <1>6, <2>2 DEF Holds
    <3>2. i + 1 \in 1 .. Len(run[r].todo) /\ run[r].todo[i + 1] = u
      BY <1>2, <1>3, <3>1
    <3> QED BY <2>2, <3>2 DEF Holds
  <2> QED BY <2>1, <2>2
<1>9. \A q \in Runs, u \in Timers \ {t} : Holds(q, u) => Holds(q, u)'
  <2> SUFFICES ASSUME NEW q \in Runs, NEW u \in Timers \ {t}, Holds(q, u)
               PROVE  Holds(q, u)'
    OBVIOUS
  <2>1. CASE q # r
    BY <1>6, <2>1 DEF Holds
  <2>2. CASE q = r
    <3>1. PICK i \in 1 .. Len(run[r].todo) : run[r].todo[i] = u
      BY <2>2 DEF Holds
    <3>2. i - 1 \in 1 .. Len(rest) /\ rest[i - 1] = u
      BY <1>2, <1>3, <3>1
    <3> QED BY <1>5, <1>6, <2>2, <3>2 DEF Holds
  <2> QED BY <2>1, <2>2
<1>10. TypeOK'
  <2>1. due' \cup fired' \cup revoked' \subseteq {u \in Timers : row'[u] # NoRow}
    BY <1>1, <1>4 DEF IInv, TypeOK
  <2>2. \A q \in Runs :
           /\ run'[q].at \in {"idle", "fire", "save", "fail"}
           /\ run'[q].todo = <<>> <=> q \notin Busy'
           /\ run'[q].base \in Statuses \cup {NoRow}
           /\ up' \/ q \notin Busy'
    BY <1>1, <1>5, <1>6, <1>7 DEF IInv, TypeOK, Entities
  <2> QED BY <1>1, <1>4, <2>1, <2>2 DEF IInv, TypeOK
<1>11. Shape'
  BY <1>6 DEF Shape
<1>12. HeldRowsExist'
  BY <1>4, <1>8 DEF IInv, HeldRowsExist
<1>13. SavesSettle'
  BY <1>4, <1>5, <1>6, NextTimer DEF IInv, SavesSettle
<1>14. FiredAreHeld'
  BY <1>1, <1>4, <1>9 DEF IInv, FiredAreHeld, TypeOK
<1>15. RevokedAreFree'
  BY <1>1, <1>2, <1>4, <1>8 DEF IInv, RevokedAreFree, TypeOK
<1>16. EachOnce'
  <2> SUFFICES ASSUME NEW i \in 1 .. Len(rest), NEW j \in 1 .. Len(rest), rest[i] = rest[j]
               PROVE  i = j
    BY <1>5, <1>6 DEF IInv, EachOnce
  <2>1. /\ i + 1 \in 1 .. Len(run[r].todo) /\ j + 1 \in 1 .. Len(run[r].todo)
        /\ run[r].todo[i + 1] = run[r].todo[j + 1]
    BY <1>2, <1>3
  <2> QED BY <2>1 DEF IInv, EachOnce
<1>17. OneRun'
  BY <1>1, <1>7 DEF IInv, OneRun
<1>18. RestUnfired'
  <2> SUFFICES ASSUME ~overlapped, ~died, NEW i \in 1 .. Len(rest)
               PROVE  rest[i] \notin fired
    BY <1>1, <1>5, <1>6 DEF IInv, RestUnfired
  <2>1. i + 1 \in 1 .. Len(run[r].todo) /\ i + 1 > 1
    BY <1>2, <1>3
  <2> QED BY <1>3, <2>1 DEF IInv, RestUnfired
<1> QED BY <1>1, <1>10, <1>11, <1>12, <1>13, <1>14, <1>15, <1>16, <1>17, <1>18 DEF IInv

(* A save that throws leaves the timer with the run.                        *)
LEMMA SaveFailsKeeps ==
    ASSUME IInv, TimersAssumption, NEW r \in Runs, SaveFails(r)
    PROVE  IInv'
<1> DEFINE t == Head(run[r].todo)
<1>1. /\ run[r].at = "save" /\ (row' = row \/ Writes(r))
      /\ UNCHANGED <<due, up, fired, revoked, overlapped, died, again>>
      /\ run' = [run EXCEPT ![r].at = "fail", ![r].status = "failed"]
  BY DEF SaveFails, ghosts
<1>2. faults' \in 0 .. MaxFaults
  BY DEF SaveFails, IInv, TypeOK, TimersAssumption
<1>3. t \in Timers /\ Holds(r, t) /\ row[t] # NoRow
  BY <1>1, NextTimer DEF IInv, HeldRowsExist
<1>4. /\ row' \in [Timers -> Statuses \cup {NoRow}]
      /\ \A u \in Timers \ {t} : row'[u] = row[u]
      /\ row'[t] # NoRow /\ (row'[t] = "pending" => row[t] = "pending")
  <2>1. CASE row' = row
    BY <1>3, <2>1 DEF IInv, TypeOK
  <2>2. CASE Writes(r)
    BY <1>1, <2>2, WritesFacts
  <2> QED BY <1>1, <2>1, <2>2
<1> HIDE DEF t
<1>5. /\ run' \in [Runs -> Entities] /\ \A q \in Runs \ {r} : run'[q] = run[q]
      /\ run'[r].at = "fail" /\ run'[r].status = "failed"
      /\ \A q \in Runs : run'[q].todo = run[q].todo /\ run'[q].base = run[q].base
  BY <1>1 DEF IInv, Shape, Entities, Statuses
<1>6. Busy' = Busy
  BY <1>1, <1>5 DEF Busy
<1>7. \A q \in Runs, u \in Timers : Holds(q, u)' <=> Holds(q, u)
  BY <1>5 DEF Holds
<1>8. TypeOK'
  <2>1. due' \cup fired' \cup revoked' \subseteq {u \in Timers : row'[u] # NoRow}
    BY <1>1, <1>4 DEF IInv, TypeOK
  <2>2. \A q \in Runs :
           /\ run'[q].at \in {"idle", "fire", "save", "fail"}
           /\ run'[q].todo = <<>> <=> q \notin Busy'
           /\ run'[q].base \in Statuses \cup {NoRow}
           /\ up' \/ q \notin Busy'
    BY <1>1, <1>5, <1>6 DEF IInv, TypeOK, Entities
  <2> QED BY <1>1, <1>2, <1>4, <2>1, <2>2 DEF IInv, TypeOK
<1>9. Shape' /\ EachOnce'
  BY <1>5 DEF IInv, Shape, EachOnce
<1>10. HeldRowsExist'
  BY <1>4, <1>7 DEF IInv, HeldRowsExist
<1>11. SavesSettle'
  BY <1>4, <1>5, NextTimer DEF IInv, SavesSettle
<1>12. FiredAreHeld'
  BY <1>1, <1>4, <1>7 DEF IInv, FiredAreHeld, TypeOK
<1>13. RevokedAreFree'
  BY <1>1, <1>3, <1>4, <1>7 DEF IInv, RevokedAreFree, TypeOK
<1>14. OneRun' /\ RestUnfired'
  BY <1>1, <1>5, <1>6 DEF IInv, OneRun, RestUnfired
<1> QED BY <1>1, <1>8, <1>9, <1>10, <1>11, <1>12, <1>13, <1>14 DEF IInv

------------------------------------------------------------------------------

\* The invariant holds before any timer is scheduled,
LEMMA InitIInv ==
    ASSUME TimersAssumption, Init
    PROVE  IInv
<1>1. Idle \in Entities /\ Idle.at = "idle" /\ Idle.todo = <<>>
  BY DEF Idle, Entities, Statuses
<1>2. \A r \in Runs : run[r] = Idle /\ Len(run[r].todo) = 0
  BY <1>1 DEF Init
<1>3. Busy = {} /\ \A r \in Runs, t \in Timers : ~Holds(r, t)
  BY <1>1, <1>2 DEF Busy, Holds
<1>4. TypeOK
  <2>1. due \cup fired \cup revoked \subseteq {t \in Timers : row[t] # NoRow}
    BY DEF Init
  <2>2. row \in [Timers -> Statuses \cup {NoRow}] /\ faults \in 0 .. MaxFaults
    BY DEF Init, TimersAssumption
  <2>3. {up, overlapped, died, again} \subseteq BOOLEAN
    BY DEF Init
  <2>4. \A r \in Runs :
           /\ run[r].at \in {"idle", "fire", "save", "fail"}
           /\ run[r].todo = <<>> <=> r \notin Busy
           /\ run[r].base \in Statuses \cup {NoRow}
           /\ up \/ r \notin Busy
    BY <1>1, <1>2, <1>3 DEF Entities
  <2> QED BY <2>1, <2>2, <2>3, <2>4 DEF TypeOK
<1>5. Shape /\ HeldRowsExist /\ SavesSettle /\ OneRun
  BY <1>1, <1>2, <1>3 DEF Shape, HeldRowsExist, SavesSettle, OneRun, Init
<1>6. FiredAreHeld /\ RevokedAreFree /\ EachOnce /\ RestUnfired /\ ~again
  BY <1>2 DEF FiredAreHeld, RevokedAreFree, EachOnce, RestUnfired, Init
<1> QED BY <1>4, <1>5, <1>6 DEF IInv

\* when nothing changes,
LEMMA StutteringKeeps ==
    ASSUME IInv, UNCHANGED vars
    PROVE  IInv'
BY DEF vars, ghosts, IInv, TypeOK, Shape, HeldRowsExist, SavesSettle, FiredAreHeld,
       RevokedAreFree, EachOnce, OneRun, RestUnfired, Holds, Busy

\* and after every step.
LEMMA NextKeeps ==
    ASSUME IInv, TimersAssumption, [Next]_vars
    PROVE  IInv'
<1>1. CASE \E t \in Timers : Schedule(t) \/ Cancel(t) \/ FallsDue(t)
  BY <1>1, ScheduleKeeps, CancelKeeps, FallsDueKeeps
<1>2. CASE \E r \in Runs : Load(r) \/ Step(r) \/ FireFails(r) \/ SaveFails(r)
  BY <1>2, LoadKeeps, FireKeeps, SaveKeeps, FailureReadsKeeps, FireFailsKeeps, SaveFailsKeeps
     DEF Step
<1>3. CASE Crash \/ Restart
  BY <1>3, CrashKeeps, RestartKeeps
<1>4. CASE UNCHANGED vars
  BY <1>4, StutteringKeeps
<1> QED BY <1>1, <1>2, <1>3, <1>4 DEF Next

\* What a run still has and what the rows say fit together: see IInv.
THEOREM Invariance == Spec => []IInv
<1>1. Init => IInv
  BY InitIInv, TimersAssumption
<1>2. IInv /\ [Next]_vars => IInv'
  BY NextKeeps, TimersAssumption
<1> QED BY <1>1, <1>2, PTL DEF Spec

(* The types, and that an idle run has nothing left and none is busy while  *)
(* the process is down.                                                     *)
THEOREM TypeCorrect == Spec => []TypeOK
<1>1. IInv => TypeOK
  BY DEF IInv
<1> QED BY <1>1, Invariance, PTL

(* A timer that TimerService.cancel() cancelled before any run loaded it is *)
(* never published, whatever runs overlap, fail or die.                     *)
THEOREM CancelledNeverFires == Spec => []RevokedNeverFires
<1>1. IInv => RevokedNeverFires
  BY DEF IInv, RevokedAreFree, RevokedNeverFires
<1> QED BY <1>1, Invariance, PTL

(* A timer that was published is not pending once no run of processTimers() *)
(* holds it, unless the process died in a run.                              *)
THEOREM FiredSettles == Spec => []FiredIsSettled
<1>1. IInv => FiredIsSettled
  <2> SUFFICES ASSUME IInv, NEW t \in fired, Holding(t) = {}, ~died
               PROVE  row[t] # "pending"
    BY DEF FiredIsSettled
  <2>1. t \in Timers
    BY DEF IInv, TypeOK
  <2> QED BY <2>1, HoldingIsHolds DEF IInv, FiredAreHeld
<1> QED BY <1>1, Invariance, PTL

(* A timer is published once unless runs overlap or the process dies in one.*)
THEOREM FiresOnce == Spec => []FiresOnceUnlessDisturbed
<1>1. IInv => FiresOnceUnlessDisturbed
  BY DEF IInv, FiresOnceUnlessDisturbed
<1> QED BY <1>1, Invariance, PTL

=============================================================================
