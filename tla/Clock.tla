--------------------------------- MODULE Clock ---------------------------------
(***************************************************************************)
(* The hybrid logical clock: the pair of its last physical time and counter. *)
(* A physical time is whatever Date.now() returns, forwards or backwards.   *)
(***************************************************************************)
EXTENDS Integers

Stamps == [physical : Nat, counter : Nat]

Zero == [physical |-> 0, counter |-> 0]

Stamp(p, c) == [physical |-> p, counter |-> c]

\* The order the clock is meant to give.
Before(s, t) ==
    \/ s.physical < t.physical
    \/ s.physical = t.physical /\ s.counter < t.counter

\* Mutant: the counter starts again whenever the physical time differs.
NowTrusting(clock, time) ==
    IF time # clock.physical THEN Stamp(time, 0) ELSE Stamp(time, clock.counter + 1)

\* HLC.now()
Now(clock, time) ==
    IF time > clock.physical THEN Stamp(time, 0)
    ELSE Stamp(clock.physical, clock.counter + 1)

Max3(a, b, c) == IF a >= b /\ a >= c THEN a ELSE IF b >= c THEN b ELSE c

\* Mutant: the clock steps past the latest time instead of counting.
UpdateAhead(clock, remote, time) == Stamp(Max3(time, clock.physical, remote.physical) + 1, 0)

\* HLC.update()
Update(clock, remote, time) ==
    LET max == Max3(time, clock.physical, remote.physical)
    IN  CASE max = clock.physical /\ max = remote.physical ->
                Stamp(max, (IF clock.counter >= remote.counter THEN clock.counter
                            ELSE remote.counter) + 1)
          [] max = clock.physical /\ max # remote.physical -> Stamp(max, clock.counter + 1)
          [] max # clock.physical /\ max = remote.physical -> Stamp(max, remote.counter + 1)
          [] OTHER -> Stamp(max, 0)

==============================================================================
