-------------------------------- MODULE Replica --------------------------------
(***************************************************************************)
(* What the read model of an account promises to who reads it: while it is  *)
(* trusted, it shows values that the account had all at one time, and it    *)
(* never goes back.  It stops being trusted when an event may have been     *)
(* missed, and is again from a repair on, which shows the account as it is. *)
(***************************************************************************)
EXTENDS Integers, Sequences, FiniteSetsExt

CONSTANT NoRow

VARIABLES
    kinds,      \* the kinds of the account's events, in order
    shown,      \* column -> position of the event whose value it shows, or NoRow
    trusted

rvars == <<kinds, shown, trusted>>

Columns == {"balance", "status"}

\* The position of the event that gave a column its value at the time of the n-th.
Value(column, n) == Max({p \in 1 .. n : kinds[p] \in {"created", column}})

\* The account after n events.
Snapshot(n) == [column \in Columns |-> Value(column, n)]

Init == kinds = <<>> /\ shown = NoRow /\ trusted = TRUE

\* An event is stored, and perhaps nobody will show it.
Store(kind) ==
    /\ kinds = <<>> <=> kind = "created"
    /\ kinds' = Append(kinds, kind)
    /\ trusted' \in {trusted, FALSE}
    /\ UNCHANGED shown

\* The row moves on to what the account was at one time, of no column back.
CatchUp ==
    /\ trusted
    /\ \E n \in 1 .. Len(kinds) : shown' = Snapshot(n)
    /\ shown # NoRow => \A column \in Columns : shown'[column] >= shown[column]
    /\ UNCHANGED <<kinds, trusted>>

Doubt == trusted' = FALSE /\ UNCHANGED <<kinds, shown>>

\* Nobody promised anything.
Drift == ~trusted /\ UNCHANGED <<kinds, trusted>>

Repair ==
    /\ ~trusted /\ trusted' = TRUE
    /\ shown' = Snapshot(Len(kinds))
    /\ UNCHANGED kinds

Next ==
    \/ \E kind \in {"created", "balance", "status", "other"} : Store(kind)
    \/ CatchUp \/ Doubt \/ Drift \/ Repair

Spec == Init /\ [][Next]_rvars

==============================================================================
