---------------------------- MODULE AccountProofs ----------------------------
(***************************************************************************)
(* Lemmas about the operators of Account, and about SumFunction(), with     *)
(* which invariants add up what accounts, regions and transactions hold.    *)
(***************************************************************************)
EXTENDS Account, Functions, SequenceTheorems, FiniteSetTheorems, TLAPS

------------------------------------------------------------------------------
(* What events do to a state.                                               *)

\* Record and map updates of the handlers stay inside the types.
LEMMA UpdateType ==
    ASSUME NEW s \in States, NEW r \in [Regions -> Int], NEW t \in Int, NEW v \in Nat
    PROVE  /\ [s EXCEPT !.reserved = r, !.total = t, !.version = v] \in States
           /\ \A b \in Int :
                 [s EXCEPT !.reserved = r, !.total = t, !.balance = b, !.version = v] \in States
BY DEF States

\* Reserving and releasing keep reservations and their total integers.
LEMMA ReservedType ==
    ASSUME NEW s \in States, NEW q \in Regions, NEW d \in Int
    PROVE  /\ [s.reserved EXCEPT ![q] = @ + d] \in [Regions -> Int]
           /\ [s.reserved EXCEPT ![q] = @ - d] \in [Regions -> Int]
           /\ s.total + d \in Int
           /\ s.total - d \in Int
BY DEF States

\* A state that a creation puts at the head of a log is a state.
LEMMA CreatedType ==
    ASSUME NEW r \in Regions
    PROVE  Created(r) \in States /\ <<Created(r)>> \in Seq(States)
<1>1. [q \in Regions |-> 0] \in [Regions -> Int]
    OBVIOUS
<1>2. Created(r) \in States
    BY <1>1 DEF Created, States, Statuses
<1>3. QED  BY <1>2

\* Applying an event of the account to a state of the account gives a state.
LEMMA ApplyType ==
    ASSUME NEW s \in States, NEW e \in Events
    PROVE  Apply(s, e) \in States
<1>1. CASE e \in BalanceChangedEvents
    <2>1. e.type = "BalanceChanged" /\ e.region \in Regions /\ e.amount \in Int
          /\ e.newBalance \in Int /\ e.version \in Nat
        BY <1>1 DEF BalanceChangedEvents
    <2>2. Apply(s, e) = OnBalanceChanged(s, e)
        BY <2>1 DEF Apply
    <2> DEFINE taken == IF e.change = "DEBIT" THEN e.amount ELSE 0
    <2>3. taken \in Int
        BY <2>1
    <2> HIDE DEF taken
    <2>4. [s EXCEPT !.reserved = [s.reserved EXCEPT ![e.region] = @ - taken],
                    !.total = s.total - taken, !.balance = e.newBalance,
                    !.version = e.version] \in States
        BY <2>1, <2>3, UpdateType, ReservedType
    <2>5. QED  BY <2>2, <2>4 DEF OnBalanceChanged, taken
<1>2. CASE e \in BalanceReservedEvents
    <2>1. e.type = "BalanceReserved" /\ e.region \in Regions /\ e.amount \in Int
          /\ e.version \in Nat
        BY <1>2 DEF BalanceReservedEvents
    <2>2. Apply(s, e) = OnBalanceReserved(s, e)
        BY <2>1 DEF Apply
    <2>3. [s EXCEPT !.reserved = [s.reserved EXCEPT ![e.region] = @ + e.amount],
                    !.total = s.total + e.amount, !.version = e.version] \in States
        BY <2>1, UpdateType, ReservedType
    <2>4. QED  BY <2>2, <2>3 DEF OnBalanceReserved
<1>3. CASE e \in StatusChangedEvents
    <2>1. e.type = "AccountStatusChanged" /\ e.newStatus \in Statuses /\ e.version \in Nat
        BY <1>3 DEF StatusChangedEvents
    <2>2. Apply(s, e) = OnAccountStatusChanged(s, e)
        BY <2>1 DEF Apply
    <2>3. QED  BY <2>1, <2>2 DEF States, OnAccountStatusChanged
<1>4. QED  BY <1>1, <1>2, <1>3 DEF Events

\* What each kind of event does to the fields of a state.
LEMMA ApplyFields ==
    ASSUME NEW s \in States, NEW e \in Events
    PROVE  /\ e \in BalanceChangedEvents =>
                /\ Apply(s, e).status = s.status
                /\ Apply(s, e).balance = e.newBalance
                /\ Apply(s, e).version = e.version
                /\ e.change = "CREDIT" => /\ Apply(s, e).reserved = s.reserved
                                          /\ Apply(s, e).total = s.total
                /\ e.change = "DEBIT" =>
                      /\ Apply(s, e).reserved = [s.reserved EXCEPT ![e.region] = @ - e.amount]
                      /\ Apply(s, e).total = s.total - e.amount
           /\ e \in BalanceReservedEvents =>
                /\ Apply(s, e).status = s.status
                /\ Apply(s, e).balance = s.balance
                /\ Apply(s, e).version = e.version
                /\ Apply(s, e).reserved = [s.reserved EXCEPT ![e.region] = @ + e.amount]
                /\ Apply(s, e).total = s.total + e.amount
           /\ e \in StatusChangedEvents =>
                /\ Apply(s, e).status = e.newStatus
                /\ Apply(s, e).balance = s.balance
                /\ Apply(s, e).version = e.version
                /\ Apply(s, e).reserved = s.reserved
                /\ Apply(s, e).total = s.total
<1>1. ASSUME e \in BalanceChangedEvents
      PROVE  /\ Apply(s, e).status = s.status
             /\ Apply(s, e).balance = e.newBalance
             /\ Apply(s, e).version = e.version
             /\ e.change = "CREDIT" => /\ Apply(s, e).reserved = s.reserved
                                       /\ Apply(s, e).total = s.total
             /\ e.change = "DEBIT" =>
                   /\ Apply(s, e).reserved = [s.reserved EXCEPT ![e.region] = @ - e.amount]
                   /\ Apply(s, e).total = s.total - e.amount
    <2>1. e.type = "BalanceChanged" /\ e.region \in Regions /\ e.amount \in Int
        BY <1>1 DEF BalanceChangedEvents
    <2>2. Apply(s, e) = OnBalanceChanged(s, e)
        BY <2>1 DEF Apply
    <2>3. s.total - 0 = s.total /\ [s.reserved EXCEPT ![e.region] = @ - 0] = s.reserved
        BY <2>1 DEF States
    <2>4. QED  BY <2>2, <2>3 DEF OnBalanceChanged, States
<1>2. ASSUME e \in BalanceReservedEvents
      PROVE  /\ Apply(s, e).status = s.status
             /\ Apply(s, e).balance = s.balance
             /\ Apply(s, e).version = e.version
             /\ Apply(s, e).reserved = [s.reserved EXCEPT ![e.region] = @ + e.amount]
             /\ Apply(s, e).total = s.total + e.amount
    <2>1. e.type = "BalanceReserved"
        BY <1>2 DEF BalanceReservedEvents
    <2>2. Apply(s, e) = OnBalanceReserved(s, e)
        BY <2>1 DEF Apply
    <2>3. QED  BY <2>2 DEF OnBalanceReserved, States
<1>3. ASSUME e \in StatusChangedEvents
      PROVE  /\ Apply(s, e).status = e.newStatus
             /\ Apply(s, e).balance = s.balance
             /\ Apply(s, e).version = e.version
             /\ Apply(s, e).reserved = s.reserved
             /\ Apply(s, e).total = s.total
    <2>1. e.type = "AccountStatusChanged"
        BY <1>3 DEF StatusChangedEvents
    <2>2. Apply(s, e) = OnAccountStatusChanged(s, e)
        BY <2>1 DEF Apply
    <2>3. QED  BY <2>2 DEF OnAccountStatusChanged, States
<1>4. QED  BY <1>1, <1>2, <1>3

\* The event a command method builds from a state is an event.
LEMMA EventType ==
    ASSUME NEW s \in States, NEW r \in Regions, NEW x \in Int
    PROVE  /\ \A change \in Changes : BalanceChanged(s, r, change, x) \in Events
           /\ BalanceReserved(s, r, x) \in Events
           /\ \A new \in Statuses : StatusChanged(s, new) \in Events
<1>1. \A change \in Changes : BalanceChanged(s, r, change, x) \in BalanceChangedEvents
    BY DEF BalanceChanged, BalanceChangedEvents, States, Signed
<1>2. BalanceReserved(s, r, x) \in BalanceReservedEvents
    BY DEF BalanceReserved, BalanceReservedEvents, States
<1>3. \A new \in Statuses : StatusChanged(s, new) \in StatusChangedEvents
    BY DEF StatusChanged, StatusChangedEvents, States
<1>4. QED  BY <1>1, <1>2, <1>3 DEF Events

\* Replaying a balance change right behind the state it was decided on.
LEMMA BalanceChangedFields ==
    ASSUME NEW s \in States, NEW r \in Regions, NEW change \in Changes, NEW x \in Int
    PROVE  LET e == BalanceChanged(s, r, change, x)
           IN  /\ e \in BalanceChangedEvents /\ e.type = "BalanceChanged"
               /\ e.version = s.version + 1
               /\ e.newBalance = s.balance + Signed(change, x)
               /\ e.change = change /\ e.amount = x /\ e.region = r
<1>1. BalanceChanged(s, r, change, x) \in BalanceChangedEvents
    BY DEF BalanceChanged, BalanceChangedEvents, States, Signed
<1>2. QED  BY <1>1 DEF BalanceChanged

\* The type tags keep the three kinds of events apart.
LEMMA OtherEvents ==
    ASSUME NEW s \in States, NEW r \in Regions, NEW x \in Int, NEW new \in Statuses
    PROVE  /\ BalanceReserved(s, r, x) \in BalanceReservedEvents
           /\ BalanceReserved(s, r, x).type = "BalanceReserved"
           /\ BalanceReserved(s, r, x).version = s.version + 1
           /\ BalanceReserved(s, r, x).region = r
           /\ BalanceReserved(s, r, x).amount = x
           /\ StatusChanged(s, new) \in StatusChangedEvents
           /\ StatusChanged(s, new).type = "AccountStatusChanged"
           /\ StatusChanged(s, new).version = s.version + 1
           /\ StatusChanged(s, new).newStatus = new
BY DEF BalanceReserved, BalanceReservedEvents, StatusChanged, StatusChangedEvents, States

\* The replenishment event moves nothing but the version.
LEMMA ReplenishmentFields ==
    ASSUME NEW s \in States, NEW v \in Nat
    PROVE  /\ OnReplenishment(s, v).status = s.status
           /\ OnReplenishment(s, v).balance = s.balance
           /\ OnReplenishment(s, v).reserved = s.reserved
           /\ OnReplenishment(s, v).total = s.total
           /\ OnReplenishment(s, v).version = v
BY DEF OnReplenishment, States

\* A command's one or two events lead to states of the account, and the last
\* differs from what the first event gives in the version only.
LEMMA ReplayedType ==
    ASSUME NEW s \in States, NEW e \in Events, NEW refill \in BOOLEAN
    PROVE  /\ Replayed(s, e, refill) \in Seq(States)
           /\ Len(Replayed(s, e, refill)) \in {1, 2}
           /\ \A n \in 1 .. Len(Replayed(s, e, refill)) :
                 /\ Replayed(s, e, refill)[n].balance = Apply(s, e).balance
                 /\ Replayed(s, e, refill)[n].reserved = Apply(s, e).reserved
                 /\ Replayed(s, e, refill)[n].total = Apply(s, e).total
           /\ \A n \in 1 .. Len(Replayed(s, e, refill)) :
                 Replayed(s, e, refill)[n] = Apply(s, e)
                 \/ Replayed(s, e, refill)[n] = OnReplenishment(Apply(s, e), e.version + 1)
<1> DEFINE next == Apply(s, e)
           last == OnReplenishment(next, e.version + 1)
<1>1. next \in States /\ e.version \in Nat
    BY ApplyType DEF Events, BalanceChangedEvents, BalanceReservedEvents, StatusChangedEvents
<1>2. /\ last \in States /\ last.balance = next.balance
      /\ last.reserved = next.reserved /\ last.total = next.total
    BY <1>1 DEF OnReplenishment, States
<1>3. Replayed(s, e, refill) = IF refill THEN <<next, last>> ELSE <<next>>
    BY DEF Replayed
<1> HIDE DEF next, last
<1>4. CASE refill
    BY <1>1, <1>2, <1>3, <1>4 DEF next, last
<1>5. CASE ~refill
    BY <1>1, <1>3, <1>5 DEF next
<1>6. QED  BY <1>4, <1>5

------------------------------------------------------------------------------
(* Sums.  Induction over the subsets of a finite set: a set of subsets that *)
(* fail has a smallest one.                                                 *)

Chosen(s) == CHOOSE x \in s : TRUE

\* it[s] adds f up over s, in the order in which CHOOSE takes the elements.
Adds(it, f, sets) ==
    it = [s \in sets |-> IF s = {} THEN 0 ELSE f[Chosen(s)] + it[s \ {Chosen(s)}]]

\* SumFunction, unfolded to the recursive function that the fold chooses.
LEMMA SumIsAdding ==
    ASSUME NEW S, NEW f, DOMAIN f = S
    PROVE  SumFunction(f) = (CHOOSE it : Adds(it, f, SUBSET S))[S]
BY DEF SumFunction, SumFunctionOnSet, FoldFunctionOnSet, MapThenFoldSet, Adds, Chosen

\* The element that a fold takes off next is one of the set.
LEMMA ChosenIsElement ==
    ASSUME NEW s, s # {}
    PROVE  Chosen(s) \in s
BY DEF Chosen

(* A set of subsets of a finite set that is not empty has a minimal element. *)
LEMMA MinimalSubset ==
    ASSUME NEW S, IsFiniteSet(S), NEW bad \in SUBSET SUBSET S, bad # {}
    PROVE  \E T \in bad : \A U \in bad : ~(U \subseteq T /\ U # T)
<1>1. IsWellFoundedOn(StrictSubsetOrdering(S), SUBSET S)
  BY FS_StrictSubsetOrderingWellFounded, FS_FiniteSubsetsOfFinite
<1>2. PICK T \in bad : \A U \in bad : <<U, T>> \notin StrictSubsetOrdering(S)
  BY <1>1, WFMin
<1>3. \A U \in bad : <<U, T>> \in (SUBSET S) \X (SUBSET S)
  OBVIOUS
<1> QED BY <1>2, <1>3 DEF StrictSubsetOrdering

\* That function exists: a smallest set without one would have one.
LEMMA AddingExists ==
    ASSUME NEW S, IsFiniteSet(S), NEW f
    PROVE  \E it : Adds(it, f, SUBSET S)
<1> DEFINE Level(T) == {s \in SUBSET S : Cardinality(s) <= Cardinality(T)}
           bad == {T \in SUBSET S : ~\E it : Adds(it, f, Level(T))}
<1>1. SUFFICES ASSUME bad # {} PROVE FALSE
  <2>1. Level(S) = SUBSET S
    BY FS_Subset
  <2> QED BY <2>1
<1>2. PICK T \in bad : \A U \in bad : ~(U \subseteq T /\ U # T)
  <2>1. bad \in SUBSET SUBSET S
    OBVIOUS
  <2> HIDE DEF bad
  <2> QED BY <1>1, <2>1, MinimalSubset
<1>3. CASE T = {}
  <2>1. Level(T) = {{}}
    <3>1. \A s \in SUBSET S : IsFiniteSet(s) /\ Cardinality(s) \in Nat
      BY FS_Subset, FS_CardinalityType
    <3> QED BY <1>3, <3>1, FS_EmptySet
  <2>2. Adds([s \in {{}} |-> 0], f, {{}})
    BY DEF Adds
  <2> HIDE DEF Level
  <2> QED BY <1>2, <2>1, <2>2
<1>4. CASE T # {}
  <2>1. PICK x \in T : TRUE
    BY <1>4
  <2> DEFINE U == T \ {x}
  <2>2. U \in SUBSET S /\ U \subseteq T /\ U # T
    BY <2>1
  <2>3. U \notin bad
    BY <1>2, <2>2
  <2>4. PICK it : Adds(it, f, Level(U))
    BY <2>2, <2>3
  <2>5. \A s \in Level(T) : s # {} => s \ {Chosen(s)} \in Level(U)
    <3> SUFFICES ASSUME NEW s \in Level(T), s # {}
                 PROVE  s \ {Chosen(s)} \in Level(U)
      OBVIOUS
    <3>1. IsFiniteSet(s) /\ IsFiniteSet(T)
      BY <1>2, FS_Subset
    <3>2. /\ Cardinality(s \ {Chosen(s)}) = Cardinality(s) - 1
          /\ Cardinality(U) = Cardinality(T) - 1
      BY <2>1, <3>1, FS_RemoveElement, ChosenIsElement
    <3>3. Cardinality(s) \in Nat /\ Cardinality(T) \in Nat /\ Cardinality(s) <= Cardinality(T)
      BY <3>1, FS_CardinalityType
    <3> QED BY <3>2, <3>3
  <2> DEFINE jt == [s \in Level(T) |-> IF s = {} THEN 0 ELSE f[Chosen(s)] + it[s \ {Chosen(s)}]]
  <2>6. \A s \in Level(U) : s \in Level(T) /\ it[s] = jt[s]
    <3>1. Level(U) \subseteq Level(T)
      <4>1. IsFiniteSet(T) /\ IsFiniteSet(U)
        BY <1>2, <2>2, FS_Subset
      <4>2. Cardinality(U) <= Cardinality(T) /\ Cardinality(U) \in Nat /\ Cardinality(T) \in Nat
        BY <2>2, <4>1, FS_Subset, FS_CardinalityType
      <4>3. \A s \in SUBSET S : Cardinality(s) \in Nat
        BY FS_Subset, FS_CardinalityType
      <4> QED BY <4>2, <4>3
    <3> HIDE DEF Level, U
    <3> QED BY <2>4, <3>1 DEF Adds
  <2>7. Adds(jt, f, Level(T))
    <3> HIDE DEF Level, U
    <3>1. \A s \in Level(T) : s # {} => it[s \ {Chosen(s)}] = jt[s \ {Chosen(s)}]
      BY <2>5, <2>6
    <3> QED BY <3>1 DEF Adds
  <2> HIDE DEF jt
  <2> QED BY <1>2, <2>7
<1> QED BY <1>3, <1>4

(* The same order of adding up serves every function: what one change of a  *)
(* function does to the sums over the subsets.                              *)
LEMMA AddingType ==
    ASSUME NEW S, IsFiniteSet(S), NEW f \in [S -> Int], NEW it, Adds(it, f, SUBSET S)
    PROVE  \A T \in SUBSET S : it[T] \in Int
<1> DEFINE bad == {T \in SUBSET S : it[T] \notin Int}
<1>1. SUFFICES ASSUME bad # {} PROVE FALSE
  OBVIOUS
<1>2. PICK T \in bad : \A U \in bad : ~(U \subseteq T /\ U # T)
  <2>1. bad \in SUBSET SUBSET S
    OBVIOUS
  <2> HIDE DEF bad
  <2> QED BY <1>1, <2>1, MinimalSubset
<1>3. it[T] = IF T = {} THEN 0 ELSE f[Chosen(T)] + it[T \ {Chosen(T)}]
  BY <1>2 DEF Adds
<1>4. T # {}
  BY <1>2, <1>3
<1>5. Chosen(T) \in T /\ it[T \ {Chosen(T)}] \in Int
  BY <1>2, <1>4, ChosenIsElement
<1> QED BY <1>2, <1>3, <1>4, <1>5

\* Two functions that agree except at x have sums that differ by that change.
LEMMA AddingChange ==
    ASSUME NEW S, IsFiniteSet(S), NEW f \in [S -> Int], NEW g \in [S -> Int], NEW x,
           \A y \in S \ {x} : g[y] = f[y],
           NEW it, Adds(it, f, SUBSET S), NEW jt, Adds(jt, g, SUBSET S)
    PROVE  \A T \in SUBSET S : jt[T] = it[T] + IF x \in T THEN g[x] - f[x] ELSE 0
<1> DEFINE Changed(T) == it[T] + IF x \in T THEN g[x] - f[x] ELSE 0
           bad == {T \in SUBSET S : jt[T] # Changed(T)}
<1>1. SUFFICES ASSUME bad # {} PROVE FALSE
  OBVIOUS
<1>2. PICK T \in bad : \A U \in bad : ~(U \subseteq T /\ U # T)
  <2>1. bad \in SUBSET SUBSET S
    OBVIOUS
  <2> HIDE DEF bad
  <2> QED BY <1>1, <2>1, MinimalSubset
<1> DEFINE c == Chosen(T)
           U == T \ {c}
<1>3. /\ it[T] = IF T = {} THEN 0 ELSE f[c] + it[U]
      /\ jt[T] = IF T = {} THEN 0 ELSE g[c] + jt[U]
  BY <1>2 DEF Adds
<1>4. T # {}
  BY <1>2, <1>3
<1>5. c \in T /\ c \in S /\ U \in SUBSET S
  BY <1>2, <1>4, ChosenIsElement
<1>6. jt[U] = it[U] + IF x \in U THEN g[x] - f[x] ELSE 0
  BY <1>2, <1>5
<1>7. it[U] \in Int /\ f[c] \in Int /\ g[c] \in Int
  BY <1>5, AddingType
<1>8. x \in T => f[x] \in Int /\ g[x] \in Int
  BY <1>2
<1> HIDE DEF c
<1>9. jt[T] = Changed(T)
  <2>1. CASE x = c
    BY <1>3, <1>4, <1>5, <1>6, <1>7, <2>1
  <2>2. CASE x # c
    <3>1. f[c] = g[c] /\ (x \in U <=> x \in T)
      BY <1>5, <2>2
    <3> QED BY <1>3, <1>4, <1>6, <1>7, <1>8, <3>1
  <2> QED BY <2>1, <2>2
<1> QED BY <1>2, <1>9

(* SumFunction() of a function into the integers is an integer, does not    *)
(* change where the function does not, and follows a change at one point.   *)
LEMMA SumAdds ==
    ASSUME NEW S, IsFiniteSet(S), NEW f \in [S -> Int]
    PROVE  \E it : Adds(it, f, SUBSET S) /\ SumFunction(f) = it[S]
<1>1. \E it : Adds(it, f, SUBSET S)
  BY AddingExists
<1> DEFINE it == CHOOSE it : Adds(it, f, SUBSET S)
<1>2. Adds(it, f, SUBSET S)
  BY <1>1
<1>3. SumFunction(f) = it[S]
  BY SumIsAdding
<1> QED BY <1>2, <1>3

\* A sum of integers is an integer.
LEMMA SumType ==
    ASSUME NEW S, IsFiniteSet(S), NEW f \in [S -> Int]
    PROVE  SumFunction(f) \in Int
<1>1. PICK it : Adds(it, f, SUBSET S) /\ SumFunction(f) = it[S]
  BY SumAdds
<1>2. \A T \in SUBSET S : it[T] \in Int
  BY <1>1, AddingType
<1> QED BY <1>1, <1>2

\* Changing one value changes the sum by as much.
LEMMA SumChange ==
    ASSUME NEW S, IsFiniteSet(S), NEW f \in [S -> Int], NEW g \in [S -> Int], NEW x \in S,
           \A y \in S \ {x} : g[y] = f[y]
    PROVE  SumFunction(g) = SumFunction(f) + (g[x] - f[x])
<1>1. PICK it : Adds(it, f, SUBSET S) /\ SumFunction(f) = it[S]
  BY SumAdds
<1>2. PICK jt : Adds(jt, g, SUBSET S) /\ SumFunction(g) = jt[S]
  BY SumAdds
<1> QED BY <1>1, <1>2, AddingChange

\* Zeros add up to zero.
LEMMA SumOfZeros ==
    ASSUME NEW S, IsFiniteSet(S)
    PROVE  SumFunction([x \in S |-> 0]) = 0
<1> DEFINE f == [x \in S |-> 0]
<1>1. PICK it : Adds(it, f, SUBSET S) /\ SumFunction(f) = it[S]
  BY SumAdds
<1> DEFINE bad == {T \in SUBSET S : it[T] # 0}
<1>2. SUFFICES ASSUME bad # {} PROVE FALSE
  BY <1>1
<1>3. PICK T \in bad : \A U \in bad : ~(U \subseteq T /\ U # T)
  <2>1. bad \in SUBSET SUBSET S
    OBVIOUS
  <2> HIDE DEF bad
  <2> QED BY <1>2, <2>1, MinimalSubset
<1>4. it[T] = IF T = {} THEN 0 ELSE f[Chosen(T)] + it[T \ {Chosen(T)}]
  BY <1>1, <1>3 DEF Adds
<1>5. T # {} /\ Chosen(T) \in T
  BY <1>3, <1>4, ChosenIsElement
<1> QED BY <1>3, <1>4, <1>5

------------------------------------------------------------------------------
\* An event of the account moves the map of reservations and its sum together.
LEMMA ApplyTotal ==
    ASSUME NEW s \in States, NEW e \in Events, s.total = SumFunction(s.reserved)
    PROVE  Apply(s, e).total = SumFunction(Apply(s, e).reserved)
<1>1. s.reserved \in [Regions -> Int] /\ s.total \in Int
    BY DEF States
<1>2. ASSUME NEW r \in Regions, NEW d \in Int
      PROVE  s.total + d = SumFunction([s.reserved EXCEPT ![r] = @ + d])
    <2> DEFINE moved == [s.reserved EXCEPT ![r] = @ + d]
    <2>1. moved \in [Regions -> Int] /\ moved[r] = s.reserved[r] + d
          /\ \A q \in Regions \ {r} : moved[q] = s.reserved[q]
        BY <1>1
    <2> HIDE DEF moved
    <2>2. SumFunction(moved) = SumFunction(s.reserved) + (moved[r] - s.reserved[r])
        BY <1>1, <2>1, SumChange, RegionsAssumption
    <2>3. s.reserved[r] \in Int
        BY <1>1
    <2>4. QED  BY <1>1, <2>1, <2>2, <2>3 DEF moved
<1>3. CASE e \in BalanceChangedEvents
    <2>1. e.region \in Regions /\ e.amount \in Int /\ -e.amount \in Int /\ e.change \in Changes
        BY <1>3 DEF BalanceChangedEvents
    <2>2. CASE e.change = "CREDIT"
        BY <1>3, <2>2, ApplyFields
    <2>3. CASE e.change = "DEBIT"
        <3>1. /\ Apply(s, e).reserved = [s.reserved EXCEPT ![e.region] = @ - e.amount]
              /\ Apply(s, e).total = s.total - e.amount
            BY <1>3, <2>3, ApplyFields
        <3>2. [s.reserved EXCEPT ![e.region] = @ - e.amount]
                = [s.reserved EXCEPT ![e.region] = @ + (-e.amount)]
            BY <1>1, <2>1
        <3>3. s.total - e.amount = s.total + (-e.amount)
            BY <1>1, <2>1
        <3>4. QED  BY <1>2, <2>1, <3>1, <3>2, <3>3
    <2>4. QED  BY <2>1, <2>2, <2>3 DEF Changes
<1>4. CASE e \in BalanceReservedEvents
    <2>1. e.region \in Regions /\ e.amount \in Int
        BY <1>4 DEF BalanceReservedEvents
    <2>2. /\ Apply(s, e).reserved = [s.reserved EXCEPT ![e.region] = @ + e.amount]
          /\ Apply(s, e).total = s.total + e.amount
        BY <1>4, ApplyFields
    <2>3. QED  BY <1>2, <2>1, <2>2
<1>5. CASE e \in StatusChangedEvents
    BY <1>5, ApplyFields
<1>6. QED  BY <1>3, <1>4, <1>5 DEF Events

==============================================================================
