------------------------- MODULE AccountLedgerProofs -------------------------
(* Proofs about AccountLedger, for every set of accounts, regions, handlers  *)
(* and amounts, every limit and every bound.                                 *)
EXTENDS AccountLedger, AccountProofs

\* What replay shows of a command appended behind state s.
Appended(s, c) == Replayed(s, c.event, c.refill)

\* A command appends one or two states, all of them states of the account.
LEMMA AppendedType ==
    ASSUME NEW s \in States, NEW c \in Commands
    PROVE  /\ Appended(s, c) \in Seq(States)
           /\ Len(Appended(s, c)) \in {1, 2}
           /\ \A n \in 1 .. Len(Appended(s, c)) :
                 Appended(s, c)[n] = Apply(s, c.event)
                 \/ Appended(s, c)[n] = OnReplenishment(Apply(s, c.event), c.event.version + 1)
<1>1. c.event \in Events /\ c.refill \in BOOLEAN
    BY DEF Commands
<1>2. QED  BY <1>1, ReplayedType DEF Appended

(***************************************************************************)
(* Types.                                                                  *)
(***************************************************************************)

\* The state of an open account at any position of its log is a state.
LEMMA StateAt ==
    ASSUME TypeOK, NEW a \in Accounts, NEW n \in 1 .. Len(history[a])
    PROVE  history[a][n] \in States
BY DEF TypeOK

\* What deciding puts into a slot has the type of a command.
LEMMA DecidesType ==
    ASSUME TypeOK, NEW h \in Handlers, NEW a \in Accounts, NEW n \in Nat,
           NEW e \in Events, NEW b \in BOOLEAN, Decides(h, a, n, e, b)
    PROVE  /\ TypeOK'
           /\ pending' = [pending EXCEPT ![h] = [account |-> a, base |-> n,
                                                event |-> e, refill |-> b]]
           /\ UNCHANGED <<history, raced, posted>>
<1>1. [account |-> a, base |-> n, event |-> e, refill |-> b] \in Commands
    BY DEF Commands
<1>2. QED  BY <1>1 DEF Decides, TypeOK

\* Each of the three loading actions is a Decides step on a state of the log,
\* for a command accepted in that state.
LEMMA LoadStep ==
    ASSUME TypeOK, NEW h \in Handlers, NEW a \in Accounts, NEW n \in 1 .. MaxEvents,
           \/ \E r \in Regions, change \in Changes, x \in Amounts :
                 UpdateBalance(h, a, n, r, change, x)
           \/ \E r \in Regions, x \in Amounts : ReserveBalance(h, a, n, r, x)
           \/ \E new \in Statuses : UpdateStatus(h, a, n, new)
    PROVE  \E e \in Events, b \in BOOLEAN :
              /\ Decides(h, a, n, e, b)
              /\ Accepted([account |-> a, base |-> n, event |-> e, refill |-> b])
<1> USE LedgerAssumption
<1>1. ASSUME NEW r \in Regions, NEW change \in Changes, NEW x \in Amounts,
             UpdateBalance(h, a, n, r, change, x)
      PROVE  \E e \in Events, b \in BOOLEAN :
                /\ Decides(h, a, n, e, b)
                /\ Accepted([account |-> a, base |-> n, event |-> e, refill |-> b])
    <2> DEFINE s == history[a][n]
               e == BalanceChanged(s, r, change, x)
               b == NeedsReplenishment(Apply(s, e), r)
    <2>1. n \in 1 .. Len(history[a]) /\ CanChangeBalance(a, s, r, change, x)
          /\ Decides(h, a, n, e, b)
        BY <1>1 DEF UpdateBalance, Loads
    <2>2. e \in Events
        BY <2>1, StateAt, EventType
    <2>3. b \in BOOLEAN
        BY DEF NeedsReplenishment
    <2> HIDE DEF e, b
    <2>4. Accepted([account |-> a, base |-> n, event |-> e, refill |-> b])
        BY <2>1 DEF Accepted, e
    <2>5. QED  BY <2>1, <2>2, <2>3, <2>4
<1>2. ASSUME NEW r \in Regions, NEW x \in Amounts, ReserveBalance(h, a, n, r, x)
      PROVE  \E e \in Events, b \in BOOLEAN :
                /\ Decides(h, a, n, e, b)
                /\ Accepted([account |-> a, base |-> n, event |-> e, refill |-> b])
    <2> DEFINE s == history[a][n]
               e == BalanceReserved(s, r, x)
    <2>1. n \in 1 .. Len(history[a]) /\ CanReserve(a, s, x) /\ Decides(h, a, n, e, FALSE)
        BY <1>2 DEF ReserveBalance, Loads
    <2>2. e \in Events
        BY <2>1, StateAt, EventType
    <2> HIDE DEF e
    <2>3. Accepted([account |-> a, base |-> n, event |-> e, refill |-> FALSE])
        BY <2>1 DEF Accepted, e
    <2>4. QED  BY <2>1, <2>2, <2>3
<1>3. ASSUME NEW new \in Statuses, UpdateStatus(h, a, n, new)
      PROVE  \E e \in Events, b \in BOOLEAN :
                /\ Decides(h, a, n, e, b)
                /\ Accepted([account |-> a, base |-> n, event |-> e, refill |-> b])
    <2> DEFINE s == history[a][n]
               e == StatusChanged(s, new)
    <2>1. n \in 1 .. Len(history[a]) /\ CanChangeStatus(s, new) /\ Decides(h, a, n, e, FALSE)
        BY <1>3 DEF UpdateStatus, Loads
    <2>2. e \in Events
        <3>1. e \in StatusChangedEvents
            BY <2>1, StateAt DEF StatusChanged, StatusChangedEvents, States
        <3>2. QED  BY <3>1 DEF Events
    <2> HIDE DEF e
    <2>3. Accepted([account |-> a, base |-> n, event |-> e, refill |-> FALSE])
        BY <2>1 DEF Accepted, e
    <2>4. QED  BY <2>1, <2>2, <2>3
<1>4. QED  BY <1>1, <1>2, <1>3

\* What an append does to the log it goes to, position by position.
LEMMA AppendStep ==
    ASSUME TypeOK, PendingAccepted, NEW h \in Handlers, AppendEvents(h)
    PROVE  LET c   == pending[h]
               a   == c.account
               s   == Current(a)
               new == Appended(s, c)
           IN  /\ c \in Commands /\ Accepted(c) /\ a \in Accounts
               /\ Len(history[a]) \in Nat \ {0} /\ s \in States
               /\ history' = [history EXCEPT ![a] = @ \o new]
               /\ history'[a] \in Seq(States)
               /\ Len(history'[a]) = Len(history[a]) + Len(new)
               /\ \A n \in 1 .. Len(history[a]) : history'[a][n] = history[a][n]
               /\ \A n \in Len(history[a]) + 1 .. Len(history'[a]) :
                     /\ history'[a][n] \in States
                     /\ \/ history'[a][n] = Apply(s, c.event)
                        \/ history'[a][n] = OnReplenishment(Apply(s, c.event),
                                                            c.event.version + 1)
               /\ pending' = [pending EXCEPT ![h] = Idle]
               /\ raced' = IF c.base = Len(history[a]) THEN raced ELSE raced \cup {a}
<1> DEFINE c   == pending[h]
           a   == c.account
           s   == Current(a)
           new == Appended(s, c)
<1>1. c # Idle
    BY DEF AppendEvents, Appended
<1>2. c \in Commands /\ Accepted(c) /\ a \in Accounts
    <2>1. c \in Commands /\ Accepted(c)
        BY <1>1 DEF TypeOK, PendingAccepted
    <2>2. QED  BY <2>1 DEF Commands
<1>3. Len(history[a]) \in Nat \ {0} /\ history[a] \in Seq(States)
    <2>1. history[a] \in Seq(States)
        BY <1>2 DEF TypeOK
    <2>2. c.base \in 1 .. Len(history[a])
        BY <1>2 DEF Accepted
    <2>3. Len(history[a]) \in Nat
        BY <2>1
    <2>4. QED  BY <2>1, <2>2, <2>3
<1>4. s \in States
    BY <1>2, <1>3, StateAt DEF Current
<1>5. /\ history' = [history EXCEPT ![a] = @ \o new]
      /\ pending' = [pending EXCEPT ![h] = Idle]
      /\ raced' = IF c.base = Len(history[a]) THEN raced ELSE raced \cup {a}
    BY DEF AppendEvents, Appended
<1>6. /\ new \in Seq(States)
      /\ Len(new) \in {1, 2}
      /\ \A n \in 1 .. Len(new) :
            new[n] = Apply(s, c.event)
            \/ new[n] = OnReplenishment(Apply(s, c.event), c.event.version + 1)
    BY <1>2, <1>4, AppendedType
<1>7. history'[a] = history[a] \o new
    BY <1>2, <1>5 DEF TypeOK
<1> HIDE DEF new, s, c
<1>8. /\ history'[a] \in Seq(States)
      /\ Len(history'[a]) = Len(history[a]) + Len(new)
      /\ \A n \in 1 .. Len(history[a]) : history'[a][n] = history[a][n]
      /\ \A n \in Len(history[a]) + 1 .. Len(history'[a]) :
            /\ n - Len(history[a]) \in 1 .. Len(new)
            /\ history'[a][n] = new[n - Len(history[a])]
    BY <1>3, <1>6, <1>7, ConcatProperties
<1>9. \A n \in 1 .. Len(new) : new[n] \in States
    BY <1>6
<1>10. \A n \in Len(history[a]) + 1 .. Len(history'[a]) :
          /\ history'[a][n] \in States
          /\ \/ history'[a][n] = Apply(s, c.event)
             \/ history'[a][n] = OnReplenishment(Apply(s, c.event), c.event.version + 1)
    BY <1>6, <1>8, <1>9
<1>11. QED  BY <1>2, <1>3, <1>4, <1>5, <1>8, <1>10 DEF new, s, c

(***************************************************************************)
(* The invariants.  Base carries every later proof: what a slot holds was  *)
(* accepted on a prefix of the log, and that prefix is still there.        *)
(***************************************************************************)

Base == TypeOK /\ PendingAccepted

\* A step is a creation, a decision, an append, a lost decision or nothing.
LEMMA StepCases ==
    ASSUME TypeOK, [Next]_vars
    PROVE  \/ \E a \in Accounts, r \in Regions : CreateAccount(a, r)
           \/ \E h \in Handlers, a \in Accounts, n \in Nat, e \in Events, b \in BOOLEAN :
                 /\ Decides(h, a, n, e, b)
                 /\ Accepted([account |-> a, base |-> n, event |-> e, refill |-> b])
           \/ \E h \in Handlers : AppendEvents(h)
           \/ \E h \in Handlers : AppendFails(h)
           \/ UNCHANGED vars
<1> USE LedgerAssumption
<1>1. ASSUME NEW h \in Handlers, NEW a \in Accounts, NEW n \in 1 .. MaxEvents,
             \/ \E r \in Regions, change \in Changes, x \in Amounts :
                   UpdateBalance(h, a, n, r, change, x)
             \/ \E r \in Regions, x \in Amounts : ReserveBalance(h, a, n, r, x)
             \/ \E new \in Statuses : UpdateStatus(h, a, n, new)
      PROVE  \E k \in Nat, e \in Events, b \in BOOLEAN :
                /\ Decides(h, a, k, e, b)
                /\ Accepted([account |-> a, base |-> k, event |-> e, refill |-> b])
    BY <1>1, LoadStep
<1>2. QED  BY <1>1 DEF Next

\* Logs only grow: no step touches what a log already holds.
LEMMA LogsGrow ==
    ASSUME Base, [Next]_vars, NEW a \in Accounts, NEW n \in 1 .. Len(history[a])
    PROVE  n \in 1 .. Len(history'[a]) /\ history'[a][n] = history[a][n]
<1>1. ASSUME NEW b \in Accounts, NEW r \in Regions, CreateAccount(b, r)
      PROVE  n \in 1 .. Len(history'[a]) /\ history'[a][n] = history[a][n]
    <2>1. a # b
        BY <1>1 DEF CreateAccount, Opened
    <2>2. QED  BY <1>1, <2>1 DEF CreateAccount, Base, TypeOK
<1>2. ASSUME NEW h \in Handlers, AppendEvents(h)
      PROVE  n \in 1 .. Len(history'[a]) /\ history'[a][n] = history[a][n]
    <2> DEFINE b == pending[h].account
               new == Appended(Current(b), pending[h])
    <2>1. /\ b \in Accounts
          /\ history' = [history EXCEPT ![b] = @ \o new]
          /\ history'[b] \in Seq(States)
          /\ Len(history[b]) \in Nat
          /\ pending[h] \in Commands /\ Current(b) \in States
          /\ Len(history'[b]) = Len(history[b]) + Len(new)
          /\ \A k \in 1 .. Len(history[b]) : history'[b][k] = history[b][k]
        BY <1>2, AppendStep DEF Base
    <2>2. Len(new) \in {1, 2}
        BY <2>1, AppendedType
    <2> HIDE DEF new, b
    <2>3. CASE a = b
        BY <2>1, <2>2, <2>3
    <2>4. CASE a # b
        BY <2>1, <2>4 DEF Base, TypeOK
    <2>5. QED  BY <2>3, <2>4
<1>3. CASE UNCHANGED history
    BY <1>3
<1>4. QED  BY <1>1, <1>2, <1>3, StepCases DEF Base, Decides, AppendFails, vars

\* Acceptance is about a prefix that stays, so it survives every step.
LEMMA AcceptedStays ==
    ASSUME Base, [Next]_vars, NEW c \in Commands, Accepted(c)
    PROVE  Accepted(c)'
<1>1. c.account \in Accounts /\ c.base \in 1 .. Len(history[c.account])
    BY DEF Accepted, Commands
<1>2. /\ c.base \in 1 .. Len(history'[c.account])
      /\ history'[c.account][c.base] = history[c.account][c.base]
    BY <1>1, LogsGrow
<1>3. QED  BY <1>2 DEF Accepted

\* Creations, decisions and appends keep the types of logs and slots.
LEMMA TypeStep ==
    ASSUME Base, [Next]_vars
    PROVE  TypeOK'
<1>1. ASSUME NEW a \in Accounts, NEW r \in Regions, CreateAccount(a, r)
      PROVE  TypeOK'
    BY <1>1, CreatedType DEF CreateAccount, TypeOK, Base
<1>2. ASSUME NEW h \in Handlers, NEW a \in Accounts, NEW n \in Nat, NEW e \in Events,
             NEW b \in BOOLEAN, Decides(h, a, n, e, b)
      PROVE  TypeOK'
    BY <1>2, DecidesType DEF Base
<1>3. ASSUME NEW h \in Handlers, AppendEvents(h)
      PROVE  TypeOK'
    <2> DEFINE a == pending[h].account
               new == Appended(Current(a), pending[h])
               d == IF pending[h].event.type = "BalanceChanged"
                    THEN Signed(pending[h].event.change, pending[h].event.amount) ELSE 0
    <2>1. /\ a \in Accounts /\ pending[h] \in Commands
          /\ history' = [history EXCEPT ![a] = @ \o new]
          /\ history'[a] \in Seq(States)
          /\ pending' = [pending EXCEPT ![h] = Idle]
          /\ raced' = IF pending[h].base = Len(history[a]) THEN raced ELSE raced \cup {a}
        BY <1>3, AppendStep DEF Base
    <2>2. posted' = [posted EXCEPT ![a] = @ + d]
        BY <1>3 DEF AppendEvents, Appended
    <2>3. d \in Int
        BY <2>1 DEF Commands, Events, BalanceChangedEvents, BalanceReservedEvents,
                    StatusChangedEvents, Signed
    <2> HIDE DEF a, new, d
    <2>4. history' \in [Accounts -> Seq(States)]
        BY <2>1 DEF Base, TypeOK
    <2>5. QED  BY <2>1, <2>2, <2>3, <2>4 DEF Base, TypeOK
<1>4. ASSUME NEW h \in Handlers, AppendFails(h)
      PROVE  TypeOK'
    BY <1>4 DEF AppendFails, Base, TypeOK
<1>5. CASE UNCHANGED vars
    BY <1>5 DEF vars, Base, TypeOK
<1>6. QED  BY <1>1, <1>2, <1>3, <1>4, <1>5, StepCases DEF Base

\* What a slot holds stays accepted on a prefix of the log: logs only grow.
LEMMA PendingStep ==
    ASSUME Base, [Next]_vars
    PROVE  PendingAccepted'
<1>1. \A c \in Commands : Accepted(c) => Accepted(c)'
    BY AcceptedStays
<1>2. \A g \in Handlers : pending[g] # Idle => pending[g] \in Commands /\ Accepted(pending[g])
    BY DEF Base, TypeOK, PendingAccepted
<1>3. \A g \in Handlers : \A c : pending'[g] = c /\ Accepted(c)' => Accepted(pending[g])'
    BY DEF Accepted
<1>4. \A g \in Handlers : pending[g] # Idle /\ pending'[g] = pending[g] => Accepted(pending[g])'
    <2> SUFFICES ASSUME NEW g \in Handlers, pending[g] # Idle, pending'[g] = pending[g]
                 PROVE  Accepted(pending[g])'
        OBVIOUS
    <2>1. PICK c \in Commands : c = pending[g]
        BY <1>2
    <2>2. Accepted(c)'
        BY <1>1, <1>2, <2>1
    <2>3. QED  BY <1>3, <2>1, <2>2
<1>5. ASSUME \A g \in Handlers : pending'[g] = pending[g] \/ pending'[g] = Idle
      PROVE  PendingAccepted'
    BY <1>4, <1>5 DEF PendingAccepted
<1>6. ASSUME NEW h \in Handlers, NEW a \in Accounts, NEW n \in Nat, NEW e \in Events,
             NEW b \in BOOLEAN, Decides(h, a, n, e, b),
             Accepted([account |-> a, base |-> n, event |-> e, refill |-> b])
      PROVE  PendingAccepted'
    <2> DEFINE c == [account |-> a, base |-> n, event |-> e, refill |-> b]
    <2>1. pending' = [pending EXCEPT ![h] = c] /\ c \in Commands
        BY <1>6 DEF Decides, Commands
    <2>2. Accepted(c)'
        BY <1>1, <1>6, <2>1
    <2> HIDE DEF c
    <2>3. pending'[h] = c /\ \A g \in Handlers \ {h} : pending'[g] = pending[g]
        BY <2>1 DEF Base, TypeOK
    <2>4. Accepted(pending[h])'
        BY <1>3, <2>2, <2>3
    <2>5. QED  BY <1>4, <2>3, <2>4 DEF PendingAccepted
<1>7. ASSUME NEW h \in Handlers, AppendEvents(h) \/ AppendFails(h)
      PROVE  PendingAccepted'
    <2>1. pending' = [pending EXCEPT ![h] = Idle]
        BY <1>7 DEF AppendEvents, AppendFails
    <2>2. QED  BY <1>5, <2>1 DEF Base, TypeOK
<1>8. CASE UNCHANGED pending
    BY <1>5, <1>8
<1>9. QED  BY <1>6, <1>7, <1>8, StepCases DEF CreateAccount, vars, Base

\* What a handler holds past its decision was accepted on events that are still
\* the first events of the account's log.
THEOREM BaseInvariant == Spec => []Base
<1>1. Init => Base
    BY DEF Init, Base, TypeOK, PendingAccepted
<1>2. Base /\ [Next]_vars => Base'
    BY TypeStep, PendingStep DEF Base
<1>3. QED  BY <1>1, <1>2, PTL DEF Spec

\* Every reachable state of the ledger has the types the fields are declared with.
THEOREM TypeCorrect == Spec => []TypeOK
<1>1. Base => TypeOK
    BY DEF Base
<1>2. QED  BY <1>1, BaseInvariant, PTL

\* Every state that a step leaves in a log, or puts there, sums up its map.
LEMMA TotalsStep ==
    ASSUME Base, TypeOKWithTotals, [Next]_vars
    PROVE  TypeOKWithTotals'
<1> DEFINE Summed(s) == s.total = SumFunction(s.reserved)
<1>1. \A a \in Accounts : \A n \in 1 .. Len(history[a]) : Summed(history[a][n])
    BY DEF TypeOKWithTotals
<1>2. TypeOK'
    BY TypeStep
<1> SUFFICES ASSUME NEW a \in Accounts, NEW n \in 1 .. Len(history'[a])
             PROVE  Summed(history'[a][n])
    BY <1>2 DEF TypeOKWithTotals
<1>3. ASSUME NEW b \in Accounts, NEW r \in Regions, CreateAccount(b, r)
      PROVE  Summed(history'[a][n])
    <2>1. Summed(Created(r))
        BY SumOfZeros, RegionsAssumption DEF Created
    <2>2. CASE a = b
        <3>1. history'[a] = <<Created(r)>>
            BY <1>3, <2>2 DEF CreateAccount, Base, TypeOK
        <3>2. QED  BY <2>1, <3>1
    <2>3. CASE a # b
        BY <1>1, <1>3, <2>3 DEF CreateAccount, Base, TypeOK
    <2>4. QED  BY <2>2, <2>3
<1>4. ASSUME NEW h \in Handlers, AppendEvents(h)
      PROVE  Summed(history'[a][n])
    <2> DEFINE c == pending[h]
               b == c.account
               s == Current(b)
    <2>1. /\ c \in Commands /\ b \in Accounts /\ s \in States
          /\ Len(history[b]) \in Nat \ {0}
          /\ \A k \in 1 .. Len(history[b]) : history'[b][k] = history[b][k]
          /\ \A k \in Len(history[b]) + 1 .. Len(history'[b]) :
                \/ history'[b][k] = Apply(s, c.event)
                \/ history'[b][k] = OnReplenishment(Apply(s, c.event), c.event.version + 1)
        BY <1>4, AppendStep DEF Base
    <2>2. a # b => history'[a] = history[a]
        BY <1>4, AppendStep DEF Base, TypeOK
    <2>3. c.event \in Events /\ Summed(s)
        BY <1>1, <2>1 DEF Commands, Current
    <2>4. Summed(Apply(s, c.event))
        BY <2>1, <2>3, ApplyTotal
    <2>5. Summed(OnReplenishment(Apply(s, c.event), c.event.version + 1))
        <3>1. Apply(s, c.event) \in States /\ c.event.version + 1 \in Nat
            BY <2>1, <2>3, ApplyType DEF Events, BalanceChangedEvents,
               BalanceReservedEvents, StatusChangedEvents
        <3>2. QED  BY <2>4, <3>1, ReplenishmentFields
    <2> HIDE DEF c, b, s, Summed
    <2>6. CASE a = b
        <3>1. n \in 1 .. Len(history[b]) \/ n \in Len(history[b]) + 1 .. Len(history'[b])
            BY <2>1, <2>6
        <3>2. QED  BY <1>1, <2>1, <2>4, <2>5, <2>6, <3>1
    <2>7. CASE a # b
        BY <1>1, <2>2, <2>7
    <2>8. QED  BY <2>6, <2>7
<1>5. CASE UNCHANGED history
    BY <1>1, <1>5
<1>6. QED  BY <1>3, <1>4, <1>5, StepCases DEF Base, Decides, AppendFails, vars

\* getTotalReserved(), which reserve() subtracts from the balance, is the sum of
\* the regions' reservations in every state a replay can reach.
THEOREM TotalsAreSums == Spec => []TypeOKWithTotals
<1>1. Init => TypeOKWithTotals
    BY DEF Init, TypeOKWithTotals, TypeOK
<1>2. Base /\ TypeOKWithTotals /\ [Next]_vars => TypeOKWithTotals'
    BY TotalsStep
<1>3. QED  BY <1>1, <1>2, BaseInvariant, PTL DEF Spec

(***************************************************************************)
(* What one append shows of the account, in terms of the decision.         *)
(***************************************************************************)

\* A balance an accepted event carries is within the account's limits.
LEMMA AcceptedBalance ==
    ASSUME Base, NEW c \in Commands, Accepted(c), c.event \in BalanceChangedEvents
    PROVE  WithinLimits(c.account, c.event.newBalance)
<1> DEFINE s == history[c.account][c.base]
<1>1. s \in States
    BY StateAt DEF Accepted, Commands, Base
<1>2. c.event.type = "BalanceChanged"
    BY DEF BalanceChangedEvents
<1>3. /\ \A r \in Regions, x \in Amounts : c.event # BalanceReserved(s, r, x)
      /\ \A new \in Statuses : c.event # StatusChanged(s, new)
    BY <1>2 DEF BalanceReserved, StatusChanged
<1>4. PICK r \in Regions, change \in Changes, x \in Amounts :
         CanChangeBalance(c.account, s, r, change, x) /\ c.event = BalanceChanged(s, r, change, x)
    BY <1>3 DEF Accepted
<1>5. QED  BY <1>4 DEF CanChangeBalance, BalanceChanged

\* The state an append leaves, and the length of the log.
LEMMA AppendLast ==
    ASSUME Base, NEW h \in Handlers, AppendEvents(h)
    PROVE  LET c    == pending[h]
               a    == c.account
               next == Apply(Current(a), c.event)
           IN  /\ next \in States /\ c.event.version \in Nat
               /\ Len(history'[a]) = Len(history[a]) + (IF c.refill THEN 2 ELSE 1)
               /\ history'[a] # <<>>
               /\ history'[a][Len(history'[a])] =
                     IF c.refill THEN OnReplenishment(next, c.event.version + 1) ELSE next
<1> DEFINE c    == pending[h]
           a    == c.account
           s    == Current(a)
           next == Apply(s, c.event)
           new  == Appended(s, c)
<1>1. /\ c \in Commands /\ a \in Accounts /\ s \in States
      /\ Len(history[a]) \in Nat \ {0}
      /\ history' = [history EXCEPT ![a] = @ \o new]
      /\ Len(history'[a]) = Len(history[a]) + Len(new)
    BY AppendStep DEF Base
<1>2. next \in States /\ c.event.version \in Nat
    <2>1. c.event \in Events
        BY <1>1 DEF Commands
    <2>2. QED  BY <1>1, <2>1, ApplyType
                DEF Events, BalanceChangedEvents, BalanceReservedEvents, StatusChangedEvents
<1>3. new \in Seq(States)
    BY <1>1, AppendedType
<1>4. history'[a] = history[a] \o new /\ history[a] \in Seq(States)
    BY <1>1 DEF Base, TypeOK
<1>5. Len(new) = (IF c.refill THEN 2 ELSE 1)
      /\ new[Len(new)] = IF c.refill THEN OnReplenishment(next, c.event.version + 1) ELSE next
    BY DEF Appended, Replayed
<1> HIDE DEF new, next, s, c
<1>6. history'[a][Len(history'[a])] = new[Len(new)]
    BY <1>1, <1>3, <1>4, <1>5
<1>7. history'[a] # <<>>
    BY <1>1, <1>3, <1>4, <1>5
<1>8. QED  BY <1>1, <1>2, <1>5, <1>6, <1>7 DEF new, next, s, c

\* Nothing happens to the accounts an append does not name.
LEMMA AppendElsewhere ==
    ASSUME Base, NEW h \in Handlers, AppendEvents(h), NEW b \in Accounts,
           b # pending[h].account
    PROVE  history'[b] = history[b] /\ Current(b)' = Current(b)
<1>1. history'[b] = history[b]
    BY AppendStep DEF Base, TypeOK
<1>2. QED  BY <1>1 DEF Current

(***************************************************************************)
(* Limits.                                                                 *)
(***************************************************************************)

\* An appended balance was checked against the limits, whatever it was read from.
LEMMA LimitsStep ==
    ASSUME Base, LimitsHold, [Next]_vars
    PROVE  LimitsHold'
<1>1. ASSUME NEW a \in Accounts, NEW r \in Regions, CreateAccount(a, r)
      PROVE  LimitsHold'
    <2>1. history' = [history EXCEPT ![a] = <<Created(r)>>] /\ Created(r).balance = 0
        BY <1>1 DEF CreateAccount, Created
    <2> SUFFICES ASSUME NEW b \in Accounts, NEW n \in 1 .. Len(history'[b])
                 PROVE  history'[b][n].balance = 0 \/ WithinLimits(b, history'[b][n].balance)
        BY DEF LimitsHold
    <2>2. CASE b = a
        BY <2>1, <2>2 DEF Base, TypeOK
    <2>3. CASE b # a
        BY <2>1, <2>3 DEF Base, TypeOK, LimitsHold
    <2>4. QED  BY <2>2, <2>3
<1>2. ASSUME NEW h \in Handlers, AppendEvents(h)
      PROVE  LimitsHold'
    <2> DEFINE c == pending[h]
               a == c.account
               next == Apply(Current(a), c.event)
    <2>1. /\ c \in Commands /\ Accepted(c) /\ a \in Accounts
          /\ Len(history[a]) \in Nat \ {0} /\ Current(a) \in States
          /\ \A n \in 1 .. Len(history[a]) : history'[a][n] = history[a][n]
          /\ \A n \in Len(history[a]) + 1 .. Len(history'[a]) :
                \/ history'[a][n] = next
                \/ history'[a][n] = OnReplenishment(next, c.event.version + 1)
        BY <1>2, AppendStep DEF Base
    <2>2. next \in States /\ c.event.version \in Nat /\ Len(history'[a]) \in Nat
        <3>1. history'[a] \in Seq(States)
            BY <1>2, AppendStep DEF Base
        <3>2. next \in States /\ c.event.version \in Nat
            BY <1>2, AppendLast, Zenon
        <3>3. QED  BY <3>1, <3>2
    <2>3. next.balance = 0 \/ WithinLimits(a, next.balance)
        <3>1. c.event \in Events
            BY <2>1 DEF Commands
        <3>2. CASE c.event \in BalanceChangedEvents
            BY <2>1, <3>1, <3>2, ApplyFields, AcceptedBalance
        <3>3. CASE c.event \notin BalanceChangedEvents
            <4>1. next.balance = Current(a).balance
                BY <2>1, <3>1, <3>3, ApplyFields DEF Events
            <4>2. QED  BY <2>1, <4>1 DEF LimitsHold, Current
        <3>4. QED  BY <3>2, <3>3
    <2>4. OnReplenishment(next, c.event.version + 1).balance = next.balance
        BY <2>2, ReplenishmentFields
    <2> HIDE DEF next
    <2> SUFFICES ASSUME NEW b \in Accounts, NEW n \in 1 .. Len(history'[b])
                 PROVE  history'[b][n].balance = 0 \/ WithinLimits(b, history'[b][n].balance)
        BY DEF LimitsHold
    <2>5. CASE b = a
        <3>1. n \in 1 .. Len(history[a]) \/ n \in Len(history[a]) + 1 .. Len(history'[a])
            BY <2>1, <2>2, <2>5
        <3>2. QED  BY <2>1, <2>3, <2>4, <2>5, <3>1 DEF LimitsHold
    <2>6. CASE b # a
        BY <1>2, <2>6, AppendElsewhere DEF LimitsHold
    <2>7. QED  BY <2>5, <2>6
<1>3. CASE UNCHANGED history
    BY <1>3 DEF LimitsHold
<1>4. QED  BY <1>1, <1>2, <1>3, StepCases DEF Decides, AppendFails, vars, Base

\* However commands interleave, no balance a replay can reach is outside the
\* account's limits, except the zero it opens with.
THEOREM LimitsAlwaysHold == Spec => []LimitsHold
<1>1. Init => LimitsHold
    BY DEF Init, LimitsHold
<1>2. Base /\ LimitsHold /\ [Next]_vars => LimitsHold'
    BY LimitsStep
<1>3. QED  BY <1>1, <1>2, BaseInvariant, PTL DEF Spec

(***************************************************************************)
(* An append behind everything its handler had read: what it does to the   *)
(* account, apart from the version.  s is the account before, t after.     *)
(***************************************************************************)

Credited(a, s, t, x) ==
    /\ s.status = "ACTIVE" /\ x > 0 /\ WithinLimits(a, s.balance + x)
    /\ t.status = s.status
    /\ t.balance = s.balance + x
    /\ t.reserved = s.reserved
    /\ t.total = s.total

Debited(a, s, t, r, x) ==
    /\ s.status = "ACTIVE" /\ x > 0 /\ s.reserved[r] >= x /\ WithinLimits(a, s.balance - x)
    /\ t.status = s.status
    /\ t.balance = s.balance - x
    /\ t.reserved = [s.reserved EXCEPT ![r] = @ - x]
    /\ t.total = s.total - x

Reserving(a, s, t, r, x) ==
    /\ x > 0 /\ s.balance - MinBalance[a] - s.total >= x
    /\ t.status = s.status
    /\ t.balance = s.balance
    /\ t.reserved = [s.reserved EXCEPT ![r] = @ + x]
    /\ t.total = s.total + x

Restated(s, t, new) ==
    /\ new \in ValidTransitions[s.status]
    /\ t.status = new
    /\ t.balance = s.balance
    /\ t.reserved = s.reserved
    /\ t.total = s.total

\* One of the four, and what posted and the version have to follow.
Moved(a, s, t, delta) ==
    \/ \E x \in Amounts : Credited(a, s, t, x) /\ delta = x
    \/ \E r \in Regions, x \in Amounts : Debited(a, s, t, r, x) /\ delta = -x
    \/ \E r \in Regions, x \in Amounts : Reserving(a, s, t, r, x) /\ delta = 0
    \/ \E new \in Statuses : Restated(s, t, new) /\ delta = 0

PostedBy(e) == IF e.type = "BalanceChanged" THEN Signed(e.change, e.amount) ELSE 0

\* The decision of a handler that has read the whole log, replayed behind it.
LEMMA FreshMoves ==
    ASSUME Base, NEW c \in Commands, Accepted(c), c.base = Len(history[c.account])
    PROVE  LET a == c.account
               s == Current(a)
           IN  /\ Moved(a, s, Apply(s, c.event), PostedBy(c.event))
               /\ Apply(s, c.event).version = c.event.version
               /\ c.event.version = s.version + 1
<1> USE LedgerAssumption
<1> DEFINE a == c.account
           s == Current(a)
           t == Apply(s, c.event)
           Goal == /\ Moved(a, s, t, PostedBy(c.event))
                   /\ t.version = c.event.version
                   /\ c.event.version = s.version + 1
<1>1. /\ a \in Accounts /\ c.event \in Events
      /\ s = history[a][c.base] /\ s \in States
    BY StateAt DEF Accepted, Commands, Current, Base
<1>2. ASSUME NEW r \in Regions, NEW change \in Changes, NEW x \in Amounts,
             CanChangeBalance(a, s, r, change, x), c.event = BalanceChanged(s, r, change, x)
      PROVE  Goal
    <2>1. /\ c.event \in BalanceChangedEvents /\ c.event.type = "BalanceChanged"
          /\ c.event.version = s.version + 1
          /\ c.event.newBalance = s.balance + Signed(change, x)
          /\ c.event.change = change /\ c.event.amount = x /\ c.event.region = r
        <3> HIDE DEF s, t
        <3>1. x \in Int /\ s \in States
            BY <1>1
        <3>2. QED  BY <1>2, <3>1, BalanceChangedFields
    <2>2. /\ t.status = s.status
          /\ t.balance = s.balance + Signed(change, x)
          /\ t.version = s.version + 1
          /\ change = "CREDIT" => t.reserved = s.reserved /\ t.total = s.total
          /\ change = "DEBIT" => /\ t.reserved = [s.reserved EXCEPT ![r] = @ - x]
                                 /\ t.total = s.total - x
        <3>1. /\ t.status = s.status
              /\ t.balance = c.event.newBalance
              /\ t.version = c.event.version
              /\ c.event.change = "CREDIT" => t.reserved = s.reserved /\ t.total = s.total
              /\ c.event.change = "DEBIT" =>
                    /\ t.reserved = [s.reserved EXCEPT ![c.event.region] = @ - c.event.amount]
                    /\ t.total = s.total - c.event.amount
            BY <1>1, <2>1, ApplyFields
        <3> HIDE DEF t, s
        <3>2. QED  BY <2>1, <3>1
    <2>3. PostedBy(c.event) = Signed(change, x)
        BY <2>1 DEF PostedBy
    <2>4. s.balance \in Int /\ x \in Int
        BY <1>1 DEF States
    <2> HIDE DEF t, s
    <2>5. CASE change = "CREDIT"
        <3>1. Signed(change, x) = x
            BY <2>5 DEF Signed
        <3>2. Credited(a, s, t, x)
            BY <1>2, <2>2, <2>5, <3>1 DEF Credited, CanChangeBalance
        <3>3. QED  BY <2>1, <2>2, <2>3, <3>1, <3>2 DEF Moved
    <2>6. CASE change = "DEBIT"
        <3>1. Signed(change, x) = -x /\ s.balance + Signed(change, x) = s.balance - x
            BY <2>4, <2>6 DEF Signed
        <3>2. Debited(a, s, t, r, x)
            BY <1>2, <2>2, <2>6, <3>1 DEF Debited, CanChangeBalance
        <3>3. QED  BY <2>1, <2>2, <2>3, <3>1, <3>2 DEF Moved
    <2>7. QED  BY <2>5, <2>6 DEF Changes
<1>3. ASSUME NEW r \in Regions, NEW x \in Amounts,
             CanReserve(a, s, x), c.event = BalanceReserved(s, r, x)
      PROVE  Goal
    <2>1. /\ c.event \in BalanceReservedEvents /\ c.event.type = "BalanceReserved"
          /\ c.event.version = s.version + 1
          /\ c.event.region = r /\ c.event.amount = x
        BY <1>1, <1>3 DEF BalanceReserved, BalanceReservedEvents, States
    <2>2. /\ t.status = s.status
          /\ t.balance = s.balance
          /\ t.version = s.version + 1
          /\ t.reserved = [s.reserved EXCEPT ![r] = @ + x]
          /\ t.total = s.total + x
        BY <1>1, <2>1, ApplyFields
    <2>3. PostedBy(c.event) = 0
        BY <2>1 DEF PostedBy
    <2> HIDE DEF t, s
    <2>4. Reserving(a, s, t, r, x)
        BY <1>3, <2>2 DEF Reserving, CanReserve
    <2>5. QED  BY <2>1, <2>2, <2>3, <2>4 DEF Moved
<1>4. ASSUME NEW new \in Statuses,
             CanChangeStatus(s, new), c.event = StatusChanged(s, new)
      PROVE  Goal
    <2>1. /\ c.event \in StatusChangedEvents /\ c.event.type = "AccountStatusChanged"
          /\ c.event.version = s.version + 1
          /\ c.event.newStatus = new
        BY <1>1, <1>4 DEF StatusChanged, StatusChangedEvents, States
    <2>2. /\ t.status = new
          /\ t.balance = s.balance
          /\ t.version = s.version + 1
          /\ t.reserved = s.reserved
          /\ t.total = s.total
        BY <1>1, <2>1, ApplyFields
    <2>3. PostedBy(c.event) = 0
        BY <2>1 DEF PostedBy
    <2> HIDE DEF t, s
    <2>4. Restated(s, t, new)
        BY <1>4, <2>2 DEF Restated, CanChangeStatus
    <2>5. QED  BY <2>1, <2>2, <2>3, <2>4 DEF Moved
<1>5. Goal
    <2> HIDE DEF Goal, t, s
    <2>1. \/ \E r \in Regions, change \in Changes, x \in Amounts :
                /\ CanChangeBalance(a, s, r, change, x)
                /\ c.event = BalanceChanged(s, r, change, x)
          \/ \E r \in Regions, x \in Amounts :
                CanReserve(a, s, x) /\ c.event = BalanceReserved(s, r, x)
          \/ \E new \in Statuses :
                CanChangeStatus(s, new) /\ c.event = StatusChanged(s, new)
        BY <1>1 DEF Accepted
    <2>2. QED  BY <1>2, <1>3, <1>4, <2>1
<1>6. QED  BY <1>5

\* The same for every state the append puts on the log: the replenishment event
\* adds a version and nothing else.
LEMMA FreshAppend ==
    ASSUME Base, NEW h \in Handlers, AppendEvents(h),
           pending[h].base = Len(history[pending[h].account])
    PROVE  LET c == pending[h]
               a == c.account
               s == Current(a)
           IN  /\ \A n \in Len(history[a]) + 1 .. Len(history'[a]) :
                     Moved(a, s, history'[a][n], PostedBy(c.event))
               /\ Moved(a, s, history'[a][Len(history'[a])], PostedBy(c.event))
               /\ history'[a][Len(history'[a])].version =
                     s.version + (IF c.refill THEN 2 ELSE 1)
               /\ posted' = [posted EXCEPT ![a] = @ + PostedBy(c.event)]
<1> DEFINE c == pending[h]
           a == c.account
           s == Current(a)
           t == Apply(s, c.event)
           v == c.event.version
           d == PostedBy(c.event)
<1>1. /\ c \in Commands /\ Accepted(c) /\ a \in Accounts /\ s \in States
      /\ \A n \in Len(history[a]) + 1 .. Len(history'[a]) :
            history'[a][n] = t \/ history'[a][n] = OnReplenishment(t, v + 1)
    BY AppendStep, Zenon DEF Base
<1>2. t \in States /\ v \in Nat
    BY AppendLast, Zenon
<1>3. history'[a][Len(history'[a])] = IF c.refill THEN OnReplenishment(t, v + 1) ELSE t
    BY AppendLast, Zenon
<1>4. Moved(a, s, t, d) /\ t.version = v /\ v = s.version + 1
    BY <1>1, FreshMoves, Zenon
<1>5. posted' = [posted EXCEPT ![a] = @ + d]
    BY DEF AppendEvents, PostedBy
<1> HIDE DEF t, d, v
<1>6. Moved(a, s, OnReplenishment(t, v + 1), d) /\ OnReplenishment(t, v + 1).version = v + 1
    <2> DEFINE u == OnReplenishment(t, v + 1)
    <2>1. /\ u.status = t.status /\ u.balance = t.balance
          /\ u.reserved = t.reserved /\ u.total = t.total /\ u.version = v + 1
        BY <1>2, ReplenishmentFields
    <2> HIDE DEF u, s
    <2>2. Moved(a, s, u, d)
        BY <1>4, <2>1 DEF Moved, Credited, Debited, Reserving, Restated
    <2>3. QED  BY <2>1, <2>2 DEF u
<1>7. s.version \in Nat
    BY <1>1 DEF States
<1> HIDE DEF s, c
<1>8. /\ \A n \in Len(history[a]) + 1 .. Len(history'[a]) : Moved(a, s, history'[a][n], d)
      /\ Moved(a, s, history'[a][Len(history'[a])], d)
      /\ history'[a][Len(history'[a])].version = s.version + (IF c.refill THEN 2 ELSE 1)
    BY <1>1, <1>3, <1>4, <1>6, <1>7
<1>9. QED  BY <1>5, <1>8 DEF s, c, d

(***************************************************************************)
(* Reservations are backed, and the books balance, while nothing raced.    *)
(***************************************************************************)

\* An append that does not mark its account had read the whole log.
LEMMA UnmarkedIsFresh ==
    ASSUME Base, NEW h \in Handlers, AppendEvents(h)
    PROVE  /\ raced \subseteq raced'
           /\ \/ pending[h].account \in raced'
              \/ pending[h].base = Len(history[pending[h].account])
BY DEF AppendEvents, Appended

\* A fresh command keeps the reservations backed by the balance.
LEMMA MovedBacked ==
    ASSUME NEW a \in Accounts, NEW s \in States, NEW t \in States, NEW d,
           Backed(a, s), Moved(a, s, t, d)
    PROVE  Backed(a, t)
<1> USE LedgerAssumption, LimitsAssumption
<1>1. /\ s.balance \in Int /\ s.total \in Int /\ s.reserved \in [Regions -> Int]
      /\ MinBalance[a] \in Int
    BY DEF States
<1>2. ASSUME NEW x \in Amounts, Credited(a, s, t, x)
      PROVE  Backed(a, t)
    <2>1. /\ x \in Int /\ x > 0 /\ t.balance = s.balance + x
          /\ t.reserved = s.reserved /\ t.total = s.total
        BY <1>2 DEF Credited
    <2>2. \A q \in Regions : t.reserved[q] >= 0
        BY <2>1 DEF Backed
    <2>3. s.total = 0 \/ s.total <= s.balance - MinBalance[a]
        BY DEF Backed
    <2>4. t.total = 0 \/ t.total <= t.balance - MinBalance[a]
        BY <1>1, <2>1, <2>3
    <2>5. QED  BY <2>2, <2>4 DEF Backed
<1>3. ASSUME NEW r \in Regions, NEW x \in Amounts, Debited(a, s, t, r, x)
      PROVE  Backed(a, t)
    <2>1. /\ x \in Int /\ x > 0 /\ s.reserved[r] >= x
          /\ t.balance = s.balance - x /\ t.total = s.total - x
          /\ t.reserved = [s.reserved EXCEPT ![r] = @ - x]
          /\ t.balance >= MinBalance[a]
        BY <1>3 DEF Debited, WithinLimits
    <2>2. \A q \in Regions : t.reserved[q] >= 0
        BY <1>1, <2>1 DEF Backed
    <2>3. s.total = 0 \/ s.total <= s.balance - MinBalance[a]
        BY DEF Backed
    <2>4. t.total = 0 \/ t.total <= t.balance - MinBalance[a]
        BY <1>1, <2>1, <2>3
    <2>5. QED  BY <2>2, <2>4 DEF Backed
<1>4. ASSUME NEW r \in Regions, NEW x \in Amounts, Reserving(a, s, t, r, x)
      PROVE  Backed(a, t)
    <2>1. x \in Int /\ x > 0 /\ s.balance - MinBalance[a] - s.total >= x
          /\ t.balance = s.balance /\ t.total = s.total + x
          /\ t.reserved = [s.reserved EXCEPT ![r] = @ + x]
        BY <1>4 DEF Reserving
    <2>2. t.total <= t.balance - MinBalance[a]
        BY <1>1, <2>1
    <2>3. \A q \in Regions : t.reserved[q] >= 0
        BY <1>1, <2>1 DEF Backed
    <2>4. QED  BY <2>2, <2>3 DEF Backed
<1>5. ASSUME NEW new \in Statuses, Restated(s, t, new)
      PROVE  Backed(a, t)
    BY <1>5 DEF Restated, Backed
<1>6. QED  BY <1>2, <1>3, <1>4, <1>5 DEF Moved

\* An append that is not stale was decided on the state it changes.
LEMMA BackedStep ==
    ASSUME Base, BackedUnlessRaced, [Next]_vars
    PROVE  BackedUnlessRaced'
<1>1. ASSUME NEW a \in Accounts, NEW q \in Regions, CreateAccount(a, q)
      PROVE  BackedUnlessRaced'
    <2>1. /\ history' = [history EXCEPT ![a] = <<Created(q)>>] /\ raced' = raced
          /\ Backed(a, Created(q))
        BY <1>1 DEF CreateAccount, Created, Backed
    <2> SUFFICES ASSUME NEW b \in Accounts \ raced', NEW n \in 1 .. Len(history'[b])
                 PROVE  Backed(b, history'[b][n])
        BY DEF BackedUnlessRaced, Backed
    <2>2. CASE b = a
        BY <2>1, <2>2 DEF Base, TypeOK
    <2>3. CASE b # a
        BY <2>1, <2>3 DEF Base, TypeOK, BackedUnlessRaced
    <2>4. QED  BY <2>2, <2>3
<1>2. ASSUME NEW h \in Handlers, AppendEvents(h)
      PROVE  BackedUnlessRaced'
    <2> SUFFICES ASSUME NEW b \in Accounts \ raced', NEW n \in 1 .. Len(history'[b])
                 PROVE  Backed(b, history'[b][n])
        BY DEF BackedUnlessRaced, Backed
    <2>1. b \notin raced
        BY <1>2, UnmarkedIsFresh
    <2>2. CASE b # pending[h].account
        BY <1>2, <2>1, <2>2, AppendElsewhere DEF BackedUnlessRaced
    <2>3. CASE b = pending[h].account
        <3>1. pending[h].base = Len(history[b])
            BY <1>2, <2>3, UnmarkedIsFresh
        <3>2. /\ Current(b) \in States /\ Len(history[b]) \in Nat \ {0}
              /\ history'[b] \in Seq(States)
              /\ \A k \in 1 .. Len(history[b]) : history'[b][k] = history[b][k]
            BY <1>2, <2>3, AppendStep DEF Base
        <3>3. Backed(b, Current(b))
            BY <2>1, <3>2 DEF BackedUnlessRaced, Current
        <3>4. CASE n \in 1 .. Len(history[b])
            BY <2>1, <3>2, <3>4 DEF BackedUnlessRaced
        <3>5. CASE n \in Len(history[b]) + 1 .. Len(history'[b])
            <4>1. PICK d : Moved(b, Current(b), history'[b][n], d)
                BY <1>2, <2>3, <3>1, <3>5, FreshAppend
            <4>2. history'[b][n] \in States
                BY <3>2
            <4>3. QED  BY <3>2, <3>3, <4>1, <4>2, MovedBacked
        <3>6. QED  BY <3>2, <3>4, <3>5
    <2>4. QED  BY <2>2, <2>3
<1>3. CASE UNCHANGED <<history, raced>>
    BY <1>3 DEF BackedUnlessRaced, Backed
<1>4. QED  BY <1>1, <1>2, <1>3, StepCases DEF Decides, AppendFails, vars, Base

\* Zero double-spending for every account that never got a stale append: no
\* region is overdrawn, and together they hold no more than there is to spend.
THEOREM ReservationsBacked == Spec => []BackedUnlessRaced
<1>1. Init => BackedUnlessRaced
    BY DEF Init, BackedUnlessRaced
<1>2. Base /\ BackedUnlessRaced /\ [Next]_vars => BackedUnlessRaced'
    BY BackedStep
<1>3. QED  BY <1>1, <1>2, BaseInvariant, PTL DEF Spec

\* The balance moves by what the event posts.
LEMMA MovedBalance ==
    ASSUME NEW a, NEW s \in States, NEW t, NEW d, Moved(a, s, t, d)
    PROVE  t.balance = s.balance + d
<1> USE LedgerAssumption
<1>1. s.balance \in Int
    BY DEF States
<1>2. CASE \E x \in Amounts : Credited(a, s, t, x) /\ d = x
    BY <1>2 DEF Credited
<1>3. CASE \E r \in Regions, x \in Amounts : Debited(a, s, t, r, x) /\ d = -x
    <2>1. PICK x \in Amounts : t.balance = s.balance - x /\ d = -x
        BY <1>3 DEF Debited
    <2>2. QED  BY <1>1, <2>1
<1>4. CASE \E r \in Regions, x \in Amounts : Reserving(a, s, t, r, x) /\ d = 0
    BY <1>1, <1>4 DEF Reserving
<1>5. CASE \E new \in Statuses : Restated(s, t, new) /\ d = 0
    BY <1>1, <1>5 DEF Restated
<1>6. QED  BY <1>2, <1>3, <1>4, <1>5 DEF Moved

\* A balance event that is not stale adds its signed amount to the balance.
LEMMA BooksStep ==
    ASSUME Base, BooksBalanceUnlessRaced, [Next]_vars,
           \A a \in Accounts : ~Opened(a) => posted[a] = 0
    PROVE  /\ BooksBalanceUnlessRaced'
           /\ \A a \in Accounts : history'[a] = <<>> => posted'[a] = 0
<1> DEFINE Books(b, log, sum) ==
              log # <<>> => /\ log[Len(log)].balance = sum
                            /\ log[Len(log)].version = Len(log)
<1>0. /\ \A b \in Accounts \ raced : Books(b, history[b], posted[b])
      /\ (\A b \in Accounts \ raced' : Books(b, history'[b], posted'[b]))
            => BooksBalanceUnlessRaced'
    BY DEF BooksBalanceUnlessRaced, Opened, Current
<1>1. ASSUME NEW a \in Accounts, NEW q \in Regions, CreateAccount(a, q)
      PROVE  /\ \A b \in Accounts \ raced' : Books(b, history'[b], posted'[b])
             /\ \A b \in Accounts : history'[b] = <<>> => posted'[b] = 0
    <2>1. /\ history' = [history EXCEPT ![a] = <<Created(q)>>] /\ raced' = raced
          /\ posted' = posted /\ history[a] = <<>> /\ posted[a] = 0
          /\ Created(q).balance = 0 /\ Created(q).version = 1
        BY <1>1 DEF CreateAccount, Created, Opened
    <2>2. history'[a] = <<Created(q)>> /\ \A b \in Accounts \ {a} : history'[b] = history[b]
        BY <2>1 DEF Base, TypeOK
    <2>3. Books(a, history'[a], posted'[a])
        BY <2>1, <2>2
    <2>4. \A b \in Accounts \ raced' : Books(b, history'[b], posted'[b])
        BY <1>0, <2>1, <2>2, <2>3
    <2>5. QED  BY <2>1, <2>2, <2>4 DEF Opened
<1>2. ASSUME NEW h \in Handlers, AppendEvents(h)
      PROVE  /\ \A b \in Accounts \ raced' : Books(b, history'[b], posted'[b])
             /\ \A b \in Accounts : history'[b] = <<>> => posted'[b] = 0
    <2> DEFINE a == pending[h].account
               s == Current(a)
               d == PostedBy(pending[h].event)
    <2>1. /\ a \in Accounts /\ s \in States /\ Len(history[a]) \in Nat \ {0}
          /\ \A b \in Accounts \ {a} : history'[b] = history[b]
        BY <1>2, AppendStep, AppendElsewhere DEF Base
    <2>2. posted' = [posted EXCEPT ![a] = @ + d] /\ posted \in [Accounts -> Int]
        BY <1>2 DEF AppendEvents, PostedBy, Base, TypeOK
    <2>3. \A b \in Accounts \ {a} : posted'[b] = posted[b]
        BY <2>1, <2>2
    <2>4. history'[a] # <<>>
        BY <1>2, AppendLast, Zenon
    <2>5. ASSUME a \notin raced'
          PROVE  Books(a, history'[a], posted'[a])
        <3>1. pending[h].base = Len(history[a]) /\ a \notin raced
            BY <1>2, <2>5, UnmarkedIsFresh
        <3>2. /\ Moved(a, s, history'[a][Len(history'[a])], d)
              /\ history'[a][Len(history'[a])].version =
                    s.version + (IF pending[h].refill THEN 2 ELSE 1)
            BY <1>2, <3>1, FreshAppend, Zenon
        <3>3. Len(history'[a]) = Len(history[a]) + (IF pending[h].refill THEN 2 ELSE 1)
            BY <1>2, AppendLast, Zenon
        <3>4. s.balance = posted[a] /\ s.version = Len(history[a])
            BY <1>0, <2>1, <3>1 DEF Current
        <3>5. posted'[a] = posted[a] + d /\ posted[a] \in Int
            BY <2>1, <2>2
        <3> HIDE DEF s, d
        <3>6. history'[a][Len(history'[a])].balance = s.balance + d
            BY <2>1, <3>2, MovedBalance
        <3>7. QED  BY <2>1, <3>2, <3>3, <3>4, <3>5, <3>6
    <2>6. raced \subseteq raced'
        BY <1>2, UnmarkedIsFresh
    <2> HIDE DEF a, d, Books
    <2>7. \A b \in Accounts \ raced' : Books(b, history'[b], posted'[b])
        <3> SUFFICES ASSUME NEW b \in Accounts \ raced'
                     PROVE  Books(b, history'[b], posted'[b])
            OBVIOUS
        <3>1. CASE b = a
            BY <2>5, <3>1
        <3>2. CASE b # a
            BY <1>0, <2>1, <2>3, <2>6, <3>2
        <3>3. QED  BY <3>1, <3>2
    <2>8. QED  BY <2>1, <2>3, <2>4, <2>7 DEF Opened
<1>3. CASE UNCHANGED <<history, raced, posted>>
    BY <1>0, <1>3 DEF Opened
<1>4. QED  BY <1>0, <1>1, <1>2, <1>3, StepCases DEF Decides, AppendFails, vars, Base

\* For every account that never got a stale append the balance is the sum of the
\* signed amounts on its log and the last version is the log's length.
THEOREM BooksBalance == Spec => []BooksBalanceUnlessRaced
<1> DEFINE Unopened == \A a \in Accounts : ~Opened(a) => posted[a] = 0
<1>1. Init => BooksBalanceUnlessRaced /\ Unopened
    BY DEF Init, BooksBalanceUnlessRaced, Opened
<1>2. Base /\ BooksBalanceUnlessRaced /\ Unopened /\ [Next]_vars
        => BooksBalanceUnlessRaced' /\ Unopened'
    BY BooksStep DEF Opened
<1> HIDE DEF Unopened
<1>3. QED  BY <1>1, <1>2, BaseInvariant, PTL DEF Spec

(***************************************************************************)
(* Steps.                                                                  *)
(***************************************************************************)

\* What a step shows of one account while the account is not marked: nothing,
\* the opening, or one of the four moves.
LEMMA StepOfAccount ==
    ASSUME Base, [Next]_vars, NEW a \in Accounts, Opened(a), a \notin raced'
    PROVE  /\ history'[a] # <<>>
           /\ \/ history'[a] = history[a]
              \/ \E d : Moved(a, Current(a), history'[a][Len(history'[a])], d)
<1>1. ASSUME NEW b \in Accounts, NEW q \in Regions, CreateAccount(b, q)
      PROVE  history'[a] = history[a]
    BY <1>1 DEF CreateAccount, Base, TypeOK
<1>2. ASSUME NEW h \in Handlers, AppendEvents(h)
      PROVE  /\ history'[a] # <<>>
             /\ \/ history'[a] = history[a]
                \/ \E d : Moved(a, Current(a), history'[a][Len(history'[a])], d)
    <2>1. CASE a # pending[h].account
        BY <1>2, <2>1, AppendElsewhere DEF Opened
    <2>2. CASE a = pending[h].account
        <3>1. pending[h].base = Len(history[a])
            BY <1>2, <2>2, UnmarkedIsFresh
        <3>2. Moved(a, Current(a), history'[a][Len(history'[a])], PostedBy(pending[h].event))
            BY <1>2, <2>2, <3>1, FreshAppend, Zenon
        <3>3. history'[a] # <<>>
            BY <1>2, <2>2, AppendLast, Zenon
        <3>4. QED  BY <3>2, <3>3
    <2>3. QED  BY <2>1, <2>2
<1>3. CASE UNCHANGED history
    BY <1>3 DEF Opened
<1>4. QED  BY <1>1, <1>2, <1>3, StepCases DEF Opened, Decides, AppendFails, vars, Base

\* A closed account stays closed and keeps its balance until its first stale
\* append.
THEOREM ClosedAccountsAreFinal == Spec => ClosedIsFinal
<1>1. ASSUME Base, [Next]_vars, NEW a \in Accounts, Opened(a),
             Current(a).status = "CLOSED", a \notin raced'
      PROVE  LET t == history'[a][Len(history'[a])]
             IN  t.status = "CLOSED" /\ t.balance = Current(a).balance
    <2> DEFINE s == Current(a)
               t == history'[a][Len(history'[a])]
    <2>1. history'[a] = history[a] \/ \E d : Moved(a, s, t, d)
        BY <1>1, StepOfAccount
    <2>2. CASE history'[a] = history[a]
        BY <1>1, <2>2 DEF Current
    <2>3. CASE \E d : Moved(a, s, t, d)
        <3>1. PICK d : Moved(a, s, t, d)
            BY <2>3
        <3>2. s.status = "CLOSED" /\ ValidTransitions["CLOSED"] = {}
            BY <1>1 DEF ValidTransitions
        <3> HIDE DEF s, t
        <3>3. t.status = "CLOSED" /\ t.balance = s.balance
            BY <3>1, <3>2 DEF Moved, Credited, Debited, Reserving, Restated
        <3>4. QED  BY <3>3 DEF s, t
    <2>4. QED  BY <2>1, <2>2, <2>3
<1>2. ASSUME Base, [Next]_vars, NEW a \in Accounts, Opened(a),
             Current(a).status = "CLOSED", a \notin raced'
      PROVE  Current(a)'.status = "CLOSED" /\ Current(a)'.balance = Current(a).balance
    <2>1. Current(a)' = history'[a][Len(history'[a])]
        BY DEF Current
    <2>2. QED  BY <1>1, <1>2, <2>1
<1>3. Base /\ [Next]_vars =>
        [\A a \in Accounts :
            Opened(a) /\ Current(a).status = "CLOSED" /\ a \notin raced'
              => /\ Current(a)'.status = "CLOSED"
                 /\ Current(a)'.balance = Current(a).balance]_vars
    BY <1>2
<1>4. QED  BY <1>3, BaseInvariant, PTL DEF Spec, ClosedIsFinal

(***************************************************************************)
(* The ledger keeps the promise of AtomicAccount.                          *)
(***************************************************************************)

\* A view changes at the accounts whose log changes, and nowhere else.
LEMMA ViewsFollow ==
    ASSUME Base, NEW a \in Accounts, NEW t, history'[a] # <<>>,
           t = history'[a][Len(history'[a])],
           \A b \in Accounts \ {a} : history'[b] = history[b]
    PROVE  /\ OpenAccounts' = OpenAccounts \cup {a}
           /\ StatusOf' = [StatusOf EXCEPT ![a] = t.status]
           /\ BalanceOf' = [BalanceOf EXCEPT ![a] = t.balance]
           /\ ReservedOf' = [ReservedOf EXCEPT ![a] = t.reserved]
           /\ UnreservedOf' =
                 [UnreservedOf EXCEPT ![a] = t.balance - MinBalance[a] - t.total]
<1>1. Opened(a)' /\ Current(a)' = t
    BY DEF Opened, Current
<1>2. \A b \in Accounts \ {a} : Opened(b)' = Opened(b) /\ Current(b)' = Current(b)
    BY DEF Opened, Current
<1>3. OpenAccounts' = OpenAccounts \cup {a}
    BY <1>1, <1>2 DEF OpenAccounts
<1>4. StatusOf' = [StatusOf EXCEPT ![a] = t.status]
    BY <1>1, <1>2 DEF StatusOf
<1>5. BalanceOf' = [BalanceOf EXCEPT ![a] = t.balance]
    BY <1>1, <1>2 DEF BalanceOf
<1>6. ReservedOf' = [ReservedOf EXCEPT ![a] = t.reserved]
    BY <1>1, <1>2 DEF ReservedOf
<1>7. UnreservedOf' = [UnreservedOf EXCEPT ![a] = t.balance - MinBalance[a] - t.total]
    BY <1>1, <1>2 DEF UnreservedOf
<1>8. QED  BY <1>3, <1>4, <1>5, <1>6, <1>7

\* The four moves are the four operations of the promise.
LEMMA MovedIsPromised ==
    ASSUME Base, NEW a \in Accounts, NEW t, NEW d, Opened(a), a \notin raced,
           Current(a) \in States, Moved(a, Current(a), t, d),
           OpenAccounts' = OpenAccounts, raced' = raced,
           StatusOf' = [StatusOf EXCEPT ![a] = t.status],
           BalanceOf' = [BalanceOf EXCEPT ![a] = t.balance],
           ReservedOf' = [ReservedOf EXCEPT ![a] = t.reserved],
           UnreservedOf' = [UnreservedOf EXCEPT ![a] = t.balance - MinBalance[a] - t.total]
    PROVE  Promise!Next
<1> USE LedgerAssumption, LimitsAssumption
<1> DEFINE s == Current(a)
<1>1. /\ s.balance \in Int /\ s.total \in Int /\ s.reserved \in [Regions -> Int]
      /\ s.status \in Statuses /\ MinBalance[a] \in Int
    BY DEF States
<1>2. /\ StatusOf[a] = s.status /\ BalanceOf[a] = s.balance
      /\ ReservedOf[a] = s.reserved
      /\ UnreservedOf[a] = s.balance - MinBalance[a] - s.total
      /\ Promise!Serves(a)
    BY DEF StatusOf, BalanceOf, ReservedOf, UnreservedOf, OpenAccounts, Promise!Serves
<1>3. /\ [StatusOf EXCEPT ![a] = StatusOf[a]] = StatusOf
      /\ [BalanceOf EXCEPT ![a] = BalanceOf[a]] = BalanceOf
      /\ [ReservedOf EXCEPT ![a] = ReservedOf[a]] = ReservedOf
      /\ [UnreservedOf EXCEPT ![a] = UnreservedOf[a]] = UnreservedOf
    BY DEF StatusOf, BalanceOf, ReservedOf, UnreservedOf
<1> HIDE DEF s
<1>4. ASSUME NEW x \in Amounts, Credited(a, s, t, x)
      PROVE  Promise!Credit(a, x)
    <2>1. t.balance - MinBalance[a] - t.total = UnreservedOf[a] + x
        <3>1. t.balance = s.balance + x /\ t.total = s.total /\ x \in Int
            BY <1>4 DEF Credited
        <3>2. QED  BY <1>1, <1>2, <3>1
    <2>2. QED  BY <1>2, <1>3, <1>4, <2>1
                DEF Credited, Promise!Credit, WithinLimits, BelowMax
<1>5. ASSUME NEW r \in Regions, NEW x \in Amounts, Debited(a, s, t, r, x)
      PROVE  Promise!Debit(a, r, x)
    <2>1. t.balance - MinBalance[a] - t.total = UnreservedOf[a]
        <3>1. t.balance = s.balance - x /\ t.total = s.total - x /\ x \in Int
            BY <1>5 DEF Debited
        <3>2. QED  BY <1>1, <1>2, <3>1
    <2>2. [ReservedOf EXCEPT ![a] = t.reserved] = [ReservedOf EXCEPT ![a][r] = @ - x]
        BY <1>1, <1>2, <1>5 DEF Debited
    <2>3. QED  BY <1>2, <1>3, <1>5, <2>1, <2>2
                DEF Debited, Promise!Debit, WithinLimits, BelowMax
<1>6. ASSUME NEW r \in Regions, NEW x \in Amounts, Reserving(a, s, t, r, x)
      PROVE  Promise!Reserve(a, r, x)
    <2>1. t.balance - MinBalance[a] - t.total = UnreservedOf[a] - x
        <3>1. t.balance = s.balance /\ t.total = s.total + x /\ x \in Int
            BY <1>6 DEF Reserving
        <3>2. QED  BY <1>1, <1>2, <3>1
    <2>2. [ReservedOf EXCEPT ![a] = t.reserved] = [ReservedOf EXCEPT ![a][r] = @ + x]
        BY <1>1, <1>2, <1>6 DEF Reserving
    <2>3. QED  BY <1>2, <1>3, <1>6, <2>1, <2>2 DEF Reserving, Promise!Reserve
<1>7. ASSUME NEW new \in Statuses, Restated(s, t, new)
      PROVE  Promise!SetStatus(a, new)
    <2>1. s.status # "CLOSED" /\ new # s.status
        BY <1>1, <1>7 DEF Restated, ValidTransitions, Statuses
    <2>2. QED  BY <1>2, <1>3, <1>7, <2>1 DEF Restated, Promise!SetStatus
<1>8. QED  BY <1>4, <1>5, <1>6, <1>7 DEF Moved, s, Promise!Next, Statuses

\* Every step of the ledger is a step of the atomic accounts, or none.
LEMMA PromisedStep ==
    ASSUME Base, [Next]_vars
    PROVE  [Promise!Next]_(Promise!avars)
<1>1. ASSUME NEW a \in Accounts, NEW q \in Regions, CreateAccount(a, q)
      PROVE  Promise!Next
    <2>1. /\ history' = [history EXCEPT ![a] = <<Created(q)>>]
          /\ raced' = raced /\ ~Opened(a)
        BY <1>1 DEF CreateAccount
    <2>2. history'[a] = <<Created(q)>> /\ \A b \in Accounts \ {a} : history'[b] = history[b]
        BY <2>1 DEF Base, TypeOK
    <2>3. /\ Created(q).status = "ACTIVE" /\ Created(q).balance = 0
          /\ Created(q).reserved = [r \in Regions |-> 0] /\ Created(q).total = 0
        BY DEF Created
    <2>4. /\ OpenAccounts' = OpenAccounts \cup {a}
          /\ StatusOf' = [StatusOf EXCEPT ![a] = "ACTIVE"]
          /\ BalanceOf' = [BalanceOf EXCEPT ![a] = 0]
          /\ ReservedOf' = [ReservedOf EXCEPT ![a] = [r \in Regions |-> 0]]
          /\ UnreservedOf' = [UnreservedOf EXCEPT ![a] = 0 - MinBalance[a] - 0]
        <3> DEFINE t == Created(q)
        <3>1. history'[a] # <<>> /\ t = history'[a][Len(history'[a])]
            BY <2>2
        <3> HIDE DEF t
        <3>2. /\ OpenAccounts' = OpenAccounts \cup {a}
              /\ StatusOf' = [StatusOf EXCEPT ![a] = t.status]
              /\ BalanceOf' = [BalanceOf EXCEPT ![a] = t.balance]
              /\ ReservedOf' = [ReservedOf EXCEPT ![a] = t.reserved]
              /\ UnreservedOf' =
                    [UnreservedOf EXCEPT ![a] = t.balance - MinBalance[a] - t.total]
            BY <2>2, <3>1, ViewsFollow
        <3>3. QED  BY <2>3, <3>2 DEF t
    <2>5. /\ BalanceOf[a] = 0 /\ ReservedOf[a] = [r \in Regions |-> 0]
          /\ UnreservedOf[a] = 0 - MinBalance[a] - 0
          /\ a \notin OpenAccounts
        BY <2>1, LimitsAssumption DEF BalanceOf, ReservedOf, UnreservedOf, OpenAccounts
    <2>6. BalanceOf' = BalanceOf /\ ReservedOf' = ReservedOf /\ UnreservedOf' = UnreservedOf
        BY <2>4, <2>5 DEF BalanceOf, ReservedOf, UnreservedOf
    <2>7. Promise!Open(a)
        BY <2>1, <2>4, <2>5, <2>6 DEF Promise!Open
    <2>8. QED  BY <2>7 DEF Promise!Next
<1>2. ASSUME NEW h \in Handlers, AppendEvents(h)
      PROVE  Promise!Next
    <2>1. PICK a \in Accounts : a = pending[h].account
        BY <1>2, AppendStep DEF Base
    <2>2. /\ Current(a) \in States /\ Len(history[a]) \in Nat \ {0}
          /\ \A b \in Accounts \ {a} : history'[b] = history[b]
        BY <1>2, <2>1, AppendStep, AppendElsewhere DEF Base
    <2>3. history'[a] # <<>>
        <3>1. history'[pending[h].account] # <<>>
            BY <1>2, AppendLast, Zenon
        <3>2. QED  BY <2>1, <3>1
    <2>4. Opened(a) /\ a \in OpenAccounts
        BY <2>2 DEF Opened, OpenAccounts
    <2>5. raced' = raced \/ raced' = raced \cup {a}
        BY <1>2, <2>1 DEF AppendEvents, Appended
    <2> DEFINE t == history'[a][Len(history'[a])]
    <2>6. /\ OpenAccounts' = OpenAccounts
          /\ StatusOf' = [StatusOf EXCEPT ![a] = t.status]
          /\ BalanceOf' = [BalanceOf EXCEPT ![a] = t.balance]
          /\ ReservedOf' = [ReservedOf EXCEPT ![a] = t.reserved]
          /\ UnreservedOf' = [UnreservedOf EXCEPT ![a] = t.balance - MinBalance[a] - t.total]
        <3>1. OpenAccounts \cup {a} = OpenAccounts
            BY <2>4
        <3>2. PICK last : last = t
            OBVIOUS
        <3> HIDE DEF t
        <3>3. last = history'[a][Len(history'[a])]
            BY <3>2 DEF t
        <3>4. /\ OpenAccounts' = OpenAccounts \cup {a}
              /\ StatusOf' = [StatusOf EXCEPT ![a] = last.status]
              /\ BalanceOf' = [BalanceOf EXCEPT ![a] = last.balance]
              /\ ReservedOf' = [ReservedOf EXCEPT ![a] = last.reserved]
              /\ UnreservedOf' =
                    [UnreservedOf EXCEPT ![a] = last.balance - MinBalance[a] - last.total]
            BY <2>2, <2>3, <3>3, ViewsFollow, Zenon
        <3>5. QED  BY <3>1, <3>2, <3>4
    <2> HIDE DEF t
    <2>7. CASE a \in raced'
        <3>1. \A b \in Accounts \ {a} :
                 /\ StatusOf'[b] = StatusOf[b] /\ BalanceOf'[b] = BalanceOf[b]
                 /\ ReservedOf'[b] = ReservedOf[b] /\ UnreservedOf'[b] = UnreservedOf[b]
            BY <2>6 DEF StatusOf, BalanceOf, ReservedOf, UnreservedOf
        <3>2. raced' = raced \cup {a}
            BY <2>5, <2>7
        <3>3. Promise!Break(a)
            BY <2>4, <2>6, <3>1, <3>2 DEF Promise!Break
        <3>4. QED  BY <3>3 DEF Promise!Next
    <2>8. CASE a \notin raced'
        <3>1. pending[h].base = Len(history[a]) /\ raced' = raced /\ a \notin raced
            BY <1>2, <2>1, <2>5, <2>8, UnmarkedIsFresh
        <3>2. \E d : Moved(a, Current(a), t, d)
            <4>1. LET b == pending[h].account
                  IN  \E d : Moved(b, Current(b), history'[b][Len(history'[b])], d)
                BY <1>2, <2>1, <3>1, FreshAppend, Zenon
            <4>2. QED  BY <2>1, <4>1 DEF t
        <3>3. QED  BY <2>2, <2>4, <2>6, <3>1, <3>2, MovedIsPromised
    <2>9. QED  BY <2>7, <2>8
<1>3. CASE UNCHANGED <<history, raced>>
    <2>1. \A a \in Accounts : Opened(a)' = Opened(a) /\ Current(a)' = Current(a)
        BY <1>3 DEF Opened, Current
    <2>2. QED  BY <1>3, <2>1 DEF Promise!avars, OpenAccounts, StatusOf, BalanceOf,
                                 ReservedOf, UnreservedOf
<1>4. QED  BY <1>1, <1>2, <1>3, StepCases DEF Decides, AppendFails, vars, Base

\* Loads, decisions and appends of concurrent handlers implement indivisible
\* operations on every account, up to the account's first stale append.
THEOREM LedgerImplementsPromise == Spec => AtomicUnlessRaced
<1>1. Init => Promise!Init
    BY DEF Init, Promise!Init, Opened, OpenAccounts, StatusOf, BalanceOf, ReservedOf,
           UnreservedOf
<1>2. Base /\ [Next]_vars => [Promise!Next]_(Promise!avars)
    BY PromisedStep
<1>3. QED  BY <1>1, <1>2, BaseInvariant, PTL DEF Spec, AtomicUnlessRaced, Promise!Spec

==============================================================================
