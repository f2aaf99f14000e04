------------------------------- MODULE Account -------------------------------
(***************************************************************************)
(* The account aggregate as pure operators: the state that fromEvents()    *)
(* rebuilds, what each command method accepts, and what each on<Event>      *)
(* handler does to the state.  Owner, currency, timestamps and the hash     *)
(* chain are left out: no guard reads them.  The limits are parameters      *)
(* because no command handler calls changeLimits().                         *)
(***************************************************************************)
EXTENDS Integers, FiniteSets

CONSTANTS
    Accounts,      \* account ids
    Regions,       \* values of REGION_ID
    MinBalance,    \* account -> minBalance, 0 where the account has none
    MaxBalance,    \* account -> maxBalance, or NoLimit
    NoLimit,       \* stands for an undefined maxBalance
    LowWater       \* the replenishment threshold, 50 in the code

ASSUME LimitsAssumption ==
    /\ MinBalance \in [Accounts -> Int]
    /\ MaxBalance \in [Accounts -> Int \cup {NoLimit}]
    /\ NoLimit \notin Int
    /\ LowWater \in Int

ASSUME RegionsAssumption == IsFiniteSet(Regions)

Statuses == {"ACTIVE", "SUSPENDED", "CLOSED"}

Changes == {"CREDIT", "DEBIT"}

\* The aggregate's fields.  total is getTotalReserved(), which the code sums
\* from the map each time; the model carries it along with the map.
States ==
    [status   : Statuses,
     balance  : Int,
     reserved : [Regions -> Int],
     total    : Int,
     home     : Regions,
     version  : Nat]

\* create() and onAccountCreated(): the home region is the creating one.
Created(r) ==
    [status   |-> "ACTIVE",
     balance  |-> 0,
     reserved |-> [q \in Regions |-> 0],
     total    |-> 0,
     home     |-> r,
     version  |-> 1]

------------------------------------------------------------------------------
(* Events that commands put on an existing account.                         *)

BalanceChangedEvents ==
    [type : {"BalanceChanged"}, version : Nat, region : Regions,
     change : Changes, amount : Int, newBalance : Int]

BalanceReservedEvents ==
    [type : {"BalanceReserved"}, version : Nat, region : Regions, amount : Int]

StatusChangedEvents ==
    [type : {"AccountStatusChanged"}, version : Nat, newStatus : Statuses]

Events == BalanceChangedEvents \cup BalanceReservedEvents \cup StatusChangedEvents

Signed(change, amount) == IF change = "CREDIT" THEN amount ELSE -amount

\* Mutant: the event is applied as a difference instead of an absolute value.
OnBalanceChangedByDelta(s, e) ==
    LET taken == IF e.change = "DEBIT" THEN e.amount ELSE 0
    IN  [s EXCEPT !.reserved = [s.reserved EXCEPT ![e.region] = @ - taken],
                  !.total    = @ - taken,
                  !.balance  = @ + Signed(e.change, e.amount),
                  !.version  = e.version]

\* onBalanceChanged(): the reservation moves by a difference, the balance is
\* overwritten with the absolute value the event carries.
OnBalanceChanged(s, e) ==
    LET taken == IF e.change = "DEBIT" THEN e.amount ELSE 0
    IN  [s EXCEPT !.reserved = [s.reserved EXCEPT ![e.region] = @ - taken],
                  !.total    = @ - taken,
                  !.balance  = e.newBalance,
                  !.version  = e.version]

\* Mutant: a new reservation replaces the region's old one.
OnBalanceReservedReplacing(s, e) ==
    [s EXCEPT !.reserved = [s.reserved EXCEPT ![e.region] = e.amount],
              !.total    = @ + e.amount,
              !.version  = e.version]

\* onBalanceReserved()
OnBalanceReserved(s, e) ==
    [s EXCEPT !.reserved = [s.reserved EXCEPT ![e.region] = @ + e.amount],
              !.total    = @ + e.amount,
              !.version  = e.version]

\* onAccountStatusChanged()
OnAccountStatusChanged(s, e) ==
    [s EXCEPT !.status = e.newStatus, !.version = e.version]

\* apply(): dispatch on the event's type, then take over its version.
Apply(s, e) ==
    CASE e.type = "BalanceChanged"       -> OnBalanceChanged(s, e)
      [] e.type = "BalanceReserved"      -> OnBalanceReserved(s, e)
      [] e.type = "AccountStatusChanged" -> OnAccountStatusChanged(s, e)

\* Mutant: the event shares the version of the balance change before it.
OnReplenishmentSameVersion(s, version) == s

\* Applying ReplenishmentRequestedEvent: its type name matches no handler
\* (onReplenishmentRequested is not on<ReplenishmentRequestedEvent>), so only
\* the version moves.
OnReplenishment(s, version) == [s EXCEPT !.version = version]

\* The states that replay reaches after a command's one or two events.
Replayed(s, e, refill) ==
    LET next == Apply(s, e)
    IN  IF refill THEN <<next, OnReplenishment(next, e.version + 1)>> ELSE <<next>>

------------------------------------------------------------------------------
(* What the command methods accept.                                         *)

BelowMax(a, balance) == MaxBalance[a] # NoLimit => balance <= MaxBalance[a]

WithinLimits(a, balance) == balance >= MinBalance[a] /\ BelowMax(a, balance)

\* Mutant: a debit does not look at the region's reservation.
CanChangeBalanceUnreserved(a, s, r, change, amount) ==
    /\ s.status = "ACTIVE"
    /\ amount > 0
    /\ WithinLimits(a, s.balance + Signed(change, amount))

\* Mutant: the limits are not checked.
CanChangeBalanceUnlimited(a, s, r, change, amount) ==
    /\ s.status = "ACTIVE"
    /\ amount > 0
    /\ change = "DEBIT" => s.reserved[r] >= amount

\* Guards of changeBalance() executed in region r.
CanChangeBalance(a, s, r, change, amount) ==
    /\ s.status = "ACTIVE"
    /\ amount > 0
    /\ change = "DEBIT" => s.reserved[r] >= amount
    /\ WithinLimits(a, s.balance + Signed(change, amount))

BalanceChanged(s, r, change, amount) ==
    [type |-> "BalanceChanged", version |-> s.version + 1, region |-> r,
     change |-> change, amount |-> amount,
     newBalance |-> s.balance + Signed(change, amount)]

\* checkReplenishmentThreshold(), on the state after the balance change.
NeedsReplenishment(s, r) == s.reserved[r] < LowWater /\ r # s.home

\* Mutant: what other reservations hold is not subtracted.
CanReserveAgain(a, s, amount) == amount > 0 /\ s.balance - MinBalance[a] >= amount

\* Guards of reserve(): no look at the status.
CanReserve(a, s, amount) ==
    /\ amount > 0
    /\ s.balance - MinBalance[a] - s.total >= amount

BalanceReserved(s, r, amount) ==
    [type |-> "BalanceReserved", version |-> s.version + 1, region |-> r,
     amount |-> amount]

\* Mutant: a closed account may be reopened.
ReopeningTransitions ==
    [ACTIVE    |-> {"SUSPENDED", "CLOSED"},
     SUSPENDED |-> {"ACTIVE", "CLOSED"},
     CLOSED    |-> {"ACTIVE"}]

\* getValidStatusTransitions()
ValidTransitions ==
    [ACTIVE    |-> {"SUSPENDED", "CLOSED"},
     SUSPENDED |-> {"ACTIVE", "CLOSED"},
     CLOSED    |-> {}]

CanChangeStatus(s, new) == new \in ValidTransitions[s.status]

StatusChanged(s, new) ==
    [type |-> "AccountStatusChanged", version |-> s.version + 1, newStatus |-> new]

==============================================================================
