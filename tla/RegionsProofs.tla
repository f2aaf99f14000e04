----------------------------- MODULE RegionsProofs -----------------------------
(***************************************************************************)
(* Proofs about module Regions, for any number of processes, regions and    *)
(* aggregates and whatever Date.now() returns: stamps respect causality and *)
(* a clock moves back only when its process restarts.                       *)
(***************************************************************************)
EXTENDS Regions, SequenceTheorems, TLAPS

(* Both operations of the clock give a stamp after those they start from.   *)
LEMMA NowIsLater ==
    ASSUME NEW c \in Stamps, NEW time \in Nat
    PROVE  Now(c, time) \in Stamps /\ Before(c, Now(c, time))
BY DEF Now, Before, Stamp, Stamps

\* Merging a stamp moves the clock past itself and past that stamp.
LEMMA UpdateIsLater ==
    ASSUME NEW c \in Stamps, NEW s \in Stamps, NEW time \in Nat
    PROVE  /\ Update(c, s, time) \in Stamps
           /\ Before(c, Update(c, s, time)) /\ Before(s, Update(c, s, time))
<1> DEFINE max == Max3(time, c.physical, s.physical)
<1>1. /\ max \in Nat /\ max \in {time, c.physical, s.physical}
      /\ max >= time /\ max >= c.physical /\ max >= s.physical
  BY DEF Max3, Stamps
<1>2. /\ c.physical \in Nat /\ c.counter \in Nat /\ s.physical \in Nat /\ s.counter \in Nat
  BY DEF Stamps
<1> HIDE DEF max
<1>3. CASE max = c.physical /\ max = s.physical
  <2>1. Update(c, s, time) =
          Stamp(max, (IF c.counter >= s.counter THEN c.counter ELSE s.counter) + 1)
    BY <1>3 DEF Update, max
  <2> QED BY <1>1, <1>2, <1>3, <2>1 DEF Before, Stamp, Stamps
<1>4. CASE max = c.physical /\ max # s.physical
  <2>1. Update(c, s, time) = Stamp(max, c.counter + 1)
    BY <1>4 DEF Update, max
  <2> QED BY <1>1, <1>2, <1>4, <2>1 DEF Before, Stamp, Stamps
<1>5. CASE max # c.physical /\ max = s.physical
  <2>1. Update(c, s, time) = Stamp(max, s.counter + 1)
    BY <1>5 DEF Update, max
  <2> QED BY <1>1, <1>2, <1>5, <2>1 DEF Before, Stamp, Stamps
<1>6. CASE max # c.physical /\ max # s.physical
  <2>1. Update(c, s, time) = Stamp(max, 0)
    BY <1>6 DEF Update, max
  <2> QED BY <1>1, <1>2, <1>6, <2>1 DEF Before, Stamp, Stamps
<1> QED BY <1>3, <1>4, <1>5, <1>6

\* The order of stamps is transitive.
LEMMA BeforeIsTransitive ==
    ASSUME NEW r \in Stamps, NEW s \in Stamps, NEW t \in Stamps, Before(r, s), Before(s, t)
    PROVE  Before(r, t)
BY DEF Before, Stamps

------------------------------------------------------------------------------

(* What taking a stamp in does to the process.                              *)
LEMMA TakesFacts ==
    ASSUME TypeOK, RegionsAssumption, NEW p \in Processes, NEW stamp \in Stamps,
           Takes(p, stamp)
    PROVE  \E c \in Stamps :
              /\ Before(clock[p], c) /\ Before(stamp, c)
              /\ clock' = [clock EXCEPT ![p] = c]
              /\ known' = [known EXCEPT ![p] = @ \cup {stamp}]
<1>1. PICK time \in Times : Moves(p, Update(clock[p], stamp, time))
  BY DEF Takes
<1>2. clock[p] \in Stamps /\ time \in Nat
  BY DEF TypeOK, RegionsAssumption
<1>3. /\ Update(clock[p], stamp, time) \in Stamps
      /\ Before(clock[p], Update(clock[p], stamp, time))
      /\ Before(stamp, Update(clock[p], stamp, time))
  BY <1>2, UpdateIsLater
<1> QED BY <1>1, <1>3 DEF Takes, Moves

(* What stamping an event does.                                             *)
LEMMA StampsFacts ==
    ASSUME TypeOK, RegionsAssumption, NEW p \in Processes, NEW a \in Aggregates,
           StampsEvent(p, a)
    PROVE  \E c \in Stamps :
              /\ Before(clock[p], c)
              /\ clock' = [clock EXCEPT ![p] = c]
              /\ sent' = sent \cup {[aggregate |-> a, region |-> RegionOf[p],
                                     stamp |-> c, after |-> known[p]]}
              /\ known' = [known EXCEPT ![p] = @ \cup {c}]
<1>1. PICK time \in Times : Moves(p, Now(clock[p], time))
  BY DEF StampsEvent
<1>2. clock[p] \in Stamps /\ time \in Nat
  BY DEF TypeOK, RegionsAssumption
<1>3. Now(clock[p], time) \in Stamps /\ Before(clock[p], Now(clock[p], time))
  BY <1>2, NowIsLater
<1>4. clock' = [clock EXCEPT ![p] = Now(clock[p], time)] /\ clock'[p] = Now(clock[p], time)
  BY <1>1 DEF Moves, TypeOK
<1> QED BY <1>3, <1>4 DEF StampsEvent

(* The stamp a step takes in is the stamp of an event in some log.          *)
LEMMA ReplayedStamp ==
    ASSUME TypeOK, NEW p \in Processes, replay[p] # <<>>
    PROVE  Head(replay[p]).stamp \in Stamps /\ Tail(replay[p]) \in Seq(Events)
<1>1. replay[p] \in Seq(Events)
  BY DEF TypeOK
<1>2. Head(replay[p]) \in Events
  BY <1>1, HeadTailProperties
<1> QED BY <1>1, <1>2, HeadTailProperties DEF Events

\* A logged event has a stamp.
LEMMA LoggedStamp ==
    ASSUME TypeOK, NEW a \in Aggregates, NEW i \in 1 .. Len(log[a])
    PROVE  log[a][i] \in Events /\ log[a][i].stamp \in Stamps
<1>1. log[a] \in Seq(Events)
  BY DEF TypeOK
<1>2. log[a][i] \in Events
  BY <1>1, ElementOfSeq
<1> QED BY <1>2 DEF Events

(* Every step keeps the types.                                              *)
LEMMA TypeOKPreserved ==
    ASSUME TypeOK, RegionsAssumption, [Next]_vars
    PROVE  TypeOK'
<1>1. ASSUME NEW p \in Processes, NEW a \in Aggregates, Create(p, a)
      PROVE  TypeOK'
  <2>1. PICK c \in Stamps :
           /\ clock' = [clock EXCEPT ![p] = c]
           /\ sent' = sent \cup {[aggregate |-> a, region |-> RegionOf[p],
                                  stamp |-> c, after |-> known[p]]}
           /\ known' = [known EXCEPT ![p] = @ \cup {c}]
    BY <1>1, StampsFacts DEF Create
  <2>2. RegionOf[p] \in Regions /\ known[p] \in SUBSET Stamps
    BY DEF RegionsAssumption, TypeOK
  <2>3. sent' \subseteq Events /\ known' \in [Processes -> SUBSET Stamps]
    BY <2>1, <2>2 DEF Events, TypeOK
  <2>4. stamped' \in 0 .. MaxEvents
    BY <1>1 DEF Create, StampsEvent, TypeOK, RegionsAssumption
  <2> QED BY <1>1, <2>1, <2>3, <2>4 DEF Create, TypeOK
<1>2. ASSUME NEW p \in Processes, NEW a \in Aggregates, Load(p, a)
      PROVE  TypeOK'
  <2>1. PICK n \in 1 .. Len(log[a]) : replay' = [replay EXCEPT ![p] = SubSeq(log[a], 1, n)]
    BY <1>2 DEF Load
  <2>2. SubSeq(log[a], 1, n) \in Seq(Events)
    <3>1. log[a] \in Seq(Events) /\ Len(log[a]) \in Nat
      BY LenProperties DEF TypeOK
    <3> QED BY <3>1, SubSeqProperties
  <2>3. target'[p] = a /\ \A q \in Processes \ {p} : target'[q] = target[q] /\ replay'[q] = replay[q]
    BY <1>2, <2>1 DEF Load, TypeOK
  <2>4. \A q \in Processes : target'[q] = None => replay'[q] = <<>>
    BY <2>3 DEF TypeOK, RegionsAssumption
  <2> QED BY <1>2, <2>1, <2>2, <2>4 DEF Load, TypeOK
<1>3. ASSUME NEW p \in Processes, Replay(p)
      PROVE  TypeOK'
  <2>1. Head(replay[p]).stamp \in Stamps /\ Tail(replay[p]) \in Seq(Events)
    BY <1>3, ReplayedStamp DEF Replay
  <2>2. PICK c \in Stamps :
           /\ clock' = [clock EXCEPT ![p] = c]
           /\ known' = [known EXCEPT ![p] = @ \cup {Head(replay[p]).stamp}]
    BY <1>3, <2>1, TakesFacts DEF Replay
  <2>3. known' \in [Processes -> SUBSET Stamps]
    BY <2>1, <2>2 DEF TypeOK
  <2>4. replay' \in [Processes -> Seq(Events)]
    BY <1>3, <2>1 DEF Replay, TypeOK
  <2>5. \A q \in Processes : target'[q] = None => replay'[q] = <<>>
    BY <1>3 DEF Replay, TypeOK
  <2> QED BY <1>3, <2>2, <2>3, <2>4, <2>5 DEF Replay, TypeOK
<1>4. ASSUME NEW p \in Processes, Decide(p)
      PROVE  TypeOK'
  <2>1. target[p] \in Aggregates
    BY <1>4 DEF Decide, TypeOK
  <2>2. PICK c \in Stamps :
           /\ clock' = [clock EXCEPT ![p] = c]
           /\ sent' = sent \cup {[aggregate |-> target[p], region |-> RegionOf[p],
                                  stamp |-> c, after |-> known[p]]}
           /\ known' = [known EXCEPT ![p] = @ \cup {c}]
    BY <1>4, <2>1, StampsFacts DEF Decide
  <2>3. RegionOf[p] \in Regions /\ known[p] \in SUBSET Stamps
    BY DEF RegionsAssumption, TypeOK
  <2>4. sent' \subseteq Events /\ known' \in [Processes -> SUBSET Stamps]
    BY <2>1, <2>2, <2>3 DEF Events, TypeOK
  <2>5. stamped' \in 0 .. MaxEvents
    BY <1>4 DEF Decide, StampsEvent, TypeOK, RegionsAssumption
  <2> QED BY <1>4, <2>2, <2>4, <2>5 DEF Decide, Ends, TypeOK
<1>5. ASSUME NEW p \in Processes, Refuse(p)
      PROVE  TypeOK'
  BY <1>5 DEF Refuse, Ends, TypeOK
<1>6. ASSUME NEW p \in Processes, Restart(p)
      PROVE  TypeOK'
  <2>1. Zero \in Stamps /\ <<>> \in Seq(Events)
    BY EmptySeq DEF Zero, Stamps
  <2> QED BY <1>6, <2>1 DEF Restart, Ends, TypeOK, RegionsAssumption
<1>7. ASSUME NEW e \in sent, AppendEvent(e)
      PROVE  TypeOK'
  <2>1. e \in Events /\ e.aggregate \in Aggregates
    BY DEF TypeOK, Events
  <2>2. Append(log[e.aggregate], e) \in Seq(Events)
    BY <2>1, AppendProperties DEF TypeOK
  <2> QED BY <1>7, <2>1, <2>2 DEF AppendEvent, TypeOK
<1>8. ASSUME NEW e \in sent, AppendFails(e)
      PROVE  TypeOK'
  BY <1>8 DEF AppendFails, TypeOK
<1>9. ASSUME NEW p \in Processes, NEW a \in Aggregates, NEW i \in 1 .. Len(log[a]),
             Replicate(p, a, i)
      PROVE  TypeOK'
  <2>1. log[a][i].stamp \in Stamps
    BY LoggedStamp
  <2>2. PICK c \in Stamps :
           /\ clock' = [clock EXCEPT ![p] = c]
           /\ known' = [known EXCEPT ![p] = @ \cup {log[a][i].stamp}]
    BY <1>9, <2>1, TakesFacts DEF Replicate
  <2>3. known' \in [Processes -> SUBSET Stamps]
    BY <2>1, <2>2 DEF TypeOK
  <2> QED BY <1>9, <2>2, <2>3 DEF Replicate, TypeOK
<1>10. CASE UNCHANGED vars
  BY <1>10 DEF vars, TypeOK
<1> QED BY <1>1, <1>2, <1>3, <1>4, <1>5, <1>6, <1>7, <1>8, <1>9, <1>10 DEF Next

------------------------------------------------------------------------------

(* What a process knows is not later than its clock.                        *)
KnownIsPast ==
    \A p \in Processes : \A s \in known[p] : s = clock[p] \/ Before(s, clock[p])

IInv == TypeOK /\ KnownIsPast /\ CausesPrecede

(* A process whose clock only moves on still knows nothing later.           *)
LEMMA KnownStaysPast ==
    ASSUME TypeOK, KnownIsPast, NEW p \in Processes, NEW c \in Stamps, NEW s \in Stamps,
           Before(clock[p], c), s = c \/ Before(s, c),
           clock' = [clock EXCEPT ![p] = c],
           known' = [known EXCEPT ![p] = @ \cup {s}]
    PROVE  KnownIsPast'
<1> SUFFICES ASSUME NEW q \in Processes, NEW r \in known'[q]
             PROVE  r = clock'[q] \/ Before(r, clock'[q])
  BY DEF KnownIsPast
<1>1. CASE q # p
  <2>1. clock'[q] = clock[q] /\ known'[q] = known[q]
    BY <1>1 DEF TypeOK
  <2> QED BY <2>1 DEF KnownIsPast
<1>2. CASE q = p
  <2>1. clock'[q] = c /\ known'[q] = known[p] \cup {s}
    BY <1>2 DEF TypeOK
  <2>2. CASE r = s
    BY <2>1, <2>2
  <2>3. CASE r \in known[p]
    <3>1. r = clock[p] \/ Before(r, clock[p])
      BY <2>3 DEF KnownIsPast
    <3>2. r \in Stamps /\ clock[p] \in Stamps
      BY <2>3 DEF TypeOK
    <3>3. Before(r, c)
      BY <3>1, <3>2, BeforeIsTransitive
    <3> QED BY <2>1, <3>3
  <2> QED BY <2>1, <2>2, <2>3
<1> QED BY <1>1, <1>2

(* An event stamped by a process comes after all that the process knew.     *)
LEMMA StampFollows ==
    ASSUME TypeOK, KnownIsPast, NEW p \in Processes, NEW c \in Stamps, Before(clock[p], c)
    PROVE  \A s \in known[p] : Before(s, c)
<1> SUFFICES ASSUME NEW s \in known[p]
             PROVE  Before(s, c)
  OBVIOUS
<1>1. s \in Stamps /\ clock[p] \in Stamps
  BY DEF TypeOK
<1>2. s = clock[p] \/ Before(s, clock[p])
  BY DEF KnownIsPast
<1> QED BY <1>1, <1>2, BeforeIsTransitive

(* Stamping an event keeps the invariant, whatever else the step changes.   *)
LEMMA StampingKeepsOrder ==
    ASSUME IInv, RegionsAssumption, NEW p \in Processes, NEW a \in Aggregates,
           StampsEvent(p, a), log' = log
    PROVE  KnownIsPast' /\ CausesPrecede'
<1>1. PICK c \in Stamps :
         /\ Before(clock[p], c)
         /\ clock' = [clock EXCEPT ![p] = c]
         /\ sent' = sent \cup {[aggregate |-> a, region |-> RegionOf[p],
                                stamp |-> c, after |-> known[p]]}
         /\ known' = [known EXCEPT ![p] = @ \cup {c}]
  BY StampsFacts DEF IInv
<1>2. KnownIsPast'
  BY <1>1, KnownStaysPast DEF IInv
<1>3. \A s \in known[p] : Before(s, c)
  BY <1>1, StampFollows DEF IInv
<1> DEFINE new == [aggregate |-> a, region |-> RegionOf[p], stamp |-> c, after |-> known[p]]
<1>4. AllEvents' \subseteq AllEvents \cup {new}
  BY <1>1 DEF AllEvents
<1>5. \A s \in new.after : Before(s, new.stamp)
  BY <1>3
<1> HIDE DEF new
<1>6. CausesPrecede'
  BY <1>4, <1>5 DEF CausesPrecede, IInv
<1> QED BY <1>2, <1>6

(* A step that adds no event keeps the events' order.                       *)
LEMMA NoNewEvents ==
    ASSUME CausesPrecede, AllEvents' \subseteq AllEvents
    PROVE  CausesPrecede'
BY DEF CausesPrecede

(* An append adds no event: it was sent before.                            *)
LEMMA AppendAddsNone ==
    ASSUME TypeOK, NEW e \in sent, AppendEvent(e)
    PROVE  AllEvents' \subseteq AllEvents
<1> SUFFICES ASSUME NEW a \in Aggregates, NEW i \in 1 .. Len(log'[a])
             PROVE  log'[a][i] \in AllEvents
  BY DEF AppendEvent, AllEvents
<1>1. e.aggregate \in Aggregates /\ e \in Events /\ log[a] \in Seq(Events)
  BY DEF TypeOK, Events
<1>2. CASE a = e.aggregate
  <2>1. log'[a] = Append(log[a], e)
    BY <1>2 DEF AppendEvent, TypeOK
  <2>2. \/ log'[a][i] = e
        \/ i \in 1 .. Len(log[a]) /\ log'[a][i] = log[a][i]
    <3>1. /\ Len(Append(log[a], e)) = Len(log[a]) + 1
          /\ Append(log[a], e)[Len(log[a]) + 1] = e
          /\ \A j \in 1 .. Len(log[a]) : Append(log[a], e)[j] = log[a][j]
      BY <1>1, AppendProperties
    <3>2. Len(log[a]) \in Nat
      BY <1>1, LenProperties
    <3>3. i \in 1 .. Len(log[a]) + 1
      BY <2>1, <3>1
    <3>4. i \in 1 .. Len(log[a]) \/ i = Len(log[a]) + 1
      BY <3>2, <3>3
    <3> QED BY <2>1, <3>1, <3>4
  <2>3. e \in AllEvents
    BY DEF AllEvents
  <2>4. ASSUME NEW j \in 1 .. Len(log[a])
        PROVE  log[a][j] \in AllEvents
    BY DEF AllEvents
  <2> QED BY <2>2, <2>3, <2>4
<1>3. CASE a # e.aggregate
  <2>1. log'[a] = log[a]
    BY <1>3 DEF AppendEvent, TypeOK
  <2> QED BY <2>1 DEF AllEvents
<1> QED BY <1>2, <1>3

(* The inductive step.                                                      *)
LEMMA IInvPreserved ==
    ASSUME IInv, RegionsAssumption, [Next]_vars
    PROVE  IInv'
<1> USE DEF IInv
<1>1. TypeOK'
  BY TypeOKPreserved
<1>2. KnownIsPast' /\ CausesPrecede'
  <2>1. ASSUME NEW p \in Processes, NEW a \in Aggregates, Create(p, a)
        PROVE  KnownIsPast' /\ CausesPrecede'
    BY <2>1, StampingKeepsOrder DEF Create
  <2>2. ASSUME NEW p \in Processes, NEW a \in Aggregates, Load(p, a)
        PROVE  KnownIsPast' /\ CausesPrecede'
    <3>1. UNCHANGED <<log, sent, clock, known>>
      BY <2>2 DEF Load
    <3> QED BY <3>1, NoNewEvents DEF KnownIsPast, AllEvents
  <2>3. ASSUME NEW p \in Processes, Replay(p)
        PROVE  KnownIsPast' /\ CausesPrecede'
    <3>1. Head(replay[p]).stamp \in Stamps
      BY <2>3, ReplayedStamp DEF Replay
    <3>2. PICK c \in Stamps :
             /\ Before(clock[p], c) /\ Before(Head(replay[p]).stamp, c)
             /\ clock' = [clock EXCEPT ![p] = c]
             /\ known' = [known EXCEPT ![p] = @ \cup {Head(replay[p]).stamp}]
      BY <2>3, <3>1, TakesFacts DEF Replay
    <3>3. KnownIsPast'
      BY <3>1, <3>2, KnownStaysPast
    <3>4. UNCHANGED <<log, sent>>
      BY <2>3 DEF Replay
    <3> QED BY <3>3, <3>4, NoNewEvents DEF AllEvents
  <2>4. ASSUME NEW p \in Processes, Decide(p)
        PROVE  KnownIsPast' /\ CausesPrecede'
    <3>1. target[p] \in Aggregates
      BY <2>4 DEF Decide, TypeOK
    <3> QED BY <2>4, <3>1, StampingKeepsOrder DEF Decide
  <2>5. ASSUME NEW p \in Processes, Refuse(p)
        PROVE  KnownIsPast' /\ CausesPrecede'
    <3>1. UNCHANGED <<log, sent, clock, known>>
      BY <2>5 DEF Refuse
    <3> QED BY <3>1, NoNewEvents DEF KnownIsPast, AllEvents
  <2>6. ASSUME NEW p \in Processes, Restart(p)
        PROVE  KnownIsPast' /\ CausesPrecede'
    <3>1. KnownIsPast'
      BY <2>6 DEF Restart, KnownIsPast, TypeOK
    <3>2. UNCHANGED <<log, sent>>
      BY <2>6 DEF Restart
    <3> QED BY <3>1, <3>2, NoNewEvents DEF AllEvents
  <2>7. ASSUME NEW e \in sent, AppendEvent(e)
        PROVE  KnownIsPast' /\ CausesPrecede'
    <3>1. UNCHANGED <<clock, known>>
      BY <2>7 DEF AppendEvent
    <3>2. AllEvents' \subseteq AllEvents
      BY <2>7, AppendAddsNone
    <3> QED BY <3>1, <3>2, NoNewEvents DEF KnownIsPast
  <2>8. ASSUME NEW e \in sent, AppendFails(e)
        PROVE  KnownIsPast' /\ CausesPrecede'
    <3>1. UNCHANGED <<log, clock, known>> /\ sent' \subseteq sent
      BY <2>8 DEF AppendFails
    <3> QED BY <3>1, NoNewEvents DEF KnownIsPast, AllEvents
  <2>9. ASSUME NEW p \in Processes, NEW a \in Aggregates, NEW i \in 1 .. Len(log[a]),
               Replicate(p, a, i)
        PROVE  KnownIsPast' /\ CausesPrecede'
    <3>1. log[a][i].stamp \in Stamps
      BY LoggedStamp
    <3>2. PICK c \in Stamps :
             /\ Before(clock[p], c) /\ Before(log[a][i].stamp, c)
             /\ clock' = [clock EXCEPT ![p] = c]
             /\ known' = [known EXCEPT ![p] = @ \cup {log[a][i].stamp}]
      BY <2>9, <3>1, TakesFacts DEF Replicate
    <3>3. KnownIsPast'
      BY <3>1, <3>2, KnownStaysPast
    <3>4. UNCHANGED <<log, sent>>
      BY <2>9 DEF Replicate
    <3> QED BY <3>3, <3>4, NoNewEvents DEF AllEvents
  <2>10. CASE UNCHANGED vars
    <3>1. UNCHANGED <<log, sent, clock, known>>
      BY <2>10 DEF vars
    <3> QED BY <3>1, NoNewEvents DEF KnownIsPast, AllEvents
  <2> QED BY <2>1, <2>2, <2>3, <2>4, <2>5, <2>6, <2>7, <2>8, <2>9, <2>10 DEF Next
<1> QED BY <1>1, <1>2

\* At first nothing is logged and nothing known.
LEMMA IInvInitially == ASSUME RegionsAssumption, Init PROVE IInv
<1>1. Zero \in Stamps /\ <<>> \in Seq(Events)
  BY EmptySeq DEF Zero, Stamps
<1>2. TypeOK
  BY <1>1 DEF Init, TypeOK, RegionsAssumption
<1>3. KnownIsPast
  BY DEF Init, KnownIsPast
<1>4. AllEvents = {}
  BY DEF Init, AllEvents
<1> QED BY <1>2, <1>3, <1>4 DEF IInv, CausesPrecede

------------------------------------------------------------------------------

(* Every reachable state is well typed (Regions.TypeOK).                    *)
THEOREM ClocksAreTyped == Spec => []TypeOK
<1>1. Init => IInv
  BY RegionsAssumption, IInvInitially
<1>2. IInv /\ [Next]_vars => IInv'
  BY RegionsAssumption, IInvPreserved
<1>3. IInv => TypeOK
  BY DEF IInv
<1> QED BY <1>1, <1>2, <1>3, PTL DEF Spec

(* HLC: "If event A causes event B, HLC(A) < HLC(B)", for what the process  *)
(* of B replayed, replicated and stamped since it started.                  *)
THEOREM StampsRespectCausality == Spec => []CausesPrecede
<1>1. Init => IInv
  BY RegionsAssumption, IInvInitially
<1>2. IInv /\ [Next]_vars => IInv'
  BY RegionsAssumption, IInvPreserved
<1>3. IInv => CausesPrecede
  BY DEF IInv
<1> QED BY <1>1, <1>2, <1>3, PTL DEF Spec

(* HLC: "Clock always moves forward", except when its process restarts.     *)
LEMMA StepMovesForward ==
    ASSUME TypeOK, RegionsAssumption, [Next]_vars, restarts' = restarts,
           NEW p \in Processes, clock'[p] # clock[p]
    PROVE  Before(clock[p], clock'[p])
<1>1. ASSUME NEW q \in Processes, NEW c \in Stamps, Before(clock[q], c),
             clock' = [clock EXCEPT ![q] = c]
      PROVE  Before(clock[p], clock'[p])
  BY <1>1 DEF TypeOK
<1>2. ASSUME NEW q \in Processes, NEW a \in Aggregates, StampsEvent(q, a)
      PROVE  Before(clock[p], clock'[p])
  <2>1. \E c \in Stamps : Before(clock[q], c) /\ clock' = [clock EXCEPT ![q] = c]
    BY <1>2, StampsFacts
  <2> QED BY <1>1, <2>1
<1>3. ASSUME NEW q \in Processes, NEW s \in Stamps, Takes(q, s)
      PROVE  Before(clock[p], clock'[p])
  <2>1. \E c \in Stamps : Before(clock[q], c) /\ clock' = [clock EXCEPT ![q] = c]
    BY <1>3, TakesFacts
  <2> QED BY <1>1, <2>1
<1>4. ASSUME NEW q \in Processes, NEW a \in Aggregates, Create(q, a) \/ Load(q, a)
      PROVE  Before(clock[p], clock'[p])
  BY <1>2, <1>4 DEF Create, Load
<1>5. ASSUME NEW q \in Processes, Replay(q)
      PROVE  Before(clock[p], clock'[p])
  BY <1>3, <1>5, ReplayedStamp DEF Replay
<1>6. ASSUME NEW q \in Processes, Decide(q)
      PROVE  Before(clock[p], clock'[p])
  <2>1. target[q] \in Aggregates
    BY <1>6 DEF Decide, TypeOK
  <2> QED BY <1>2, <1>6, <2>1 DEF Decide
<1>7. ASSUME NEW q \in Processes, Restart(q)
      PROVE  FALSE
  BY <1>7 DEF Restart, TypeOK
<1>8. ASSUME NEW q \in Processes, NEW a \in Aggregates, NEW i \in 1 .. Len(log[a]),
             Replicate(q, a, i)
      PROVE  Before(clock[p], clock'[p])
  BY <1>3, <1>8, LoggedStamp DEF Replicate
<1>9. ASSUME NEW q \in Processes, Refuse(q)
      PROVE  FALSE
  BY <1>9 DEF Refuse
<1>10. ASSUME NEW e \in sent, AppendEvent(e) \/ AppendFails(e)
       PROVE  FALSE
  BY <1>10 DEF AppendEvent, AppendFails
<1>11. CASE UNCHANGED vars
  BY <1>11 DEF vars
<1> QED BY <1>4, <1>5, <1>6, <1>7, <1>8, <1>9, <1>10, <1>11 DEF Next

\* A clock that moves, moves strictly forward, unless its process restarts
\* (HLC.now, HLC.update).
THEOREM MonotoneClocks == Spec => ClocksMoveForward
<1>1. TypeOK /\ [Next]_vars =>
        [\A p \in Processes :
            clock[p]' # clock[p] /\ restarts' = restarts => Before(clock[p], clock[p]')]_vars
  BY RegionsAssumption, StepMovesForward
<1> QED BY <1>1, ClocksAreTyped, PTL DEF Spec, ClocksMoveForward

------------------------------------------------------------------------------

Shown == Times \cup {0}

(* What makes NoInventedTime inductive: the events still to be replayed.    *)
ReplaysReal ==
    \A p \in Processes : \A i \in 1 .. Len(replay[p]) : replay[p][i].stamp.physical \in Times

TimeInv == TypeOK /\ NoInventedTime /\ ReplaysReal

\* now() takes its physical part from the clock or the wall clock.
LEMMA NowIsReal ==
    ASSUME RegionsAssumption, NEW c \in Stamps, c.physical \in Shown, NEW time \in Times
    PROVE  Now(c, time).physical \in Times
<1>1. time \in Nat /\ c.physical \in Nat
  BY DEF RegionsAssumption, Stamps
<1>2. CASE time > c.physical
  BY <1>2 DEF Now, Stamp
<1>3. CASE ~(time > c.physical)
  <2>1. Now(c, time).physical = c.physical
    BY <1>3 DEF Now, Stamp
  <2>2. c.physical = 0 => time = 0
    BY <1>1, <1>3
  <2> QED BY <2>1, <2>2 DEF Shown
<1> QED BY <1>2, <1>3

\* update() takes it from the clock, the stamp or the wall clock.
LEMMA UpdateIsReal ==
    ASSUME NEW c, NEW s, NEW time \in Times, c.physical \in Shown, s.physical \in Times
    PROVE  Update(c, s, time).physical \in Shown
<1> DEFINE max == Max3(time, c.physical, s.physical)
<1>1. max \in Shown
  BY DEF Max3, Shown
<1>2. Update(c, s, time).physical = max
  BY DEF Update, Stamp
<1> QED BY <1>1, <1>2

(* Stamping keeps every time real.                                          *)
LEMMA StampingIsReal ==
    ASSUME TypeOK, NoInventedTime, RegionsAssumption,
           NEW p \in Processes, NEW a \in Aggregates, StampsEvent(p, a), log' = log
    PROVE  NoInventedTime'
<1>1. PICK time \in Times : Moves(p, Now(clock[p], time))
  BY DEF StampsEvent
<1> DEFINE c == Now(clock[p], time)
<1>2. c.physical \in Times
  BY NowIsReal DEF NoInventedTime, TypeOK, Shown
<1> HIDE DEF c
<1>3. clock' = [clock EXCEPT ![p] = c] /\ clock'[p] = c
  BY <1>1 DEF Moves, TypeOK, c
<1>4. \A q \in Processes : clock'[q].physical \in Times \cup {0}
  BY <1>2, <1>3 DEF NoInventedTime, TypeOK
<1> DEFINE new == [aggregate |-> a, region |-> RegionOf[p], stamp |-> c, after |-> known[p]]
<1>5. AllEvents' \subseteq AllEvents \cup {new}
  BY <1>3 DEF StampsEvent, AllEvents
<1>6. new.stamp.physical \in Times
  BY <1>2
<1> HIDE DEF new
<1> QED BY <1>4, <1>5, <1>6 DEF NoInventedTime

(* Taking a real stamp in keeps every clock real.                           *)
LEMMA TakingIsReal ==
    ASSUME TypeOK, NoInventedTime, NEW p \in Processes, NEW s, s.physical \in Times,
           Takes(p, s), log' = log, sent' = sent
    PROVE  NoInventedTime'
<1>1. PICK time \in Times : Moves(p, Update(clock[p], s, time))
  BY DEF Takes
<1>2. Update(clock[p], s, time).physical \in Shown
  BY UpdateIsReal DEF NoInventedTime, Shown
<1>3. \A q \in Processes : clock'[q].physical \in Times \cup {0}
  BY <1>1, <1>2 DEF Moves, TypeOK, NoInventedTime, Shown
<1>4. AllEvents' = AllEvents
  BY DEF AllEvents
<1> QED BY <1>3, <1>4 DEF NoInventedTime

\* Every step keeps clocks and stamps at times that were shown.
LEMMA TimeInvPreserved ==
    ASSUME TimeInv, RegionsAssumption, [Next]_vars
    PROVE  TimeInv'
<1> USE DEF TimeInv
<1>1. TypeOK'
  BY TypeOKPreserved
<1>2. NoInventedTime' /\ ReplaysReal'
  <2>1. ASSUME NEW p \in Processes, NEW a \in Aggregates, Create(p, a)
        PROVE  NoInventedTime' /\ ReplaysReal'
    BY <2>1, StampingIsReal DEF Create, ReplaysReal
  <2>2. ASSUME NEW p \in Processes, NEW a \in Aggregates, Load(p, a)
        PROVE  NoInventedTime' /\ ReplaysReal'
    <3>1. UNCHANGED <<log, sent, clock>>
      BY <2>2 DEF Load
    <3>2. NoInventedTime'
      BY <3>1 DEF NoInventedTime, AllEvents
    <3>3. PICK n \in 1 .. Len(log[a]) : replay' = [replay EXCEPT ![p] = SubSeq(log[a], 1, n)]
      BY <2>2 DEF Load
    <3>4. log[a] \in Seq(Events) /\ Len(log[a]) \in Nat
      BY LenProperties DEF TypeOK
    <3>5. /\ Len(SubSeq(log[a], 1, n)) = n
          /\ \A i \in 1 .. n : SubSeq(log[a], 1, n)[i] = log[a][i]
      BY <3>4, SubSeqProperties
    <3>6. \A i \in 1 .. n : log[a][i].stamp.physical \in Times
      <4> SUFFICES ASSUME NEW i \in 1 .. n
                   PROVE  log[a][i].stamp.physical \in Times
        OBVIOUS
      <4>1. i \in 1 .. Len(log[a])
        BY <3>4
      <4>2. log[a][i] \in AllEvents
        BY <4>1 DEF AllEvents
      <4> QED BY <4>2 DEF NoInventedTime
    <3>7. \A i \in 1 .. Len(replay'[p]) : replay'[p][i].stamp.physical \in Times
      BY <3>3, <3>5, <3>6 DEF TypeOK
    <3>8. \A q \in Processes \ {p} : replay'[q] = replay[q]
      BY <3>3 DEF TypeOK
    <3> QED BY <3>2, <3>7, <3>8 DEF ReplaysReal
  <2>3. ASSUME NEW p \in Processes, Replay(p)
        PROVE  NoInventedTime' /\ ReplaysReal'
    <3>1. replay[p] \in Seq(Events) /\ replay[p] # <<>>
      BY <2>3 DEF Replay, TypeOK
    <3>2. /\ Len(replay[p]) \in Nat /\ Len(replay[p]) >= 1
          /\ Head(replay[p]) = replay[p][1]
          /\ Len(Tail(replay[p])) = Len(replay[p]) - 1
          /\ \A i \in 1 .. Len(Tail(replay[p])) : Tail(replay[p])[i] = replay[p][i + 1]
      BY <3>1, HeadTailProperties, LenProperties, EmptySeq
    <3>3. Head(replay[p]).stamp.physical \in Times
      BY <3>2 DEF ReplaysReal
    <3>4. NoInventedTime'
      BY <2>3, <3>3, TakingIsReal DEF Replay
    <3>5. \A i \in 1 .. Len(Tail(replay[p])) : Tail(replay[p])[i].stamp.physical \in Times
      BY <3>2 DEF ReplaysReal
    <3>6. replay' = [replay EXCEPT ![p] = Tail(@)]
      BY <2>3 DEF Replay
    <3> QED BY <3>4, <3>5, <3>6 DEF ReplaysReal, TypeOK
  <2>4. ASSUME NEW p \in Processes, Decide(p)
        PROVE  NoInventedTime' /\ ReplaysReal'
    <3>1. target[p] \in Aggregates
      BY <2>4 DEF Decide, TypeOK
    <3> QED BY <2>4, <3>1, StampingIsReal DEF Decide, ReplaysReal
  <2>5. ASSUME NEW p \in Processes, Refuse(p)
        PROVE  NoInventedTime' /\ ReplaysReal'
    <3>1. UNCHANGED <<log, sent, clock, replay>>
      BY <2>5 DEF Refuse
    <3> QED BY <3>1 DEF NoInventedTime, AllEvents, ReplaysReal
  <2>6. ASSUME NEW p \in Processes, Restart(p)
        PROVE  NoInventedTime' /\ ReplaysReal'
    <3>1. UNCHANGED <<log, sent>>
      BY <2>6 DEF Restart
    <3>2. \A q \in Processes : clock'[q].physical \in Times \cup {0}
      BY <2>6 DEF Restart, Zero, NoInventedTime, TypeOK
    <3>3. ReplaysReal'
      BY <2>6, EmptySeq DEF Restart, ReplaysReal, TypeOK
    <3> QED BY <3>1, <3>2, <3>3 DEF NoInventedTime, AllEvents
  <2>7. ASSUME NEW e \in sent, AppendEvent(e)
        PROVE  NoInventedTime' /\ ReplaysReal'
    <3>1. UNCHANGED <<clock, replay>> /\ AllEvents' \subseteq AllEvents
      BY <2>7, AppendAddsNone DEF AppendEvent
    <3> QED BY <3>1 DEF NoInventedTime, ReplaysReal
  <2>8. ASSUME NEW e \in sent, AppendFails(e)
        PROVE  NoInventedTime' /\ ReplaysReal'
    <3>1. UNCHANGED <<log, clock, replay>> /\ sent' \subseteq sent
      BY <2>8 DEF AppendFails
    <3> QED BY <3>1 DEF NoInventedTime, AllEvents, ReplaysReal
  <2>9. ASSUME NEW p \in Processes, NEW a \in Aggregates, NEW i \in 1 .. Len(log[a]),
               Replicate(p, a, i)
        PROVE  NoInventedTime' /\ ReplaysReal'
    <3>1. log[a][i] \in AllEvents
      BY DEF AllEvents
    <3>2. log[a][i].stamp.physical \in Times
      BY <3>1 DEF NoInventedTime
    <3> QED BY <2>9, <3>2, TakingIsReal DEF Replicate, ReplaysReal
  <2>10. CASE UNCHANGED vars
    <3>1. UNCHANGED <<log, sent, clock, replay>>
      BY <2>10 DEF vars
    <3> QED BY <3>1 DEF NoInventedTime, AllEvents, ReplaysReal
  <2> QED BY <2>1, <2>2, <2>3, <2>4, <2>5, <2>6, <2>7, <2>8, <2>9, <2>10 DEF Next
<1> QED BY <1>1, <1>2

(* HLC: "HLC stays within a bound of physical clock": no clock or stamp is  *)
(* ahead of every time some process read.                                   *)
THEOREM TimesAreReal == Spec => []NoInventedTime
<1>1. Init => TimeInv
  <2> SUFFICES ASSUME Init PROVE TimeInv
    OBVIOUS
  <2>1. TypeOK
    BY RegionsAssumption, IInvInitially DEF IInv
  <2>2. AllEvents = {}
    BY DEF Init, AllEvents
  <2>3. NoInventedTime
    BY <2>2 DEF Init, NoInventedTime, Zero
  <2>4. ReplaysReal
    BY EmptySeq DEF Init, ReplaysReal
  <2> QED BY <2>1, <2>3, <2>4 DEF TimeInv
<1>2. TimeInv /\ [Next]_vars => TimeInv'
  BY RegionsAssumption, TimeInvPreserved
<1>3. TimeInv => NoInventedTime
  BY DEF TimeInv
<1> QED BY <1>1, <1>2, <1>3, PTL DEF Spec

==============================================================================
