------------------------- MODULE LoginPolicyProofs -------------------------
(***************************************************************************)
(* What LoginPolicy guarantees for any set of identifiers, any limits and  *)
(* any delay between the reading of the clock and the mutex.               *)
(***************************************************************************)
EXTENDS LoginPolicy, FiniteSetTheorems, TLAPS

-----------------------------------------------------------------------------
(***************************************************************************)
(* What a call does to the entries of the map.                             *)
(***************************************************************************)

Maps == [Keys -> Entry \cup {NoEntry}]

LEMMA ConstantTypes ==
  /\ FailureLimit \in Nat /\ FailureLimit >= 1
  /\ FailureWindow \in Nat /\ FailureWindow >= 1
  /\ Lockout \in Nat /\ Lockout >= 1
  /\ TrackedLimit \in Nat /\ TrackedLimit >= 1
  /\ MaxTime \in Nat
BY LoginAssumption

\* The numbers in an entry, and when it may be dropped.
LEMMA EntryParts ==
  ASSUME NEW e \in Entry
  PROVE  /\ e # NoEntry
         /\ e.failures \in Nat /\ e.pending \in Nat
         /\ e.windowStarted \in Times /\ e.windowStarted \in Nat
         /\ e.lockedUntil \in Deadlines /\ e.lockedUntil \in Nat
         /\ Expiry(e) \in Nat
         /\ Expiry(e) >= e.windowStarted + FailureWindow
         /\ Expiry(e) >= e.lockedUntil
         /\ \A t \in Nat : t >= Expiry(e) <=>
              t >= e.windowStarted + FailureWindow /\ t >= e.lockedUntil
<1>1. /\ e.failures \in Nat /\ e.pending \in Nat
      /\ e.windowStarted \in Times /\ e.lockedUntil \in Deadlines
  BY DEF Entry
<1>2. e.windowStarted \in Nat /\ e.lockedUntil \in Nat
  BY <1>1, ConstantTypes DEF Times, Deadlines
<1>3. e # NoEntry
  BY LoginAssumption
<1>4. QED
  BY <1>1, <1>2, <1>3, ConstantTypes DEF Expiry

\* A reading of the clock never lies before time 1 or ahead of the clock, and
\* what the policy derives from it is a time it can store.
LEMMA Reading ==
  ASSUME TypeOK, NEW t \in ClockReadings
  PROVE  /\ t \in Nat /\ now \in Nat /\ 1 <= t /\ t <= now
         /\ t \in Times
         /\ 0 \in Deadlines /\ t + Lockout \in Deadlines /\ t + FailureWindow \in Deadlines
BY ConstantTypes DEF TypeOK, ClockReadings, Times, Deadlines

\* Dropping entries and making room leave a map in which every entry is as it
\* was or gone, and gone only when it was the one dropped or was over.
LEMMA RoomMade ==
  ASSUME NEW map \in Maps, NEW j \in Keys, NEW t
  PROVE  LET room == MakeRoom(Without(map, j), t) IN
         /\ Without(map, j) \in Maps
         /\ Without(map, j)[j] = NoEntry
         /\ \A k \in Keys \ {j} : Without(map, j)[k] = map[k]
         /\ room \in Maps
         /\ room[j] = NoEntry
         /\ \A k \in Keys \ {j} :
              room[k] = map[k] \/ (room[k] = NoEntry /\ t >= Expiry(map[k]))
<1> DEFINE less == Without(map, j)
<1>1. /\ less \in Maps
      /\ less[j] = NoEntry
      /\ \A k \in Keys \ {j} : less[k] = map[k]
  BY DEF Without, Maps
<1> HIDE DEF less
<1>2. /\ PruneExpired(less, t) \in Maps
      /\ \A k \in Keys : \/ PruneExpired(less, t)[k] = less[k]
                         \/ PruneExpired(less, t)[k] = NoEntry /\ t >= Expiry(less[k])
  BY <1>1 DEF PruneExpired, Maps
<1>3. \/ MakeRoom(less, t) = less
      \/ MakeRoom(less, t) = PruneExpired(less, t)
  BY DEF MakeRoom
<1>4. \A k \in Keys : \/ MakeRoom(less, t)[k] = less[k]
                      \/ MakeRoom(less, t)[k] = NoEntry /\ t >= Expiry(less[k])
  BY <1>2, <1>3
<1>5. QED
  BY <1>1, <1>2, <1>3, <1>4 DEF less

\* A call for identifier j at time t leaves the others' entries as they are, or
\* drops those that are over.
Spares(j, t) ==
  \A k \in Keys \ {j} :
    /\ inFlight'[k] = inFlight[k]
    /\ attempts'[k] = attempts[k] \/ (attempts'[k] = NoEntry /\ t >= Expiry(attempts[k]))

\* What becomes of the entry of the identifier the call is for.
Becomes(j, e) == attempts' \in Maps /\ attempts'[j] = e

LEMMA AdmitTrackedEffect ==
  ASSUME TypeOK, NEW j \in Keys, NEW t \in ClockReadings, AdmitTracked(j, t)
  PROVE  /\ Spares(j, t) /\ Becomes(j, [attempts[j] EXCEPT !.pending = @ + 1])
         /\ attempts[j] \in Entry
         /\ attempts[j].failures + attempts[j].pending < FailureLimit
         /\ inFlight' \in [Keys -> Nat] /\ inFlight'[j] = inFlight[j] + 1
<1>1. attempts[j] \in Entry
  BY DEF TypeOK, AdmitTracked, Current
<1>2. [attempts[j] EXCEPT !.pending = @ + 1] \in Entry
  BY <1>1 DEF Entry
<1>3. QED
  BY <1>1, <1>2 DEF TypeOK, AdmitTracked, Admit, Spares, Becomes, Maps

LEMMA LockBurstEffect ==
  ASSUME TypeOK, NEW j \in Keys, NEW t \in ClockReadings, LockBurst(j, t)
  PROVE  /\ Spares(j, t) /\ Becomes(j, [attempts[j] EXCEPT !.lockedUntil = t + Lockout])
         /\ attempts[j] \in Entry /\ t >= attempts[j].lockedUntil
         /\ inFlight' = inFlight
<1>1. attempts[j] \in Entry
  BY DEF TypeOK, LockBurst, Current
<1>2. [attempts[j] EXCEPT !.lockedUntil = t + Lockout] \in Entry
  BY <1>1, Reading DEF Entry
<1>3. QED
  BY <1>1, <1>2 DEF TypeOK, LockBurst, Spares, Becomes, Maps

Opened(t) == [failures |-> 0, pending |-> 1, windowStarted |-> t, lockedUntil |-> 0]

LEMMA AdmitUntrackedEffect ==
  ASSUME TypeOK, NEW j \in Keys, NEW t \in ClockReadings, AdmitUntracked(j, t)
  PROVE  /\ Spares(j, t) /\ Becomes(j, Opened(t)) /\ Opened(t) \in Entry
         /\ inFlight' \in [Keys -> Nat] /\ inFlight'[j] = inFlight[j] + 1
<1> DEFINE room == MakeRoom(Without(attempts, j), t)
<1>1. Opened(t) \in Entry
  BY Reading DEF Opened, Entry
<1>2. attempts' = [room EXCEPT ![j] = Opened(t)]
  BY DEF AdmitUntracked, Opened
<1>3. /\ room \in Maps
      /\ \A k \in Keys \ {j} :
           room[k] = attempts[k] \/ (room[k] = NoEntry /\ t >= Expiry(attempts[k]))
  BY RoomMade DEF TypeOK, Maps
<1>4. inFlight' = [inFlight EXCEPT ![j] = @ + 1] /\ inFlight \in [Keys -> Nat]
  BY DEF TypeOK, AdmitUntracked, Admit
<1> HIDE DEF room
<1>5. QED
  BY <1>1, <1>2, <1>3, <1>4 DEF Spares, Becomes, Maps

LEMMA RefuseUntrackedEffect ==
  ASSUME TypeOK, NEW j \in Keys, NEW t \in ClockReadings, RefuseUntracked(j, t)
  PROVE  /\ Spares(j, t) /\ Becomes(j, NoEntry)
         /\ attempts[j] # NoEntry => t >= Expiry(attempts[j])
         /\ inFlight' = inFlight
<1>1. attempts' = Without(attempts, j) \/ attempts' = MakeRoom(Without(attempts, j), t)
  BY DEF RefuseUntracked
<1>2. attempts \in Maps /\ inFlight' = inFlight
  BY DEF RefuseUntracked, TypeOK, Maps
<1>3. attempts[j] # NoEntry => t >= Expiry(attempts[j])
  <2>1. attempts[j] # NoEntry => attempts[j] \in Entry
    BY <1>2 DEF Maps
  <2>2. QED
    BY <2>1, EntryParts, Reading DEF RefuseUntracked, Untracked, WindowOver
<1>4. QED
  BY <1>1, <1>2, <1>3, RoomMade DEF Spares, Becomes

LEMMA RecordFailureEffect ==
  ASSUME TypeOK, NEW j \in Keys, NEW t \in ClockReadings, RecordFailure(j, t)
  PROVE  /\ Spares(j, t)
         /\ inFlight' \in [Keys -> Nat] /\ inFlight[j] >= 1 /\ inFlight'[j] = inFlight[j] - 1
         /\ \/ /\ Countable(j, t) /\ attempts[j] \in Entry
               /\ Becomes(j, AfterFailure(attempts[j].failures + 1, Release(attempts[j].pending),
                       attempts[j].windowStarted, attempts[j].lockedUntil, t))
            \/ /\ ~Countable(j, t)
               /\ Becomes(j, AfterFailure(1, 0, t, 0, t)) \/ Becomes(j, NoEntry)
<1> DEFINE room == MakeRoom(Without(attempts, j), t)
           e == attempts[j]
           more == AfterFailure(e.failures + 1, Release(e.pending), e.windowStarted,
                                e.lockedUntil, t)
           first == AfterFailure(1, 0, t, 0, t)
<1>1. attempts \in Maps
  BY DEF TypeOK, Maps
<1>2. /\ inFlight' = [inFlight EXCEPT ![j] = @ - 1] /\ inFlight \in [Keys -> Nat]
      /\ inFlight[j] > 0
  BY DEF TypeOK, RecordFailure, Report
<1>3. inFlight' \in [Keys -> Nat] /\ inFlight[j] >= 1 /\ inFlight'[j] = inFlight[j] - 1
  BY <1>2
<1>4. CASE Countable(j, t)
  <2>1. e \in Entry
    BY <1>1, <1>4 DEF Countable, Maps
  <2>2. more \in Entry
    BY <2>1, EntryParts, Reading DEF AfterFailure, Release, Entry
  <2>3. attempts' = [attempts EXCEPT ![j] = more]
    BY <1>4 DEF RecordFailure
  <2> HIDE DEF more
  <2>4. Spares(j, t) /\ Becomes(j, more)
    BY <1>1, <1>2, <2>2, <2>3 DEF Spares, Becomes, Maps
  <2>5. QED
    BY <1>3, <1>4, <2>1, <2>4 DEF more
<1>5. CASE ~Countable(j, t)
  <2>1. attempts' = [room EXCEPT ![j] = first] \/ attempts' = room
    BY <1>5 DEF RecordFailure
  <2>2. first \in Entry
    BY Reading, ConstantTypes DEF AfterFailure, Entry
  <2>3. /\ room \in Maps /\ room[j] = NoEntry
        /\ \A k \in Keys \ {j} :
             room[k] = attempts[k] \/ (room[k] = NoEntry /\ t >= Expiry(attempts[k]))
    BY <1>1, RoomMade
  <2> HIDE DEF room, first
  <2>4. Spares(j, t) /\ (Becomes(j, first) \/ Becomes(j, NoEntry))
    BY <1>2, <2>1, <2>2, <2>3 DEF Spares, Becomes, Maps
  <2>5. QED
    BY <1>3, <1>5, <2>4 DEF first
<1>6. QED
  BY <1>4, <1>5

LEMMA RecordSuccessEffect ==
  ASSUME TypeOK, NEW j \in Keys, RecordSuccess(j)
  PROVE  /\ Spares(j, now)
         /\ inFlight' \in [Keys -> Nat] /\ inFlight[j] >= 1 /\ inFlight'[j] = inFlight[j] - 1
         /\ \/ /\ attempts[j] = NoEntry \/ attempts[j].pending <= 1
               /\ Becomes(j, NoEntry)
            \/ /\ attempts[j] \in Entry /\ attempts[j].pending > 1
               /\ Becomes(j, [attempts[j] EXCEPT !.failures = 0,
                                !.pending = attempts[j].pending - 1, !.lockedUntil = 0])
<1> DEFINE e == attempts[j]
           freed == [e EXCEPT !.failures = 0, !.pending = Release(@), !.lockedUntil = 0]
<1>1. attempts \in Maps /\ (e # NoEntry => e \in Entry)
  BY DEF TypeOK, Maps
<1>2. /\ inFlight' = [inFlight EXCEPT ![j] = @ - 1] /\ inFlight \in [Keys -> Nat]
      /\ inFlight[j] > 0
  BY DEF TypeOK, RecordSuccess, Report
<1>3. inFlight' \in [Keys -> Nat] /\ inFlight[j] >= 1 /\ inFlight'[j] = inFlight[j] - 1
  BY <1>2
<1>4. CASE e = NoEntry \/ Release(e.pending) = 0
  <2>1. attempts' = Without(attempts, j)
    BY <1>4 DEF RecordSuccess
  <2>2. e = NoEntry \/ e.pending <= 1
    BY <1>1, <1>4, EntryParts DEF Release
  <2>3. Spares(j, now) /\ Becomes(j, NoEntry)
    BY <1>1, <1>2, <2>1, RoomMade DEF Spares, Becomes
  <2>4. QED
    BY <1>3, <2>2, <2>3
<1>5. CASE ~(e = NoEntry \/ Release(e.pending) = 0)
  <2>1. attempts' = [attempts EXCEPT ![j] = freed]
    BY <1>5 DEF RecordSuccess
  <2>2. e \in Entry /\ e.pending > 1 /\ Release(e.pending) = e.pending - 1
    BY <1>1, <1>5, EntryParts DEF Release
  <2>3. freed = [e EXCEPT !.failures = 0, !.pending = e.pending - 1, !.lockedUntil = 0]
    BY <2>2 DEF Entry
  <2>4. freed \in Entry
    <3>1. e.pending - 1 \in Nat /\ 0 \in Nat /\ 0 \in Deadlines
      BY <2>2, EntryParts, ConstantTypes DEF Deadlines
    <3>2. QED
      BY <2>2, <2>3, <3>1 DEF Entry
  <2> HIDE DEF freed
  <2>5. Spares(j, now) /\ Becomes(j, freed)
    BY <1>1, <1>2, <2>1, <2>4 DEF Spares, Becomes, Maps
  <2>6. QED
    BY <1>3, <2>2, <2>3, <2>5
<1>6. QED
  BY <1>4, <1>5

-----------------------------------------------------------------------------
(***************************************************************************)
(* Type correctness.                                                       *)
(***************************************************************************)

LEMMA InitType ==
  Init => TypeOK
BY ConstantTypes, LoginAssumption DEF Init, TypeOK, Times, Deadlines

LEMMA NextType ==
  TypeOK /\ [Next]_vars => TypeOK'
<1>1. SUFFICES ASSUME TypeOK, [Next]_vars
               PROVE  TypeOK'
  OBVIOUS
<1>2. ASSUME NEW k \in Keys, NEW t \in ClockReadings, AllowLogin(k, t) \/ RecordFailure(k, t)
      PROVE  TypeOK'
  <2>1. attempts' \in Maps /\ inFlight' \in [Keys -> Nat]
    BY <1>1, <1>2, AdmitTrackedEffect, LockBurstEffect, AdmitUntrackedEffect,
       RefuseUntrackedEffect, RecordFailureEffect DEF AllowLogin, Becomes, TypeOK
  <2>2. saturatedUntil' \in {saturatedUntil, t + FailureWindow} /\ now' = now
    BY <1>2 DEF AllowLogin, AdmitTracked, LockBurst, AdmitUntracked, RefuseUntracked,
                RecordFailure
  <2>3. QED
    BY <1>1, <2>1, <2>2, Reading DEF TypeOK, Maps
<1>3. ASSUME NEW k \in Keys, RecordSuccess(k)
      PROVE  TypeOK'
  <2>1. attempts' \in Maps /\ inFlight' \in [Keys -> Nat]
    BY <1>1, <1>3, RecordSuccessEffect DEF Becomes
  <2>2. saturatedUntil' \in {saturatedUntil, 0} /\ now' = now
    BY <1>3 DEF RecordSuccess
  <2>3. QED
    BY <1>1, <2>1, <2>2, ConstantTypes DEF TypeOK, Maps, Deadlines
<1>4. CASE Tick
  BY <1>1, <1>4, ConstantTypes DEF Tick, TypeOK, Times
<1>5. CASE UNCHANGED vars
  BY <1>1, <1>5 DEF vars, TypeOK
<1>6. QED
  BY <1>1, <1>2, <1>3, <1>4, <1>5 DEF Next

\* Entries, deadlines and counters keep their shapes; in particular neither a
\* failure count nor a reservation count ever goes below zero, although reports
\* come for entries that were dropped and opened again meanwhile.
THEOREM TypeCorrect ==
  Spec => []TypeOK
BY InitType, NextType, PTL DEF Spec

-----------------------------------------------------------------------------
(***************************************************************************)
(* The map's bound.                                                        *)
(***************************************************************************)

LEMMA TrackedFinite ==
  ASSUME NEW map
  PROVE  IsFiniteSet(Tracked(map)) /\ Cardinality(Tracked(map)) \in Nat
BY LoginAssumption, FS_Subset, FS_CardinalityType DEF Tracked

LEMMA InitCapacity ==
  Init => CapacityBounded
<1>1. Init => Tracked(attempts) = {}
  BY DEF Init, Tracked
<1>2. QED
  BY <1>1, FS_EmptySet, ConstantTypes DEF CapacityBounded

\* A map that tracks no more than it did is no bigger.
LEMMA FewerTracked ==
  ASSUME CapacityBounded, Tracked(attempts') \subseteq Tracked(attempts)
  PROVE  CapacityBounded'
<1>1. Cardinality(Tracked(attempts')) <= Cardinality(Tracked(attempts))
  BY TrackedFinite, FS_Subset
<1>2. QED
  BY <1>1, TrackedFinite, ConstantTypes DEF CapacityBounded, Tracked

\* A new entry in a map that is not full fits.
LEMMA RoomForOne ==
  ASSUME NEW map, ~Full(map), NEW j, Tracked(attempts') \subseteq Tracked(map) \cup {j}
  PROVE  CapacityBounded'
<1>1. /\ IsFiniteSet(Tracked(map) \cup {j})
      /\ Cardinality(Tracked(map) \cup {j}) <= Cardinality(Tracked(map)) + 1
  BY TrackedFinite, FS_AddElement
<1>2. Cardinality(Tracked(attempts')) <= Cardinality(Tracked(map) \cup {j})
  BY <1>1, FS_Subset
<1>3. Cardinality(Tracked(map)) < TrackedLimit
  BY TrackedFinite, ConstantTypes DEF Full
<1>4. Cardinality(Tracked(attempts')) <= TrackedLimit
  BY <1>1, <1>2, <1>3, TrackedFinite, FS_CardinalityType, ConstantTypes
<1>5. QED
  BY <1>4 DEF CapacityBounded, Tracked

\* A call tracks at most its own identifier on top of what was tracked.
LEMMA SparesTracks ==
  ASSUME NEW j \in Keys, NEW t, Spares(j, t)
  PROVE  /\ attempts[j] # NoEntry \/ attempts'[j] = NoEntry =>
              Tracked(attempts') \subseteq Tracked(attempts)
BY DEF Spares, Tracked

LEMMA NextCapacity ==
  TypeOK /\ CapacityBounded /\ [Next]_vars => CapacityBounded'
<1>1. SUFFICES ASSUME TypeOK, CapacityBounded, [Next]_vars
               PROVE  CapacityBounded'
  OBVIOUS
<1>2. attempts \in Maps
  BY <1>1 DEF TypeOK, Maps
<1>3. ASSUME NEW k \in Keys, NEW t \in ClockReadings, AdmitTracked(k, t) \/ LockBurst(k, t)
      PROVE  CapacityBounded'
  <2>1. attempts[k] # NoEntry
    BY <1>3 DEF AdmitTracked, LockBurst, Current
  <2>2. QED
    BY <1>1, <1>3, <2>1, AdmitTrackedEffect, LockBurstEffect, SparesTracks, FewerTracked
<1>4. ASSUME NEW k \in Keys, NEW t \in ClockReadings, RefuseUntracked(k, t)
      PROVE  CapacityBounded'
  BY <1>1, <1>4, RefuseUntrackedEffect, SparesTracks, FewerTracked DEF Becomes
<1>5. ASSUME NEW k \in Keys, NEW t \in ClockReadings,
             AdmitUntracked(k, t) \/ RecordFailure(k, t)
      PROVE  CapacityBounded'
  <2> DEFINE room == MakeRoom(Without(attempts, k), t)
  <2>1. room \in Maps
    BY <1>2, RoomMade
  <2>2. CASE ~Full(room) /\ \E e : attempts' = [room EXCEPT ![k] = e]
    <3>1. Tracked(attempts') \subseteq Tracked(room) \cup {k}
      BY <2>1, <2>2 DEF Tracked, Maps
    <3>2. QED
      BY <2>2, <3>1, RoomForOne
  <2>3. CASE \/ attempts' = room
             \/ attempts[k] # NoEntry /\ \E e : attempts' = [attempts EXCEPT ![k] = e]
    <3>1. Tracked(attempts') \subseteq Tracked(attempts)
      BY <1>2, <2>3, RoomMade DEF Tracked, Maps
    <3>2. QED
      BY <1>1, <3>1, FewerTracked
  <2>4. QED
    BY <1>5, <2>2, <2>3 DEF AdmitUntracked, RecordFailure, Countable
<1>6. ASSUME NEW k \in Keys, RecordSuccess(k)
      PROVE  CapacityBounded'
  <2>1. attempts[k] # NoEntry \/ attempts'[k] = NoEntry
    BY <1>1, <1>6, RecordSuccessEffect, EntryParts DEF Becomes
  <2>2. Spares(k, now)
    BY <1>1, <1>6, RecordSuccessEffect
  <2>3. QED
    BY <1>1, <2>1, <2>2, SparesTracks, FewerTracked
<1>7. CASE Tick \/ UNCHANGED vars
  BY <1>1, <1>7 DEF Tick, vars, CapacityBounded, Tracked
<1>8. QED
  BY <1>1, <1>3, <1>4, <1>5, <1>6, <1>7 DEF Next, AllowLogin

\* The map never outgrows its bound: what a late report or a new identifier
\* adds always finds the room it checked for.
THEOREM MapBounded ==
  Spec => []CapacityBounded
BY InitCapacity, NextCapacity, TypeCorrect, PTL DEF Spec

-----------------------------------------------------------------------------
(***************************************************************************)
(* Reservations, and entries under pressure.                               *)
(***************************************************************************)

LEMMA NextPending ==
  TypeOK /\ PendingIsInFlight /\ [Next]_vars => PendingIsInFlight'
<1>1. SUFFICES ASSUME TypeOK, PendingIsInFlight, [Next]_vars
               PROVE  PendingIsInFlight'
  OBVIOUS
<1>2. inFlight \in [Keys -> Nat] /\ \A k \in Keys : attempts[k] # NoEntry => attempts[k] \in Entry
  BY <1>1 DEF TypeOK
\* The others keep their reservations or lose the entry.
<1>3. ASSUME NEW j \in Keys, NEW t, Spares(j, t),
             attempts'[j] # NoEntry => attempts'[j].pending <= inFlight'[j]
      PROVE  PendingIsInFlight'
  BY <1>1, <1>3 DEF Spares, PendingIsInFlight
<1>4. ASSUME NEW j \in Keys, NEW t \in ClockReadings, AllowLogin(j, t)
      PROVE  PendingIsInFlight'
  <2>1. CASE AdmitTracked(j, t)
    <3>1. attempts'[j].pending = attempts[j].pending + 1
      BY <1>1, <2>1, AdmitTrackedEffect DEF Becomes, Entry
    <3>2. attempts[j].pending <= inFlight[j] /\ attempts[j].pending \in Nat
      BY <1>1, <2>1, AdmitTrackedEffect, EntryParts DEF PendingIsInFlight
    <3>3. inFlight'[j] = inFlight[j] + 1 /\ inFlight[j] \in Nat /\ Spares(j, t)
      BY <1>1, <1>2, <2>1, AdmitTrackedEffect
    <3>4. attempts'[j].pending <= inFlight'[j]
      BY <3>1, <3>2, <3>3
    <3>5. QED
      BY <1>3, <3>3, <3>4
  <2>2. CASE LockBurst(j, t)
    <3>1. attempts'[j].pending = attempts[j].pending /\ attempts[j] # NoEntry
      BY <1>1, <2>2, LockBurstEffect, EntryParts DEF Becomes, Entry
    <3>2. attempts'[j].pending <= inFlight'[j]
      BY <1>1, <2>2, <3>1, LockBurstEffect DEF PendingIsInFlight
    <3>3. QED
      BY <1>1, <1>3, <2>2, <3>2, LockBurstEffect
  <2>3. CASE AdmitUntracked(j, t)
    <3>1. /\ Becomes(j, Opened(t)) /\ Spares(j, t)
          /\ inFlight'[j] = inFlight[j] + 1 /\ inFlight[j] \in Nat
      BY <1>1, <1>2, <2>3, AdmitUntrackedEffect
    <3>2. attempts'[j].pending = 1
      BY <3>1 DEF Becomes, Opened
    <3>3. attempts'[j].pending <= inFlight'[j]
      BY <3>1, <3>2
    <3>4. QED
      BY <1>3, <3>1, <3>3
  <2>4. CASE RefuseUntracked(j, t)
    BY <1>1, <1>3, <2>4, RefuseUntrackedEffect DEF Becomes
  <2>5. QED
    BY <1>4, <2>1, <2>2, <2>3, <2>4 DEF AllowLogin
<1>5. ASSUME NEW j \in Keys, NEW t \in ClockReadings, RecordFailure(j, t)
      PROVE  PendingIsInFlight'
  <2>1. /\ inFlight[j] \in Nat /\ inFlight'[j] \in Nat /\ inFlight'[j] = inFlight[j] - 1
        /\ Spares(j, t)
    BY <1>1, <1>2, <1>5, RecordFailureEffect
  <2>2. CASE Countable(j, t)
    <3>1. attempts'[j].pending = Release(attempts[j].pending)
      <4>1. Becomes(j, AfterFailure(attempts[j].failures + 1, Release(attempts[j].pending),
                         attempts[j].windowStarted, attempts[j].lockedUntil, t))
        BY <1>1, <1>5, <2>2, RecordFailureEffect
      <4>2. QED
        BY <4>1 DEF Becomes, AfterFailure
    <3>2. attempts[j].pending <= inFlight[j] /\ attempts[j].pending \in Nat
      BY <1>1, <1>2, <2>2, EntryParts DEF PendingIsInFlight, Countable
    <3>3. attempts'[j].pending <= inFlight'[j]
      BY <2>1, <3>1, <3>2 DEF Release
    <3>4. QED
      BY <1>3, <2>1, <3>3
  <2>3. CASE ~Countable(j, t)
    <3>1. attempts'[j] # NoEntry => attempts'[j].pending = 0
      <4>1. Becomes(j, AfterFailure(1, 0, t, 0, t)) \/ Becomes(j, NoEntry)
        BY <1>1, <1>5, <2>3, RecordFailureEffect
      <4>2. QED
        BY <4>1 DEF Becomes, AfterFailure
    <3>2. QED
      BY <1>3, <2>1, <3>1
  <2>4. QED
    BY <2>2, <2>3
<1>6. ASSUME NEW j \in Keys, RecordSuccess(j)
      PROVE  PendingIsInFlight'
  <2>1. /\ inFlight[j] \in Nat /\ inFlight'[j] = inFlight[j] - 1 /\ Spares(j, now)
    BY <1>1, <1>2, <1>6, RecordSuccessEffect
  <2>2. attempts'[j] # NoEntry =>
          attempts[j] \in Entry /\ attempts'[j].pending = attempts[j].pending - 1
    BY <1>1, <1>6, RecordSuccessEffect DEF Becomes, Entry
  <2>3. attempts'[j] # NoEntry => attempts'[j].pending <= inFlight'[j]
    BY <1>1, <2>1, <2>2, EntryParts DEF PendingIsInFlight
  <2>4. QED
    BY <1>3, <2>1, <2>3
<1>7. CASE Tick \/ UNCHANGED vars
  BY <1>1, <1>7 DEF Tick, vars, PendingIsInFlight
<1>8. QED
  BY <1>1, <1>4, <1>5, <1>6, <1>7 DEF Next

\* Every reservation in the map belongs to an attempt that will still report:
\* none is left behind to count against its identifier for ever.
THEOREM ReservationsHeld ==
  Spec => []PendingIsInFlight
<1>1. Init => PendingIsInFlight
  BY DEF Init, PendingIsInFlight
<1>2. QED
  BY <1>1, NextPending, TypeCorrect, PTL DEF Spec

\* One step of the policy spares every entry whose window or lock still runs.
LEMMA NextSparesLive ==
  ASSUME TypeOK, [Next]_vars, NEW k \in Keys,
         attempts[k] # NoEntry, now < Expiry(attempts[k]), inFlight'[k] = inFlight[k]
  PROVE  \/ attempts'[k] = attempts[k]
         \/ attempts'[k] # NoEntry /\ attempts'[k].lockedUntil > attempts[k].lockedUntil
<1>1. attempts[k] \in Entry /\ inFlight[k] \in Nat
  BY DEF TypeOK
<1>2. Expiry(attempts[k]) \in Nat /\ now \in Nat
  BY <1>1, EntryParts, ConstantTypes DEF TypeOK, Times
<1>3. \A t \in ClockReadings : ~(t >= Expiry(attempts[k]))
  BY <1>2, Reading
\* Not k's own call: k's entry is spared.
<1>4. ASSUME NEW j \in Keys \ {k}, NEW t \in ClockReadings, Spares(j, t)
      PROVE  attempts'[k] = attempts[k]
  BY <1>3, <1>4 DEF Spares
<1>5. CASE \E j \in Keys \ {k} : \E t \in ClockReadings : AllowLogin(j, t) \/ RecordFailure(j, t)
  BY <1>4, <1>5, AdmitTrackedEffect, LockBurstEffect, AdmitUntrackedEffect,
     RefuseUntrackedEffect, RecordFailureEffect DEF AllowLogin
<1>6. CASE \E j \in Keys \ {k} : RecordSuccess(j)
  <2>1. now \in ClockReadings
    BY LoginAssumption DEF TypeOK, Times, ClockReadings
  <2>2. \E j \in Keys \ {k} : Spares(j, now)
    BY <1>6, RecordSuccessEffect
  <2>3. QED
    BY <1>4, <2>1, <2>2
\* k's own call: only the one that locks k leaves its attempts in flight alone.
<1>7. ASSUME NEW t \in ClockReadings, AllowLogin(k, t) \/ RecordFailure(k, t)
      PROVE  attempts'[k] # NoEntry /\ attempts'[k].lockedUntil > attempts[k].lockedUntil
  <2>1. ~AdmitTracked(k, t) /\ ~AdmitUntracked(k, t) /\ ~RecordFailure(k, t)
    <3>1. inFlight'[k] # inFlight[k] + 1 /\ inFlight'[k] # inFlight[k] - 1
      BY <1>1
    <3>2. QED
      BY <3>1, AdmitTrackedEffect, AdmitUntrackedEffect, RecordFailureEffect
  <2>2. ~RefuseUntracked(k, t)
    BY <1>3, RefuseUntrackedEffect
  <2>3. LockBurst(k, t)
    BY <1>7, <2>1, <2>2 DEF AllowLogin
  <2>4. attempts'[k].lockedUntil = t + Lockout /\ t >= attempts[k].lockedUntil
    BY <2>3, LockBurstEffect DEF Becomes, Entry
  <2>5. attempts'[k] \in Entry
    <3>1. [attempts[k] EXCEPT !.lockedUntil = t + Lockout] \in Entry
      BY <1>1, Reading DEF Entry
    <3>2. QED
      BY <2>3, <3>1, LockBurstEffect DEF Becomes
  <2>6. QED
    BY <1>1, <2>4, <2>5, EntryParts, Reading, ConstantTypes
<1>8. ~RecordSuccess(k)
  <2>1. inFlight'[k] # inFlight[k] - 1
    BY <1>1
  <2>2. QED
    BY <2>1, RecordSuccessEffect
<1>9. CASE Tick \/ UNCHANGED vars
  BY <1>9 DEF Tick, vars
<1>10. QED
  BY <1>5, <1>6, <1>7, <1>8, <1>9 DEF Next

\* Nothing another identifier does, at any reading of the clock, touches an
\* entry whose window or lock still runs.
THEOREM LiveEntriesSpared ==
  Spec => PressureSparesLiveEntries
<1>1. TypeOK /\ [Next]_vars =>
        [\A k \in Keys :
           attempts[k] # NoEntry /\ now < Expiry(attempts[k]) /\ inFlight'[k] = inFlight[k] =>
             \/ attempts'[k] = attempts[k]
             \/ attempts'[k] # NoEntry /\ attempts'[k].lockedUntil > attempts[k].lockedUntil]_vars
  BY NextSparesLive
<1>2. QED
  BY <1>1, TypeCorrect, PTL DEF Spec, PressureSparesLiveEntries

-----------------------------------------------------------------------------
(***************************************************************************)
(* The budget.                                                             *)
(***************************************************************************)

Account(entry, reserved) ==
  /\ entry = NoEntry => reserved = 0
  /\ entry # NoEntry =>
       /\ entry.pending = reserved
       /\ entry.failures + entry.pending <= FailureLimit
       /\ entry.windowStarted >= 1
       /\ entry.lockedUntil = 0 \/ entry.lockedUntil > Lockout

\* While no window can have run out, the map knows exactly which attempts are in
\* flight, and no lock it holds is over.
Accounted == now <= FailureWindow => \A k \in Keys : Account(attempts[k], inFlight[k])

\* A reading of the clock that falls before the end of every window and lock.
LEMMA NothingOver ==
  ASSUME TypeOK, now <= FailureWindow, NEW t \in ClockReadings, NEW k \in Keys,
         attempts[k] # NoEntry, Account(attempts[k], inFlight[k])
  PROVE  /\ attempts[k] \in Entry
         /\ ~(t >= Expiry(attempts[k]))
         /\ ~WindowOver(attempts[k], t) /\ ~LockLifted(attempts[k], t)
<1>1. attempts[k] \in Entry
  BY DEF TypeOK
<1>2. /\ t \in Nat /\ t <= FailureWindow
      /\ attempts[k].windowStarted \in Nat /\ attempts[k].windowStarted >= 1
      /\ attempts[k].lockedUntil \in Nat
      /\ attempts[k].lockedUntil = 0 \/ attempts[k].lockedUntil > Lockout
  BY <1>1, EntryParts, Reading, ConstantTypes DEF Account
<1>3. ~WindowOver(attempts[k], t) /\ ~LockLifted(attempts[k], t)
  BY <1>2, ConstantTypes, LockAssumption DEF WindowOver, LockLifted
<1>4. Expiry(attempts[k]) \in Nat /\ Expiry(attempts[k]) >= attempts[k].windowStarted + FailureWindow
  BY <1>1, EntryParts
<1>5. QED
  BY <1>1, <1>2, <1>3, <1>4, ConstantTypes

LEMMA NextAccounted ==
  TypeOK /\ Accounted /\ [Next]_vars => Accounted'
<1>1. SUFFICES ASSUME TypeOK, Accounted, [Next]_vars, now' <= FailureWindow
               PROVE  \A k \in Keys : Account(attempts'[k], inFlight'[k])
  BY DEF Accounted, Account
<1>2. now <= FailureWindow /\ \A k \in Keys : Account(attempts[k], inFlight[k])
  <2>1. now' = now \/ now' = now + 1
    BY <1>1 DEF Next, Tick, AllowLogin, AdmitTracked, LockBurst, AdmitUntracked, RefuseUntracked,
                RecordFailure, RecordSuccess, vars
  <2>2. now <= FailureWindow
    <3>1. now \in Nat
      BY <1>1, ConstantTypes DEF TypeOK, Times
    <3>2. QED
      BY <1>1, <2>1, <3>1, ConstantTypes
  <2>3. QED
    BY <1>1, <2>2 DEF Accounted
<1>3. inFlight \in [Keys -> Nat] /\ now \in ClockReadings
  BY <1>1, LoginAssumption DEF TypeOK, Times, ClockReadings
\* Nothing is over, so the call leaves the others alone.
<1>4. ASSUME NEW j \in Keys, NEW t \in ClockReadings, Spares(j, t),
             Account(attempts'[j], inFlight'[j])
      PROVE  \A k \in Keys : Account(attempts'[k], inFlight'[k])
  <2>1. \A k \in Keys \ {j} : inFlight'[k] = inFlight[k] /\ attempts'[k] = attempts[k]
    <3>1. ASSUME NEW k \in Keys \ {j}, attempts[k] # NoEntry
          PROVE  ~(t >= Expiry(attempts[k]))
      BY <1>1, <1>2, <3>1, NothingOver
    <3>2. QED
      BY <1>4, <3>1 DEF Spares
  <2>2. QED
    BY <1>2, <1>4, <2>1
<1>5. ASSUME NEW j \in Keys, NEW t \in ClockReadings, AdmitTracked(j, t)
      PROVE  \A k \in Keys : Account(attempts'[k], inFlight'[k])
  <2> DEFINE e == attempts[j]
  <2>1. /\ attempts'[j] = [e EXCEPT !.pending = @ + 1] /\ e \in Entry /\ Spares(j, t)
        /\ e.failures + e.pending < FailureLimit /\ inFlight'[j] = inFlight[j] + 1
    BY <1>1, <1>5, AdmitTrackedEffect DEF Becomes
  <2>2. /\ e # NoEntry /\ Account(e, inFlight[j])
        /\ e.failures \in Nat /\ e.pending \in Nat
    BY <1>2, <2>1, EntryParts
  <2>3. /\ attempts'[j].pending = e.pending + 1 /\ attempts'[j].failures = e.failures
        /\ attempts'[j].windowStarted = e.windowStarted
        /\ attempts'[j].lockedUntil = e.lockedUntil
        /\ attempts'[j] \in Entry
    BY <2>1, <2>2 DEF Entry
  <2>4. attempts'[j] # NoEntry
    BY <2>3, EntryParts
  <2> HIDE DEF e
  <2>5. Account(attempts'[j], inFlight'[j])
    BY <2>1, <2>2, <2>3, <2>4, ConstantTypes DEF Account
  <2>6. QED
    BY <1>4, <2>1, <2>5
<1>6. ASSUME NEW j \in Keys, NEW t \in ClockReadings, LockBurst(j, t)
      PROVE  \A k \in Keys : Account(attempts'[k], inFlight'[k])
  <2> DEFINE e == attempts[j]
  <2>1. /\ attempts'[j] = [e EXCEPT !.lockedUntil = t + Lockout] /\ e \in Entry /\ Spares(j, t)
        /\ inFlight' = inFlight
    BY <1>1, <1>6, LockBurstEffect DEF Becomes
  <2>2. e # NoEntry /\ Account(e, inFlight[j])
    BY <1>2, <2>1, EntryParts
  <2>3. t + Lockout \in Deadlines /\ t + Lockout > Lockout
    BY <1>1, Reading, ConstantTypes
  <2>4. /\ attempts'[j].pending = e.pending /\ attempts'[j].failures = e.failures
        /\ attempts'[j].windowStarted = e.windowStarted
        /\ attempts'[j].lockedUntil = t + Lockout
        /\ attempts'[j] \in Entry
    BY <2>1, <2>3 DEF Entry
  <2>5. attempts'[j] # NoEntry
    BY <2>4, EntryParts
  <2> HIDE DEF e
  <2>6. Account(attempts'[j], inFlight'[j])
    BY <2>1, <2>2, <2>3, <2>4, <2>5 DEF Account
  <2>7. QED
    BY <1>4, <2>1, <2>6
<1>7. ASSUME NEW j \in Keys, NEW t \in ClockReadings, AdmitUntracked(j, t)
      PROVE  \A k \in Keys : Account(attempts'[k], inFlight'[k])
  <2>1. /\ attempts'[j] = Opened(t) /\ Opened(t) \in Entry /\ Spares(j, t)
        /\ inFlight'[j] = inFlight[j] + 1
    BY <1>1, <1>7, AdmitUntrackedEffect DEF Becomes
  <2>2. attempts[j] = NoEntry
    BY <1>1, <1>2, <1>7, NothingOver DEF AdmitUntracked, Untracked
  <2>3. inFlight[j] = 0
    BY <1>2, <2>2 DEF Account
  <2>4. Account(Opened(t), 1)
    BY <1>1, <2>1, EntryParts, Reading, ConstantTypes DEF Account, Opened
  <2>5. QED
    BY <1>4, <2>1, <2>3, <2>4
<1>8. ASSUME NEW j \in Keys, NEW t \in ClockReadings, RefuseUntracked(j, t)
      PROVE  \A k \in Keys : Account(attempts'[k], inFlight'[k])
  <2>1. attempts'[j] = NoEntry /\ inFlight' = inFlight /\ Spares(j, t)
    BY <1>1, <1>8, RefuseUntrackedEffect DEF Becomes
  <2>2. attempts[j] = NoEntry
    BY <1>1, <1>2, <1>8, NothingOver DEF RefuseUntracked, Untracked
  <2>3. Account(attempts'[j], inFlight'[j])
    BY <1>2, <2>1, <2>2
  <2>4. QED
    BY <1>4, <2>1, <2>3
<1>9. ASSUME NEW j \in Keys, NEW t \in ClockReadings, RecordFailure(j, t)
      PROVE  \A k \in Keys : Account(attempts'[k], inFlight'[k])
  <2> DEFINE e == attempts[j]
  <2>1. Spares(j, t) /\ inFlight[j] >= 1 /\ inFlight'[j] = inFlight[j] - 1
    BY <1>1, <1>9, RecordFailureEffect
  <2>2. e # NoEntry /\ Account(e, inFlight[j])
    BY <1>2, <2>1 DEF Account
  <2>3. Countable(j, t)
    BY <1>1, <1>2, <2>2, NothingOver DEF Countable
  <2>4. /\ e \in Entry
        /\ attempts' \in Maps
        /\ attempts'[j] = AfterFailure(e.failures + 1, Release(e.pending), e.windowStarted,
                                       e.lockedUntil, t)
    BY <1>1, <1>9, <2>3, RecordFailureEffect DEF Becomes
  <2>5. e.failures \in Nat /\ e.pending \in Nat /\ e.windowStarted \in Nat /\ e.lockedUntil \in Nat
    BY <2>4, EntryParts
  <2>6. Release(e.pending) = e.pending - 1
    BY <2>1, <2>2, <2>5 DEF Account, Release
  <2> HIDE DEF e
  <2>7. /\ attempts'[j].failures = e.failures + 1 /\ attempts'[j].pending = e.pending - 1
        /\ attempts'[j].windowStarted = e.windowStarted
        /\ attempts'[j].lockedUntil \in {t + Lockout, e.lockedUntil}
    BY <2>4, <2>6 DEF AfterFailure
  <2>8. t + Lockout > Lockout
    BY <1>1, Reading, ConstantTypes
  <2>9. inFlight'[j] # 0 => attempts'[j] # NoEntry
    <3>1. AfterFailure(e.failures + 1, Release(e.pending), e.windowStarted, e.lockedUntil, t)
            \in Entry
      BY <1>1, <2>4, <2>5, <2>6, EntryParts, Reading DEF AfterFailure, Release, Entry
    <3>2. QED
      BY <2>4, <3>1, EntryParts
  <2>10. Account(attempts'[j], inFlight'[j])
    BY <2>1, <2>2, <2>5, <2>7, <2>8, <2>9, ConstantTypes DEF Account
  <2>11. QED
    BY <1>4, <2>1, <2>10
<1>10. ASSUME NEW j \in Keys, RecordSuccess(j)
      PROVE  \A k \in Keys : Account(attempts'[k], inFlight'[k])
  <2> DEFINE e == attempts[j]
  <2>1. Spares(j, now) /\ inFlight[j] >= 1 /\ inFlight'[j] = inFlight[j] - 1 /\ inFlight[j] \in Nat
    BY <1>1, <1>3, <1>10, RecordSuccessEffect
  <2>2. e # NoEntry /\ Account(e, inFlight[j])
    BY <1>2, <2>1 DEF Account
  <2>3. e \in Entry /\ e.failures \in Nat /\ e.pending \in Nat
    BY <1>1, <2>2, EntryParts DEF TypeOK
  <2>4. CASE attempts'[j] = NoEntry /\ e.pending <= 1
    BY <1>4, <1>3, <2>1, <2>2, <2>3, <2>4 DEF Account
  <2>5. CASE /\ e.pending > 1
             /\ attempts'[j] = [e EXCEPT !.failures = 0, !.pending = e.pending - 1,
                                         !.lockedUntil = 0]
    <3>1. /\ attempts'[j].failures = 0 /\ attempts'[j].pending = e.pending - 1
          /\ attempts'[j].windowStarted = e.windowStarted /\ attempts'[j].lockedUntil = 0
      BY <2>3, <2>5 DEF Entry
    <3>2. inFlight'[j] # 0
      BY <2>1, <2>2, <2>5 DEF Account
    <3> HIDE DEF e
    <3>3. attempts'[j] # NoEntry
      <4>1. attempts'[j] \in Entry
        <5>1. e.pending - 1 \in Nat /\ 0 \in Nat /\ 0 \in Deadlines
          BY <2>3, <2>5, ConstantTypes DEF Deadlines
        <5>2. QED
          BY <2>3, <2>5, <5>1 DEF Entry
      <4>2. QED
        BY <4>1, EntryParts
    <3>4. Account(attempts'[j], inFlight'[j])
      BY <2>1, <2>2, <2>3, <3>1, <3>3, ConstantTypes DEF Account
    <3>5. QED
      BY <1>3, <1>4, <2>1, <3>4
  <2>6. QED
    BY <1>1, <1>10, <2>2, <2>4, <2>5, RecordSuccessEffect DEF Becomes
<1>11. CASE Tick \/ UNCHANGED vars
  BY <1>2, <1>11 DEF Tick, vars
<1>12. QED
  BY <1>1, <1>5, <1>6, <1>7, <1>8, <1>9, <1>10, <1>11 DEF Next, AllowLogin

\* As long as no window has run out under an attempt in flight, an identifier's
\* failures and its attempts in flight together never pass the limit, in
\* whichever order admissions, reports, locks and pruning come.
THEOREM BudgetNeverExceeded ==
  Spec => []BudgetHeld
<1>1. Init => Accounted
  BY DEF Init, Accounted, Account
<1>2. Accounted => BudgetHeld
  BY DEF Accounted, Account, BudgetHeld
<1>3. QED
  BY <1>1, <1>2, NextAccounted, TypeCorrect, PTL DEF Spec
=============================================================================
