---------------------------- MODULE LoginPolicy ----------------------------
(***************************************************************************)
(* loginAttemptPolicy, the in-memory throttle of the starter host          *)
(* (pkg/starterapp/login_policy.go).  Each method runs under the mutex, so  *)
(* it is one step, but reads the clock before it takes the mutex: the time  *)
(* a step works with can lie behind the time of the step before it.  A call *)
(* that is turned away and changes nothing is no step.                      *)
(***************************************************************************)
EXTENDS Integers, FiniteSets

CONSTANTS
  Keys,          \* normalized (tenant, identifier) pairs
  FailureLimit,
  FailureWindow,
  Lockout,
  TrackedLimit,
  MaxTime,       \* bound on the clock
  MaxInFlight,   \* bound on the attempts of one identifier in flight
  ClockLag,      \* how far a clock reading can age while it waits for the mutex
  NoEntry

\* 0 is the zero time.Time, which lies before every reading of the clock.
Times == 0..MaxTime
Deadlines == 0..MaxTime + FailureWindow + Lockout
Entry == [failures: Nat, pending: Nat, windowStarted: Times, lockedUntil: Deadlines]

ASSUME LoginAssumption ==
  /\ FailureLimit \in Nat \ {0}
  /\ FailureWindow \in Nat \ {0}
  /\ Lockout \in Nat \ {0}
  /\ TrackedLimit \in Nat \ {0}
  /\ MaxTime \in Nat \ {0}
  /\ MaxInFlight \in Nat
  /\ ClockLag \in Nat
  /\ NoEntry \notin Entry
  /\ IsFiniteSet(Keys)

\* Both are 15 minutes: no lock is over before the window it was set in.
ASSUME LockAssumption == FailureWindow <= Lockout

VARIABLES
  attempts,        \* the map of tracked identifiers
  saturatedUntil,
  now,
  inFlight         \* admitted attempts the auth service has not reported on yet

vars == <<attempts, saturatedUntil, now, inFlight>>

\* Every variable keeps its shape.
TypeOK ==
  /\ attempts \in [Keys -> Entry \cup {NoEntry}]
  /\ saturatedUntil \in Deadlines
  /\ now \in Times \ {0}
  /\ inFlight \in [Keys -> Nat]

Init ==
  /\ attempts = [k \in Keys |-> NoEntry]
  /\ saturatedUntil = 0
  /\ now = 1
  /\ inFlight = [k \in Keys |-> 0]

-----------------------------------------------------------------------------
ClockReadings == {t \in 1..now : t + ClockLag >= now}

WindowOver(e, t) == t >= e.windowStarted + FailureWindow
LockLifted(e, t) == e.lockedUntil # 0 /\ t >= e.lockedUntil

\* When pruneExpired may drop an entry: both its window and its lock are over.
Expiry(e) ==
  LET windowEnd == e.windowStarted + FailureWindow
  IN IF e.lockedUntil > windowEnd THEN e.lockedUntil ELSE windowEnd

Tracked(map) == {k \in Keys : map[k] # NoEntry}

\* Slip: room is found for one identifier too many.
FullOffByOne(map) == Cardinality(Tracked(map)) > TrackedLimit

Full(map) == Cardinality(Tracked(map)) >= TrackedLimit

Without(map, k) == [map EXCEPT ![k] = NoEntry]

\* Slip: the window alone decides, a lock that runs on is forgotten.
PruneByWindow(map, t) ==
  [k \in Keys |-> IF map[k] # NoEntry /\ WindowOver(map[k], t) THEN NoEntry ELSE map[k]]

\* pruneExpired
PruneExpired(map, t) ==
  [k \in Keys |-> IF map[k] # NoEntry /\ t >= Expiry(map[k]) THEN NoEntry ELSE map[k]]

\* The map once an identifier it does not track has asked for a place in it.
MakeRoom(map, t) == IF Full(map) THEN PruneExpired(map, t) ELSE map

\* Slip: the reservation of a reported attempt stays.
ReleaseNothing(n) == n

\* Slip: a report whose reservation a reset dropped counts one below zero.
ReleaseUnguarded(n) == n - 1

Release(n) == IF n > 0 THEN n - 1 ELSE 0

\* AllowLogin goes on with the entry it finds.
Current(k, t) == attempts[k] # NoEntry /\ ~WindowOver(attempts[k], t)
\* AllowLogin finds no entry, or one whose window is over, which it deletes.
Untracked(k, t) ==
  attempts[k] # NoEntry => t >= attempts[k].lockedUntil /\ WindowOver(attempts[k], t)

\* RecordFailure goes on with the entry it finds.
Countable(k, t) ==
  attempts[k] # NoEntry /\ ~LockLifted(attempts[k], t) /\ ~WindowOver(attempts[k], t)

Admit(k) ==
  /\ inFlight[k] < MaxInFlight
  /\ inFlight' = [inFlight EXCEPT ![k] = @ + 1]

Report(k) ==
  /\ inFlight[k] > 0
  /\ inFlight' = [inFlight EXCEPT ![k] = @ - 1]

-----------------------------------------------------------------------------
\* Slip: only recorded failures count against the limit.
AdmitByFailures(k, t) ==
  LET e == attempts[k] IN
  /\ Current(k, t)
  /\ t >= e.lockedUntil
  /\ e.failures < FailureLimit
  /\ attempts' = [attempts EXCEPT ![k].pending = @ + 1]
  /\ Admit(k)
  /\ UNCHANGED <<saturatedUntil, now>>

\* AllowLogin reserves one more slot in the identifier's window.
AdmitTracked(k, t) ==
  LET e == attempts[k] IN
  /\ Current(k, t)
  /\ t >= e.lockedUntil
  /\ e.failures + e.pending < FailureLimit
  /\ attempts' = [attempts EXCEPT ![k].pending = @ + 1]
  /\ Admit(k)
  /\ UNCHANGED <<saturatedUntil, now>>

\* AllowLogin turns the attempt away and locks the identifier: failures and
\* attempts in flight together have used the limit up.
LockBurst(k, t) ==
  LET e == attempts[k] IN
  /\ Current(k, t)
  /\ t >= e.lockedUntil
  /\ e.failures + e.pending >= FailureLimit
  /\ attempts' = [attempts EXCEPT ![k].lockedUntil = t + Lockout]
  /\ UNCHANGED <<saturatedUntil, now, inFlight>>

\* AllowLogin opens a window for the identifier if there is room.
AdmitUntracked(k, t) ==
  LET map == MakeRoom(Without(attempts, k), t) IN
  /\ Untracked(k, t)
  /\ t >= saturatedUntil
  /\ ~Full(map)
  /\ attempts' = [map EXCEPT ![k] =
       [failures |-> 0, pending |-> 1, windowStarted |-> t, lockedUntil |-> 0]]
  /\ Admit(k)
  /\ UNCHANGED <<saturatedUntil, now>>

\* AllowLogin finds no room, or knows already that there was none.
RefuseUntracked(k, t) ==
  LET map == MakeRoom(Without(attempts, k), t) IN
  /\ Untracked(k, t)
  /\ \/ /\ t < saturatedUntil
        /\ attempts' = Without(attempts, k)
        /\ UNCHANGED saturatedUntil
     \/ /\ t >= saturatedUntil
        /\ Full(map)
        /\ attempts' = map
        /\ saturatedUntil' = t + FailureWindow
  /\ UNCHANGED <<now, inFlight>>

AfterFailure(failures, pending, windowStarted, lockedUntil, t) ==
  [failures |-> failures, pending |-> pending, windowStarted |-> windowStarted,
   lockedUntil |-> IF failures >= FailureLimit THEN t + Lockout ELSE lockedUntil]

RecordFailure(k, t) ==
  LET e == attempts[k]
      map == MakeRoom(Without(attempts, k), t)
  IN
  /\ \/ /\ Countable(k, t)
        /\ attempts' = [attempts EXCEPT ![k] =
             AfterFailure(e.failures + 1, Release(e.pending), e.windowStarted, e.lockedUntil, t)]
        /\ UNCHANGED saturatedUntil
     \/ /\ ~Countable(k, t)
        /\ ~Full(map)
        /\ attempts' = [map EXCEPT ![k] = AfterFailure(1, 0, t, 0, t)]
        /\ UNCHANGED saturatedUntil
     \/ /\ ~Countable(k, t)
        /\ Full(map)
        /\ attempts' = map
        /\ saturatedUntil' = t + FailureWindow
  /\ Report(k)
  /\ UNCHANGED now

RecordSuccess(k) ==
  LET e == attempts[k]
      map == IF e = NoEntry \/ Release(e.pending) = 0
             THEN Without(attempts, k)
             ELSE [attempts EXCEPT ![k] =
                    [e EXCEPT !.failures = 0, !.pending = Release(@), !.lockedUntil = 0]]
  IN
  /\ attempts' = map
  /\ saturatedUntil' = IF Full(map) THEN saturatedUntil ELSE 0
  /\ Report(k)
  /\ UNCHANGED now

Tick ==
  /\ now < MaxTime
  /\ now' = now + 1
  /\ UNCHANGED <<attempts, saturatedUntil, inFlight>>

AllowLogin(k, t) ==
  AdmitTracked(k, t) \/ LockBurst(k, t) \/ AdmitUntracked(k, t) \/ RefuseUntracked(k, t)

Next ==
  \/ Tick
  \/ \E k \in Keys :
       \/ \E t \in ClockReadings : AllowLogin(k, t) \/ RecordFailure(k, t)
       \/ RecordSuccess(k)

Spec == Init /\ [][Next]_vars

-----------------------------------------------------------------------------
\* The map never outgrows its bound, whatever order reports and new identifiers
\* come in and however late a report comes.
CapacityBounded == Cardinality(Tracked(attempts)) <= TrackedLimit

\* A reservation is always held by an attempt still in flight, so none is left
\* behind to count against the identifier for ever.
PendingIsInFlight ==
  \A k \in Keys : attempts[k] # NoEntry => attempts[k].pending <= inFlight[k]

\* Nothing another identifier does touches an entry whose window or lock still
\* runs: making room in a full map never forgets a lock.
PressureSparesLiveEntries ==
  [][\A k \in Keys :
       attempts[k] # NoEntry /\ now < Expiry(attempts[k]) /\ inFlight'[k] = inFlight[k] =>
         \/ attempts'[k] = attempts[k]
         \/ attempts'[k] # NoEntry /\ attempts'[k].lockedUntil > attempts[k].lockedUntil]_vars

\* As long as no window has run out under an attempt in flight (none has before
\* time 1 + FailureWindow), an identifier's failures and its attempts in flight
\* together never pass the limit.
BudgetHeld ==
  now <= FailureWindow =>
    \A k \in Keys : attempts[k] # NoEntry => attempts[k].failures + inFlight[k] <= FailureLimit

\* "A concurrent burst cannot slip more than failureLimit attempts past the gate
\* before any of them has recorded its failure."
BurstBounded == \A k \in Keys : inFlight[k] <= FailureLimit
=============================================================================
