---------------------------- MODULE VoteLimiter ----------------------------
(***************************************************************************)
(* voteLimiter, the fixed-window throttle in front of the public ballots   *)
(* (reference/polls/pollmodule/voter.go).  allow runs under the mutex; the *)
(* caller read the clock before, so calls can arrive with times out of     *)
(* order.  Ballots puts the throttle in front of the visitors' requests.   *)
(***************************************************************************)
EXTENDS Integers, FiniteSets, Sequences

CONSTANTS
  Networks,   \* rate keys, one per network address
  Limit,      \* voteLimitPerWindow
  Window,     \* voteLimitWindow
  EvictFrom,  \* map size from which expired buckets are evicted (512)
  MaxTime,    \* bound on the clock
  ClockLag,   \* how far a clock reading can age while it waits for the mutex
  NoBucket

Times == 1..MaxTime
Bucket == [windowStart: Times, count: 1..Limit]

ASSUME LimiterAssumption ==
  /\ IsFiniteSet(Networks)
  /\ Limit \in Nat \ {0}
  /\ Window \in Nat \ {0}
  /\ EvictFrom \in Nat
  /\ MaxTime \in Nat \ {0}
  /\ ClockLag \in Nat
  /\ NoBucket \notin Bucket

VARIABLES
  buckets,
  now,
  admitted   \* history: the clock readings each network's ballots were let in with,
             \* in the order they were let in, since the process started

limiter == <<buckets, admitted>>

\* Every variable keeps its shape; no bucket counts past the limit.
LimiterTypeOK ==
  /\ buckets \in [Networks -> Bucket \cup {NoBucket}]
  /\ now \in Times
  /\ admitted \in [Networks -> Seq(Times)]

\* newVoteLimiter: an empty map, and nothing let in yet by this process.
EmptyLimiter ==
  /\ buckets = [k \in Networks |-> NoBucket]
  /\ admitted = [k \in Networks |-> <<>>]

LimiterInit == EmptyLimiter /\ now = 1

ClockReadings == {t \in Times : t <= now /\ t + ClockLag >= now}

Expired(b, t) == t - b.windowStart >= Window

\* Slip: eviction does not look at the age of a bucket.
EvictAll(map, t) ==
  IF Cardinality({k \in Networks : map[k] # NoBucket}) < EvictFrom
  THEN map
  ELSE [k \in Networks |-> NoBucket]

\* evictExpired: nothing below the threshold, then only what is over.
EvictExpired(map, t) ==
  IF Cardinality({k \in Networks : map[k] # NoBucket}) < EvictFrom
  THEN map
  ELSE [k \in Networks |->
         IF map[k] # NoBucket /\ Expired(map[k], t) THEN NoBucket ELSE map[k]]

Record(k, t) == admitted' = [admitted EXCEPT ![k] = Append(@, t)]

\* allow opens a window, then evicts.
OpenWindow(k, t) ==
  /\ buckets[k] # NoBucket => Expired(buckets[k], t)
  /\ buckets' = EvictExpired([buckets EXCEPT ![k] = [windowStart |-> t, count |-> 1]], t)
  /\ Record(k, t)
  /\ UNCHANGED now

\* Slip: the raised count is not written back to the map.
CountBallotLost(k, t) ==
  /\ buckets[k] # NoBucket
  /\ ~Expired(buckets[k], t)
  /\ buckets[k].count < Limit
  /\ Record(k, t)
  /\ UNCHANGED <<buckets, now>>

\* Slip: the limit itself is still let through.
CountBallotOffByOne(k, t) ==
  /\ buckets[k] # NoBucket
  /\ ~Expired(buckets[k], t)
  /\ buckets[k].count <= Limit
  /\ buckets' = [buckets EXCEPT ![k].count = @ + 1]
  /\ Record(k, t)
  /\ UNCHANGED now

\* allow counts one more ballot; at the limit it refuses and changes nothing.
CountBallot(k, t) ==
  /\ buckets[k] # NoBucket
  /\ ~Expired(buckets[k], t)
  /\ buckets[k].count < Limit
  /\ buckets' = [buckets EXCEPT ![k].count = @ + 1]
  /\ Record(k, t)
  /\ UNCHANGED now

\* allow lets a ballot of the network in.
Allow(k) == \E t \in ClockReadings : OpenWindow(k, t) \/ CountBallot(k, t)

Tick ==
  /\ now < MaxTime
  /\ now' = now + 1
  /\ UNCHANGED limiter

\* The process starts again with newVoteLimiter.
ForgetWindows ==
  /\ buckets' = [k \in Networks |-> NoBucket]
  /\ admitted' = [k \in Networks |-> <<>>]
  /\ UNCHANGED now

\* The throttle on its own, under any ballots.
LimiterNext ==
  \/ Tick
  \/ ForgetWindows
  \/ \E k \in Networks : Allow(k)

LimiterSpec == LimiterInit /\ [][LimiterNext]_<<limiter, now>>

-----------------------------------------------------------------------------
\* A network that paces itself around the edges of its windows gets at most two
\* windows' worth into any stretch of one window's length, shortened by the age
\* of two readings: a late one stretches the window it is counted in, and one
\* that opens a window after an eviction opens it too early.
RateBounded ==
  \A k \in Networks :
    \A first, last \in DOMAIN admitted[k] :
      last - first >= 2 * Limit =>
        admitted[k][last] - admitted[k][first] > Window - 2 * ClockLag

=============================================================================
