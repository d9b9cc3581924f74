---------------------------- MODULE BallotsProofs ----------------------------
(***************************************************************************)
(* What Ballots guarantees for any browsers, networks, tokens and ballots  *)
(* in flight, and any limit, window and lag of the clock.                  *)
(***************************************************************************)
EXTENDS Ballots, FiniteSetTheorems, TLAPS

-----------------------------------------------------------------------------
(***************************************************************************)
(* Type correctness, and the throttle.                                     *)
(***************************************************************************)

\* A new throttle has its shape.
LEMMA LimiterInitTyped ==
  LimiterInit => LimiterTypeOK
<1>1. SUFFICES ASSUME LimiterInit
               PROVE  LimiterTypeOK
  OBVIOUS
<1>2. now \in Times
  BY <1>1, LimiterAssumption DEF LimiterInit, Times
<1>3. <<>> \in Seq(Times)
  OBVIOUS
<1>4. QED
  BY <1>1, <1>2, <1>3 DEF LimiterInit, EmptyLimiter, LimiterTypeOK

\* A ballot that opens a window or is counted leaves a map of buckets.
LEMMA LimiterStepTyped ==
  ASSUME LimiterTypeOK, NEW k \in Networks, NEW t \in ClockReadings,
         OpenWindow(k, t) \/ CountBallot(k, t)
  PROVE  LimiterTypeOK'
<1>1. t \in Times /\ Limit \in Nat \ {0}
  BY LimiterAssumption DEF ClockReadings
<1>2. admitted' \in [Networks -> Seq(Times)] /\ now' = now
  <2>1. Append(admitted[k], t) \in Seq(Times)
    BY <1>1 DEF LimiterTypeOK
  <2>2. QED
    BY <2>1 DEF OpenWindow, CountBallot, Record, LimiterTypeOK
<1>3. CASE OpenWindow(k, t)
  <2> DEFINE b == [windowStart |-> t, count |-> 1]
             map == [buckets EXCEPT ![k] = b]
  <2>1. b \in Bucket
    BY <1>1 DEF Bucket
  <2>2. map \in [Networks -> Bucket \cup {NoBucket}]
    BY <2>1 DEF LimiterTypeOK
  <2> HIDE DEF map
  <2>3. EvictExpired(map, t) \in [Networks -> Bucket \cup {NoBucket}]
    BY <2>2 DEF EvictExpired
  <2>4. buckets' = EvictExpired(map, t)
    BY <1>3 DEF OpenWindow, map
  <2>5. QED
    BY <1>2, <2>3, <2>4 DEF LimiterTypeOK
<1>4. CASE CountBallot(k, t)
  <2>1. buckets[k] \in Bucket /\ buckets[k].count < Limit
    BY <1>4 DEF CountBallot, LimiterTypeOK
  <2>2. buckets[k].count + 1 \in 1..Limit
    BY <1>1, <2>1 DEF Bucket
  <2>3. [buckets[k] EXCEPT !.count = @ + 1] \in Bucket
    BY <2>1, <2>2 DEF Bucket
  <2>4. buckets' = [buckets EXCEPT ![k] = [buckets[k] EXCEPT !.count = @ + 1]]
    BY <1>4 DEF CountBallot
  <2>5. QED
    BY <1>2, <2>3, <2>4 DEF LimiterTypeOK
<1>5. QED
  BY <1>3, <1>4

\* A restart forgets the windows, a tick moves the clock within its bound.
LEMMA LimiterRestTyped ==
  ASSUME LimiterTypeOK
  PROVE  /\ ForgetWindows => LimiterTypeOK'
         /\ Tick => LimiterTypeOK'
         /\ UNCHANGED <<buckets, now, admitted>> => LimiterTypeOK'
<1>1. ASSUME ForgetWindows
      PROVE  LimiterTypeOK'
  <2>1. buckets' \in [Networks -> Bucket \cup {NoBucket}]
    BY <1>1 DEF ForgetWindows
  <2>2. admitted' \in [Networks -> Seq(Times)] /\ now' = now
    <3>1. <<>> \in Seq(Times)
      OBVIOUS
    <3>2. QED
      BY <1>1, <3>1 DEF ForgetWindows
  <2>3. QED
    BY <2>1, <2>2 DEF LimiterTypeOK
<1>2. ASSUME Tick
      PROVE  LimiterTypeOK'
  <2>1. now + 1 \in Times
    BY <1>2, LimiterAssumption DEF Tick, LimiterTypeOK, Times
  <2>2. QED
    BY <1>2, <2>1 DEF Tick, limiter, LimiterTypeOK
<1>3. ASSUME UNCHANGED <<buckets, now, admitted>>
      PROVE  LimiterTypeOK'
  BY <1>3 DEF LimiterTypeOK
<1>4. QED
  BY <1>1, <1>2, <1>3

\* Pressure of other networks leaves a running window alone.
LEMMA StepSparesRunning ==
  ASSUME LimiterTypeOK, NEW n \in Networks, NEW t \in ClockReadings,
         OpenWindow(n, t) \/ CountBallot(n, t),
         NEW k \in Networks, buckets[k] # NoBucket, now - buckets[k].windowStart < Window
  PROVE  buckets'[k] # NoBucket /\ buckets'[k].windowStart = buckets[k].windowStart
<1>1. /\ t \in Nat /\ now \in Nat /\ t <= now /\ Window \in Nat
      /\ buckets[k] \in Bucket /\ buckets[k].windowStart \in Nat
  BY LimiterAssumption DEF LimiterTypeOK, ClockReadings, Times, Bucket
<1>2. ~Expired(buckets[k], t)
  BY <1>1 DEF Expired
<1>3. CASE OpenWindow(n, t)
  <2> DEFINE map == [buckets EXCEPT ![n] = [windowStart |-> t, count |-> 1]]
  <2>1. n # k
    BY <1>2, <1>3 DEF OpenWindow
  <2>2. map[k] = buckets[k]
    BY <2>1 DEF LimiterTypeOK
  <2> HIDE DEF map
  <2>3. EvictExpired(map, t)[k] = map[k] \/ EvictExpired(map, t) = map
    BY <1>2, <2>2 DEF EvictExpired
  <2>4. buckets' = EvictExpired(map, t)
    BY <1>3 DEF OpenWindow, map
  <2>5. QED
    BY <2>2, <2>3, <2>4
<1>4. CASE CountBallot(n, t)
  <2>1. buckets[n] \in Bucket
    BY <1>4 DEF CountBallot, LimiterTypeOK
  <2>2. [buckets[n] EXCEPT !.count = @ + 1] \in [windowStart : Times, count : Int]
    BY <2>1 DEF Bucket
  <2>3. buckets' = [buckets EXCEPT ![n] = [buckets[n] EXCEPT !.count = @ + 1]]
    BY <1>4 DEF CountBallot
  <2>4. n = k => [buckets[n] EXCEPT !.count = @ + 1] # NoBucket
    <3>1. [buckets[n] EXCEPT !.count = @ + 1] \in Bucket
      BY <1>4, <2>1, LimiterAssumption DEF CountBallot, Bucket
    <3>2. QED
      BY <3>1, LimiterAssumption
  <2>5. QED
    BY <1>1, <2>1, <2>3, <2>4 DEF LimiterTypeOK, Bucket
<1>5. QED
  BY <1>3, <1>4

-----------------------------------------------------------------------------
(***************************************************************************)
(* How much a network gets in.                                             *)
(***************************************************************************)

\* Ballots the bucket of a network stands for.
Counted(k) == IF buckets[k] = NoBucket THEN 0 ELSE buckets[k].count

\* The last ballots let in are those of the bucket, and their readings end with
\* its window.  Those before ended before now, and at most a reading's age after
\* that window began; those before the window before did so a window earlier.
WindowsKnow(k) ==
  \A i \in DOMAIN admitted[k] :
    LET earlier == Len(admitted[k]) - Counted(k) IN
    /\ i <= earlier => admitted[k][i] < now
    /\ i <= earlier - Limit => admitted[k][i] + Window < now + ClockLag
    /\ buckets[k] # NoBucket =>
         IF i <= earlier
         THEN admitted[k][i] < buckets[k].windowStart + ClockLag
         ELSE admitted[k][i] < buckets[k].windowStart + Window

\* RateBounded of one network.
RateOf(k) ==
  \A first, last \in DOMAIN admitted[k] :
    last - first >= 2 * Limit =>
      admitted[k][last] - admitted[k][first] > Window - 2 * ClockLag

\* Numbers of the throttle are numbers.
LEMMA LimiterNumbers ==
  ASSUME LimiterTypeOK, NEW k \in Networks
  PROVE  /\ now \in Nat /\ Limit \in Nat /\ Limit > 0 /\ Window \in Nat /\ Window > 0
         /\ ClockLag \in Nat
         /\ admitted[k] \in Seq(Times)
         /\ Len(admitted[k]) \in Nat /\ DOMAIN admitted[k] = 1..Len(admitted[k])
         /\ \A i \in DOMAIN admitted[k] : admitted[k][i] \in Nat
         /\ Counted(k) \in Nat /\ Counted(k) <= Limit
         /\ buckets[k] # NoBucket =>
              /\ buckets[k].windowStart \in Nat /\ buckets[k].count \in Nat
              /\ buckets[k].count = Counted(k)
<1>1. now \in Nat /\ Limit \in Nat /\ Limit > 0 /\ Window \in Nat /\ Window > 0 /\ ClockLag \in Nat
  BY LimiterAssumption DEF LimiterTypeOK, Times
<1>2. admitted[k] \in Seq(Times)
  BY DEF LimiterTypeOK
<1>3. /\ Len(admitted[k]) \in Nat /\ DOMAIN admitted[k] = 1..Len(admitted[k])
      /\ \A i \in DOMAIN admitted[k] : admitted[k][i] \in Times
  BY <1>2
<1>4. \A t \in Times : t \in Nat
  BY LimiterAssumption DEF Times
<1>5. buckets[k] # NoBucket => buckets[k].windowStart \in Nat /\ buckets[k].count \in 1..Limit
  BY <1>4 DEF LimiterTypeOK, Bucket
<1>6. QED
  BY <1>1, <1>2, <1>3, <1>4, <1>5 DEF Counted

\* A reading is not in the future and not older than a reading gets.
LEMMA ReadingBounds ==
  ASSUME LimiterTypeOK, NEW t \in ClockReadings
  PROVE  t \in Times /\ t \in Nat /\ t <= now /\ now <= t + ClockLag
BY LimiterAssumption DEF ClockReadings, Times

\* What a ballot let in adds to a network's readings.
LEMMA AppendReading ==
  ASSUME LimiterTypeOK, NEW k \in Networks, NEW t \in Times, Record(k, t)
  PROVE  /\ DOMAIN admitted'[k] = 1..(Len(admitted[k]) + 1)
         /\ Len(admitted'[k]) = Len(admitted[k]) + 1
         /\ \A i \in DOMAIN admitted[k] : admitted'[k][i] = admitted[k][i]
         /\ admitted'[k][Len(admitted[k]) + 1] = t
<1>1. admitted[k] \in Seq(Times)
  BY LimiterNumbers
<1>2. admitted'[k] = Append(admitted[k], t)
  BY DEF Record, LimiterTypeOK
<1>3. QED
  BY <1>1, <1>2

\* When a window is over, what it knew holds without it.
LEMMA WindowEnds ==
  ASSUME LimiterTypeOK, NEW k \in Networks, WindowsKnow(k), NEW t \in ClockReadings,
         buckets[k] # NoBucket => Expired(buckets[k], t)
  PROVE  \A i \in DOMAIN admitted[k] :
           /\ admitted[k][i] < now
           /\ admitted[k][i] < t + ClockLag
           /\ i <= Len(admitted[k]) - Limit => admitted[k][i] + Window < now + ClockLag
<1>1. SUFFICES ASSUME NEW i \in DOMAIN admitted[k]
               PROVE  /\ admitted[k][i] < now
                      /\ i <= Len(admitted[k]) - Limit =>
                           admitted[k][i] + Window < now + ClockLag
  BY LimiterNumbers, ReadingBounds
<1> DEFINE u == admitted[k][i]
           n == Len(admitted[k])
           c == Counted(k)
           w == buckets[k].windowStart
<1>2. /\ i <= n - c => u < now
      /\ i <= n - c - Limit => u + Window < now + ClockLag
      /\ buckets[k] # NoBucket => IF i <= n - c THEN u < w + ClockLag ELSE u < w + Window
  BY DEF WindowsKnow
<1>3. buckets[k] # NoBucket => t - w >= Window
  BY DEF Expired
<1>4. /\ u \in Nat /\ n \in Nat /\ c \in Nat /\ c <= Limit /\ i \in 1..n
      /\ now \in Nat /\ Limit \in Nat /\ Window \in Nat /\ ClockLag \in Nat
      /\ buckets[k] # NoBucket => w \in Nat
      /\ buckets[k] = NoBucket => c = 0
  BY LimiterNumbers DEF Counted
<1>5. t \in Nat /\ t <= now
  BY ReadingBounds
<1> HIDE DEF u, n, c, w
<1>6. u < now /\ (i <= n - Limit => u + Window < now + ClockLag)
  BY <1>2, <1>3, <1>4, <1>5
<1>7. QED
  BY <1>6 DEF u, n

\* A ballot keeps the rate when the one two windows' worth before it is old enough.
LEMMA BallotKeepsRate ==
  ASSUME LimiterTypeOK, NEW k \in Networks, RateOf(k),
         NEW t \in ClockReadings, Record(k, t),
         \A i \in DOMAIN admitted[k] :
           i <= Len(admitted[k]) + 1 - 2 * Limit => admitted[k][i] + Window < now + ClockLag
  PROVE  RateOf(k)'
<1> DEFINE n == Len(admitted[k])
           D == 2 * Limit
<1>1. SUFFICES ASSUME NEW first \in DOMAIN admitted'[k], NEW last \in DOMAIN admitted'[k],
                      last - first >= 2 * Limit
               PROVE  admitted'[k][last] - admitted'[k][first] > Window - 2 * ClockLag
  BY DEF RateOf
<1>2. t \in Times /\ t \in Nat /\ now <= t + ClockLag /\ now \in Nat
  BY ReadingBounds, LimiterNumbers
<1>3. /\ DOMAIN admitted'[k] = 1..(n + 1)
      /\ \A i \in DOMAIN admitted[k] : admitted'[k][i] = admitted[k][i]
      /\ admitted'[k][n + 1] = t
  BY <1>2, AppendReading
<1>4. /\ DOMAIN admitted[k] = 1..n /\ n \in Nat
      /\ \A i \in DOMAIN admitted[k] : admitted[k][i] \in Nat
      /\ Window \in Nat /\ ClockLag \in Nat
      /\ D \in Nat /\ D > 0
  BY LimiterNumbers
<1>5. /\ last - first >= D
      /\ \A i \in DOMAIN admitted[k] :
           i <= n + 1 - D => admitted[k][i] + Window < now + ClockLag
  BY <1>1
<1> HIDE DEF n, D
<1>6. first \in 1..n
  BY <1>1, <1>3, <1>4, <1>5
<1>7. CASE last \in 1..n
  <2>1. admitted[k][last] - admitted[k][first] > Window - 2 * ClockLag
    BY <1>1, <1>4, <1>6, <1>7 DEF RateOf
  <2>2. QED
    BY <1>3, <1>4, <1>6, <1>7, <2>1
<1>8. CASE last = n + 1
  <2>1. first <= n + 1 - D
    BY <1>4, <1>5, <1>6, <1>8
  <2>2. admitted[k][first] + Window < now + ClockLag
    BY <1>4, <1>5, <1>6, <2>1
  <2>3. admitted'[k][last] = t /\ admitted'[k][first] = admitted[k][first]
    BY <1>3, <1>4, <1>6, <1>8
  <2>4. admitted[k][first] \in Nat
    BY <1>4, <1>6
  <2>5. QED
    BY <1>2, <1>4, <2>2, <2>3, <2>4
<1>9. QED
  BY <1>1, <1>3, <1>4, <1>7, <1>8

\* The ballot that opens a window.
LEMMA OpeningKeepsRate ==
  ASSUME LimiterTypeOK, NEW k \in Networks, WindowsKnow(k), RateOf(k),
         NEW t \in ClockReadings, OpenWindow(k, t)
  PROVE  WindowsKnow(k)' /\ RateOf(k)'
<1>1. t \in Times /\ t \in Nat /\ t <= now /\ now <= t + ClockLag
  BY ReadingBounds
<1>2. /\ DOMAIN admitted'[k] = 1..(Len(admitted[k]) + 1)
      /\ Len(admitted'[k]) = Len(admitted[k]) + 1
      /\ \A i \in DOMAIN admitted[k] : admitted'[k][i] = admitted[k][i]
      /\ admitted'[k][Len(admitted[k]) + 1] = t
  BY <1>1, AppendReading DEF OpenWindow
<1>3. buckets'[k] = [windowStart |-> t, count |-> 1] /\ now' = now
  <2> DEFINE map == [buckets EXCEPT ![k] = [windowStart |-> t, count |-> 1]]
  <2>1. map[k] = [windowStart |-> t, count |-> 1]
    BY DEF LimiterTypeOK
  <2>2. ~Expired(map[k], t)
    BY <1>1, <2>1, LimiterAssumption DEF Expired
  <2> HIDE DEF map
  <2>3. EvictExpired(map, t)[k] = map[k]
    BY <2>2 DEF EvictExpired
  <2>4. buckets' = EvictExpired(map, t) /\ now' = now
    BY DEF OpenWindow, map
  <2>5. QED
    BY <2>1, <2>3, <2>4
<1>4. \A i \in DOMAIN admitted[k] :
        /\ admitted[k][i] < now
        /\ admitted[k][i] < t + ClockLag
        /\ i <= Len(admitted[k]) - Limit => admitted[k][i] + Window < now + ClockLag
  BY WindowEnds DEF OpenWindow
<1>5. [windowStart |-> t, count |-> 1] # NoBucket
  BY <1>1, LimiterAssumption DEF Bucket
<1>6. Counted(k)' = 1 /\ buckets'[k] # NoBucket /\ buckets'[k].windowStart = t
  BY <1>3, <1>5 DEF Counted
<1>7. /\ DOMAIN admitted[k] = 1..Len(admitted[k]) /\ Len(admitted[k]) \in Nat
      /\ \A i \in DOMAIN admitted[k] : admitted[k][i] \in Nat
      /\ now \in Nat /\ Limit \in Nat /\ Limit > 0 /\ Window \in Nat /\ Window > 0
      /\ ClockLag \in Nat
  BY LimiterNumbers
<1>8. WindowsKnow(k)'
  BY <1>1, <1>2, <1>3, <1>4, <1>6, <1>7 DEF WindowsKnow
<1>9. RateOf(k)'
  <2>1. ASSUME NEW i \in DOMAIN admitted[k], i <= Len(admitted[k]) + 1 - 2 * Limit
        PROVE  i <= Len(admitted[k]) - Limit
    <3> DEFINE n == Len(admitted[k])
    <3>1. i \in 1..n /\ n \in Nat /\ Limit \in Nat /\ Limit > 0
      BY <1>7
    <3>2. i <= n + 1 - 2 * Limit
      BY <2>1
    <3> HIDE DEF n
    <3>3. i <= n - Limit
      BY <3>1, <3>2
    <3>4. QED
      BY <3>3 DEF n
  <2>2. QED
    BY <1>4, <2>1, BallotKeepsRate DEF OpenWindow
<1>10. QED
  BY <1>8, <1>9

\* The ballot that is counted in a window that runs.
LEMMA CountingKeepsRate ==
  ASSUME LimiterTypeOK, NEW k \in Networks, WindowsKnow(k), RateOf(k),
         NEW t \in ClockReadings, CountBallot(k, t)
  PROVE  WindowsKnow(k)' /\ RateOf(k)'
<1>1. t \in Times /\ t \in Nat /\ t <= now /\ now <= t + ClockLag
  BY ReadingBounds
<1>2. /\ DOMAIN admitted'[k] = 1..(Len(admitted[k]) + 1)
      /\ Len(admitted'[k]) = Len(admitted[k]) + 1
      /\ \A i \in DOMAIN admitted[k] : admitted'[k][i] = admitted[k][i]
      /\ admitted'[k][Len(admitted[k]) + 1] = t
  BY <1>1, AppendReading DEF CountBallot
<1>3. /\ DOMAIN admitted[k] = 1..Len(admitted[k]) /\ Len(admitted[k]) \in Nat
      /\ \A i \in DOMAIN admitted[k] : admitted[k][i] \in Nat
      /\ now \in Nat /\ Limit \in Nat /\ Limit > 0 /\ Window \in Nat /\ Window > 0
      /\ ClockLag \in Nat /\ Counted(k) \in Nat
      /\ buckets[k].windowStart \in Nat /\ buckets[k].count = Counted(k)
  BY LimiterNumbers DEF CountBallot
<1>4. buckets[k] # NoBucket /\ Counted(k) < Limit /\ t < buckets[k].windowStart + Window
  BY <1>1, <1>3 DEF CountBallot, Expired
<1>5. /\ buckets'[k] # NoBucket /\ buckets'[k].windowStart = buckets[k].windowStart
      /\ Counted(k)' = Counted(k) + 1 /\ now' = now
  <2>1. buckets[k] \in Bucket
    BY <1>4 DEF LimiterTypeOK
  <2>2. buckets'[k] = [buckets[k] EXCEPT !.count = @ + 1] /\ now' = now
    BY DEF CountBallot, LimiterTypeOK
  <2>3. [buckets[k] EXCEPT !.count = @ + 1] \in Bucket
    BY <1>3, <1>4, <2>1 DEF Bucket
  <2>4. buckets'[k] # NoBucket
    BY <2>2, <2>3, LimiterAssumption
  <2>5. buckets'[k].windowStart = buckets[k].windowStart /\ buckets'[k].count = buckets[k].count + 1
    BY <2>1, <2>2 DEF Bucket
  <2>6. QED
    BY <1>3, <2>2, <2>4, <2>5 DEF Counted
<1>6. WindowsKnow(k)'
  <2>1. SUFFICES ASSUME NEW i \in DOMAIN admitted'[k]
                 PROVE  /\ i <= Len(admitted[k]) - Counted(k) => admitted'[k][i] < now
                        /\ i <= Len(admitted[k]) - Counted(k) - Limit =>
                             admitted'[k][i] + Window < now + ClockLag
                        /\ IF i <= Len(admitted[k]) - Counted(k)
                           THEN admitted'[k][i] < buckets[k].windowStart + ClockLag
                           ELSE admitted'[k][i] < buckets[k].windowStart + Window
    BY <1>2, <1>3, <1>5 DEF WindowsKnow
  <2>2. CASE i \in DOMAIN admitted[k]
    BY <1>2, <1>4, <2>2 DEF WindowsKnow
  <2>3. CASE i \notin DOMAIN admitted[k]
    <3>1. i = Len(admitted[k]) + 1 /\ admitted'[k][i] = t
      BY <1>2, <1>3, <2>1, <2>3
    <3>2. QED
      BY <1>3, <1>4, <3>1
  <2>4. QED
    BY <2>2, <2>3
<1>7. \A i \in DOMAIN admitted[k] :
        i <= Len(admitted[k]) + 1 - 2 * Limit => admitted[k][i] + Window < now + ClockLag
  <2> DEFINE n == Len(admitted[k])
             c == Counted(k)
  <2>1. SUFFICES ASSUME NEW i \in DOMAIN admitted[k], i <= n + 1 - 2 * Limit
                 PROVE  i <= n - c - Limit
    BY DEF WindowsKnow
  <2>2. i \in Nat /\ n \in Nat /\ c \in Nat /\ Limit \in Nat /\ c < Limit
    BY <1>3, <1>4, <2>1
  <2> HIDE DEF n, c
  <2>3. QED
    BY <2>1, <2>2
<1>8. RateOf(k)'
  BY <1>7, BallotKeepsRate DEF CountBallot
<1>9. QED
  BY <1>6, <1>8

\* What other networks' ballots do to this one's bucket: nothing, or it is
\* evicted when its window is over.
LEMMA OthersKeepRate ==
  ASSUME LimiterTypeOK, NEW k \in Networks, WindowsKnow(k), RateOf(k),
         NEW n \in Networks, n # k,
         NEW t \in ClockReadings, OpenWindow(n, t) \/ CountBallot(n, t)
  PROVE  WindowsKnow(k)' /\ RateOf(k)'
<1>1. admitted'[k] = admitted[k] /\ now' = now
  BY DEF OpenWindow, CountBallot, Record, LimiterTypeOK
<1>2. \/ buckets'[k] = buckets[k]
      \/ buckets'[k] = NoBucket /\ Expired(buckets[k], t)
  <2>1. CASE OpenWindow(n, t)
    <3> DEFINE map == [buckets EXCEPT ![n] = [windowStart |-> t, count |-> 1]]
    <3>1. map[k] = buckets[k]
      BY DEF LimiterTypeOK
    <3> HIDE DEF map
    <3>2. \/ EvictExpired(map, t)[k] = map[k]
          \/ EvictExpired(map, t)[k] = NoBucket /\ Expired(map[k], t)
      <4>1. CASE Cardinality({m \in Networks : map[m] # NoBucket}) < EvictFrom
        BY <4>1 DEF EvictExpired
      <4>2. CASE ~(Cardinality({m \in Networks : map[m] # NoBucket}) < EvictFrom)
        <5>1. EvictExpired(map, t)[k] =
                IF map[k] # NoBucket /\ Expired(map[k], t) THEN NoBucket ELSE map[k]
          BY <4>2 DEF EvictExpired
        <5>2. QED
          BY <5>1
      <4>3. QED
        BY <4>1, <4>2
    <3>3. buckets' = EvictExpired(map, t)
      BY <2>1 DEF OpenWindow, map
    <3>4. QED
      BY <3>1, <3>2, <3>3
  <2>2. CASE CountBallot(n, t)
    BY <2>2 DEF CountBallot, LimiterTypeOK
  <2>3. QED
    BY <2>1, <2>2
<1>3. RateOf(k)'
  BY <1>1 DEF RateOf
<1>4. CASE buckets'[k] = buckets[k]
  <2>1. Counted(k)' = Counted(k)
    BY <1>4 DEF Counted
  <2>2. QED
    BY <1>1, <1>3, <1>4, <2>1 DEF WindowsKnow
<1>5. CASE buckets'[k] = NoBucket /\ Expired(buckets[k], t)
  <2>1. \A i \in DOMAIN admitted[k] :
          /\ admitted[k][i] < now
          /\ i <= Len(admitted[k]) - Limit => admitted[k][i] + Window < now + ClockLag
    BY <1>5, WindowEnds
  <2>2. Counted(k)' = 0 /\ Len(admitted[k]) \in Nat /\ Limit \in Nat
    BY <1>5, LimiterNumbers DEF Counted
  <2>3. QED
    BY <1>1, <1>3, <1>5, <2>1, <2>2 DEF WindowsKnow
<1>6. QED
  BY <1>2, <1>3, <1>4, <1>5

\* Time that passes makes the past older; a restart forgets it.
LEMMA RestKeepsRate ==
  ASSUME LimiterTypeOK, NEW k \in Networks, WindowsKnow(k), RateOf(k),
         Tick \/ ForgetWindows \/ UNCHANGED <<buckets, now, admitted>>
  PROVE  WindowsKnow(k)' /\ RateOf(k)'
<1>1. CASE Tick
  <2>1. now \in Nat /\ Window \in Nat /\ ClockLag \in Nat
        /\ \A i \in DOMAIN admitted[k] : admitted[k][i] \in Nat
    BY LimiterNumbers
  <2>2. buckets' = buckets /\ admitted' = admitted /\ now' = now + 1
    BY <1>1 DEF Tick, limiter
  <2>3. QED
    BY <2>1, <2>2 DEF WindowsKnow, RateOf, Counted
<1>2. CASE ForgetWindows
  <2>1. DOMAIN admitted'[k] = {}
    BY <1>2 DEF ForgetWindows
  <2>2. QED
    BY <2>1 DEF WindowsKnow, RateOf
<1>3. CASE UNCHANGED <<buckets, now, admitted>>
  BY <1>3 DEF WindowsKnow, RateOf, Counted
<1>4. QED
  BY <1>1, <1>2, <1>3

\* Changing one ballot in flight leaves ballots in flight.
LEMMA TabTyped ==
  ASSUME TypeOK, NEW i \in Tabs, NEW x \in Ballot \cup {Idle}, tab' = [tab EXCEPT ![i] = x]
  PROVE  tab' \in [Tabs -> Ballot \cup {Idle}]
BY DEF TypeOK

LEMMA AdmitTyped ==
  ASSUME TypeOK, NEW i \in Tabs, Admit(i)
  PROVE  TypeOK'
<1>1. tab[i] \in Ballot
  BY DEF Admit, TypeOK
<1>2. NetworkOf[tab[i].browser] \in Networks
  BY <1>1, BallotsAssumption DEF Ballot
<1>3. LimiterTypeOK'
  BY <1>2, LimiterStepTyped DEF Admit, Allow, TypeOK
<1>4. [tab[i] EXCEPT !.pc = "admitted"] \in Ballot
  BY <1>1 DEF Ballot
<1>5. tab' \in [Tabs -> Ballot \cup {Idle}]
  BY <1>4, TabTyped DEF Admit
<1>6. QED
  BY <1>3, <1>5 DEF Admit, history, TypeOK

\* What a counted or rejected ballot leaves, for a voter of the server's choice.
LEMMA CastVoteShape ==
  ASSUME TypeOK, NEW i \in Tabs, CastVote(i)
  PROVE  /\ tab[i] \in Ballot /\ tab[i].pc = "admitted"
         /\ \E voter \in Voters, set \in Cookie \cup {NoCookie} :
              /\ \/ voter \in ExistingVoter(tab[i]) /\ set = NoCookie
                 \/ /\ voter \in Tokens \ minted
                    /\ ExistingVoter(tab[i]) = {}
                    /\ set = [token |-> voter, secret |-> secret]
              /\ minted' = minted \cup ({voter} \cap Tokens)
              /\ tab' = [tab EXCEPT ![i] = [tab[i] EXCEPT !.pc = "answered", !.set = set]]
              /\ Count(tab[i], voter)
<1>1. tab[i] \in Ballot /\ tab[i].pc = "admitted"
  BY DEF CastVote, TypeOK
<1>2. PICK voter \in ExistingVoter(tab[i]) \cup (Tokens \ minted) :
        /\ ExistingVoter(tab[i]) # {} => voter \in ExistingVoter(tab[i])
        /\ minted' = minted \cup ({voter} \cap Tokens)
        /\ tab' = [tab EXCEPT ![i].pc = "answered",
             ![i].set = IF ExistingVoter(tab[i]) = {} THEN [token |-> voter, secret |-> secret]
                        ELSE NoCookie]
        /\ Count(tab[i], voter)
  BY DEF CastVote
<1>3. ExistingVoter(tab[i]) \subseteq Voters
  BY <1>1 DEF ExistingVoter, Ballot, Cookie, Voters
<1>4. voter \in Voters
  BY <1>2, <1>3 DEF Voters
<1> DEFINE set == IF ExistingVoter(tab[i]) = {} THEN [token |-> voter, secret |-> secret]
                  ELSE NoCookie
<1>5. tab' = [tab EXCEPT ![i] = [tab[i] EXCEPT !.pc = "answered", !.set = set]]
  BY <1>1, <1>2 DEF TypeOK
<1>6. CASE ExistingVoter(tab[i]) = {}
  <2>1. voter \in Tokens \ minted
    BY <1>2, <1>6
  <2>2. set \in Cookie
    BY <1>6, <2>1 DEF Cookie, TypeOK
  <2>3. set = [token |-> voter, secret |-> secret]
    BY <1>6
  <2> HIDE DEF set
  <2>4. QED
    BY <1>1, <1>2, <1>4, <1>5, <1>6, <2>1, <2>2, <2>3
<1>7. CASE ExistingVoter(tab[i]) # {}
  <2>1. voter \in ExistingVoter(tab[i]) /\ set = NoCookie
    BY <1>2, <1>7
  <2> HIDE DEF set
  <2>2. QED
    BY <1>1, <1>2, <1>4, <1>5, <2>1
<1>8. QED
  BY <1>6, <1>7

LEMMA CastVoteTyped ==
  ASSUME TypeOK, NEW i \in Tabs, CastVote(i)
  PROVE  TypeOK'
<1>1. tab[i] \in Ballot
  BY CastVoteShape
<1>2. PICK voter \in Voters, set \in Cookie \cup {NoCookie} :
        /\ minted' = minted \cup ({voter} \cap Tokens)
        /\ tab' = [tab EXCEPT ![i] = [tab[i] EXCEPT !.pc = "answered", !.set = set]]
        /\ Count(tab[i], voter)
  BY CastVoteShape
<1>3. [tab[i] EXCEPT !.pc = "answered", !.set = set] \in Ballot
  BY <1>1 DEF Ballot
<1>4. tab' \in [Tabs -> Ballot \cup {Idle}]
  BY <1>2, <1>3, TabTyped
<1>5. /\ votes' \in [Voters -> Options \cup {NoVote}]
      /\ cast' \in [Browsers -> SUBSET Voters]
      /\ latest' \in [Browsers -> Options \cup {NoVote}]
  BY <1>1, <1>2 DEF Count, TypeOK, Ballot
<1>6. LimiterTypeOK'
  BY LimiterRestTyped DEF CastVote, TypeOK
<1>7. minted \subseteq minted' /\ minted' \subseteq Tokens
  BY <1>2 DEF TypeOK
<1>8. secret' = secret /\ jar' = jar /\ signedIn' = signedIn /\ strayed' = strayed
  BY DEF CastVote
<1>9. QED
  BY <1>4, <1>5, <1>6, <1>7, <1>8 DEF TypeOK

LEMMA SubmitTyped ==
  ASSUME TypeOK, NEW i \in Tabs, NEW b \in Browsers, NEW o \in Options, Submit(i, b, o)
  PROVE  TypeOK'
<1> DEFINE x == [browser |-> b, cookie |-> jar[b], account |-> signedIn[b], option |-> o,
                 pc |-> "sent", set |-> NoCookie]
<1>1. x \in Ballot
  BY DEF Ballot, TypeOK
<1>2. tab' = [tab EXCEPT ![i] = x]
  BY DEF Submit
<1> HIDE DEF x
<1>3. tab' \in [Tabs -> Ballot \cup {Idle}]
  BY <1>1, <1>2, TabTyped
<1>4. LimiterTypeOK'
  BY LimiterRestTyped DEF Submit, TypeOK
<1>5. strayed' \subseteq Browsers
  BY DEF Submit, TypeOK
<1>6. QED
  BY <1>3, <1>4, <1>5 DEF Submit, TypeOK

\* A cookie in a ballot's answer was drawn.
SetsDrawn == \A i \in Tabs : tab[i] # Idle /\ tab[i].set # NoCookie => tab[i].set.token \in minted

LEMMA AnswerTyped ==
  ASSUME TypeOK, SetsDrawn, NEW i \in Tabs, Answer(i)
  PROVE  TypeOK'
<1>1. tab[i] \in Ballot
  BY DEF Answer, TypeOK
<1>2. /\ jar' \in [Browsers -> Cookie \cup {NoCookie}]
      /\ \A b \in Browsers : jar'[b] # NoCookie => jar'[b].token \in minted
  BY <1>1 DEF Answer, TypeOK, SetsDrawn, Ballot
<1>3. tab' \in [Tabs -> Ballot \cup {Idle}]
  BY TabTyped DEF Answer
<1>4. LimiterTypeOK'
  BY LimiterRestTyped DEF Answer, TypeOK
<1>5. QED
  BY <1>2, <1>3, <1>4 DEF Answer, history, TypeOK

\* The steps that end a ballot, and those that touch none.
LEMMA QuietTyped ==
  ASSUME TypeOK,
         \/ \E i \in Tabs : Refuse(i) \/ LoseAnswer(i)
         \/ \E b \in Browsers, a \in Accounts \cup {NoAccount} : SignInOrOut(b, a)
         \/ \E a \in Accounts, o \in Options : CastElsewhere(a, o)
         \/ Restart \/ PassTime \/ UNCHANGED vars
         \/ \E k \in Networks : AdmitPasserby(k)
  PROVE  TypeOK'
<1>1. CASE \E i \in Tabs : Refuse(i) \/ LoseAnswer(i)
  <2>1. PICK i \in Tabs : Refuse(i) \/ LoseAnswer(i)
    BY <1>1
  <2>2. tab' \in [Tabs -> Ballot \cup {Idle}]
    BY <2>1, TabTyped DEF Refuse, LoseAnswer
  <2>3. LimiterTypeOK'
    BY <2>1, LimiterRestTyped DEF Refuse, LoseAnswer, TypeOK
  <2>4. strayed' \subseteq Browsers
    BY <2>1 DEF Refuse, LoseAnswer, history, TypeOK, Ballot
  <2>5. QED
    BY <2>1, <2>2, <2>3, <2>4 DEF Refuse, LoseAnswer, history, TypeOK
<1>2. CASE \E b \in Browsers, a \in Accounts \cup {NoAccount} : SignInOrOut(b, a)
  <2>1. LimiterTypeOK'
    BY <1>2, LimiterRestTyped DEF SignInOrOut, TypeOK
  <2>2. QED
    BY <1>2, <2>1 DEF SignInOrOut, TypeOK
<1>3. CASE Restart
  <2>1. LimiterTypeOK'
    BY <1>3, LimiterRestTyped DEF Restart, TypeOK
  <2>2. QED
    BY <1>3, <2>1 DEF Restart, TypeOK
<1>4. CASE PassTime
  <2>1. LimiterTypeOK'
    BY <1>4, LimiterRestTyped DEF PassTime, TypeOK
  <2>2. QED
    BY <1>4, <2>1 DEF PassTime, browsing, history, TypeOK
<1>5. CASE UNCHANGED vars
  <2>1. LimiterTypeOK'
    BY <1>5, LimiterRestTyped DEF vars, TypeOK
  <2>2. QED
    BY <1>5, <2>1 DEF vars, browsing, history, TypeOK
<1>6. CASE \E k \in Networks : AdmitPasserby(k)
  <2>1. LimiterTypeOK'
    BY <1>6, LimiterStepTyped DEF AdmitPasserby, Allow, TypeOK
  <2>2. QED
    BY <1>6, <2>1 DEF AdmitPasserby, browsing, history, TypeOK
<1>7. CASE \E a \in Accounts, o \in Options : CastElsewhere(a, o)
  <2>1. LimiterTypeOK'
    BY <1>7, LimiterRestTyped DEF CastElsewhere, TypeOK
  <2>2. QED
    BY <1>7, <2>1 DEF CastElsewhere, browsing, TypeOK, Voters
<1>8. QED
  BY <1>1, <1>2, <1>3, <1>4, <1>5, <1>6, <1>7

-----------------------------------------------------------------------------
(***************************************************************************)
(* The inductive invariant.                                                *)
(***************************************************************************)

\* The one key there is signed every cookie.
Signed ==
  /\ secret = 1
  /\ \A b \in Browsers : jar[b] # NoCookie => jar[b].secret = 1
  /\ \A i \in Tabs : tab[i] # Idle =>
       /\ tab[i].cookie # NoCookie => tab[i].cookie.secret = 1
       /\ tab[i].set # NoCookie => tab[i].set.secret = 1

\* Voter v is b's: in its jar, on the way to or from the server, or counted.
Holds(b, v) ==
  \/ jar[b] # NoCookie /\ jar[b].token = v
  \/ \E i \in InFlight(b) :
       \/ tab[i].cookie # NoCookie /\ tab[i].cookie.token = v
       \/ tab[i].set # NoCookie /\ tab[i].set.token = v
  \/ v \in cast[b]

\* A token that a browser holds was drawn, and is no other browser's; an account
\* may be held by several.
Separate ==
  \A b \in Browsers, v \in Tokens : Holds(b, v) =>
    /\ v \in minted
    /\ \A c \in Browsers : Holds(c, v) => c = b

\* A browser without an identity yet.
New(b) == jar[b] = NoCookie /\ signedIn[b] = NoAccount

\* Who a browser is, its first answer still on the way included.
Identities(b) ==
  IF signedIn[b] # NoAccount THEN {signedIn[b]}
  ELSE IF jar[b] # NoCookie THEN {jar[b].token}
  ELSE {tab[i].set.token : i \in {j \in InFlight(b) : tab[j].set # NoCookie}}

\* The ballots of a browser that never changed identity carry the one it has.
Loyal(b) ==
  /\ \A i \in InFlight(b) :
       /\ tab[i].account = signedIn[b]
       /\ tab[i].cookie = jar[b]
       /\ tab[i].set # NoCookie <=> New(b) /\ tab[i].pc = "answered"
  /\ New(b) => \A i, j \in InFlight(b) : i = j
  /\ cast[b] \subseteq Identities(b)

\* The row of the account a browser is signed in to, else the rows of its voters,
\* hold the choice counted last.
Shown(b) ==
  IF signedIn[b] # NoAccount
  THEN latest[b] # NoVote => votes[signedIn[b]] = latest[b]
  ELSE /\ latest[b] # NoVote => cast[b] # {}
       /\ \A v \in cast[b] : votes[v] = latest[b]

IInv ==
  /\ TypeOK
  /\ Signed
  /\ Separate
  /\ \A b \in Browsers \ strayed : Loyal(b) /\ Shown(b)

LEMMA SetsDrawnHolds ==
  ASSUME TypeOK, Separate
  PROVE  SetsDrawn
<1>1. SUFFICES ASSUME NEW i \in Tabs, tab[i] # Idle, tab[i].set # NoCookie
               PROVE  tab[i].set.token \in minted
  BY DEF SetsDrawn
<1>2. tab[i] \in Ballot /\ tab[i].set.token \in Tokens
  BY <1>1 DEF TypeOK, Ballot, Cookie
<1>3. Holds(tab[i].browser, tab[i].set.token)
  BY <1>1 DEF Holds, InFlight
<1>4. QED
  BY <1>2, <1>3 DEF Separate, Ballot

LEMMA TypeStep ==
  ASSUME TypeOK, SetsDrawn, [Next]_vars
  PROVE  TypeOK'
<1>1. ASSUME NEW i \in Tabs, NEW b \in Browsers, NEW o \in Options, Submit(i, b, o)
      PROVE  TypeOK'
  BY <1>1, SubmitTyped
<1>2. ASSUME NEW i \in Tabs, Admit(i)
      PROVE  TypeOK'
  BY <1>2, AdmitTyped
<1>3. ASSUME NEW i \in Tabs, CastVote(i)
      PROVE  TypeOK'
  BY <1>3, CastVoteTyped
<1>4. ASSUME NEW i \in Tabs, Answer(i)
      PROVE  TypeOK'
  BY <1>4, AnswerTyped
<1>5. CASE \/ \E i \in Tabs : Refuse(i) \/ LoseAnswer(i)
           \/ \E b \in Browsers, a \in Accounts \cup {NoAccount} : SignInOrOut(b, a)
           \/ \E a \in Accounts, o \in Options : CastElsewhere(a, o)
           \/ Restart \/ PassTime \/ UNCHANGED vars
           \/ \E k \in Networks : AdmitPasserby(k)
  BY <1>5, QuietTyped
<1>6. QED
  BY <1>1, <1>2, <1>3, <1>4, <1>5 DEF Next

-----------------------------------------------------------------------------
(***************************************************************************)
(* Signed and Separate: identities do not mix.                             *)
(***************************************************************************)

LEMMA SignedStep ==
  ASSUME TypeOK, Signed, [Next]_vars
  PROVE  Signed'
<1>1. ASSUME NEW i \in Tabs, NEW b \in Browsers, NEW o \in Options, Submit(i, b, o)
      PROVE  Signed'
  BY <1>1 DEF Submit, Signed, TypeOK
<1>2. ASSUME NEW i \in Tabs, Admit(i)
      PROVE  Signed'
  BY <1>2 DEF Admit, Signed, TypeOK, Ballot
<1>3. ASSUME NEW i \in Tabs, CastVote(i)
      PROVE  Signed'
  <2>1. PICK voter \in Voters, set \in Cookie \cup {NoCookie} :
          /\ set = NoCookie \/ set = [token |-> voter, secret |-> secret]
          /\ tab' = [tab EXCEPT ![i] = [tab[i] EXCEPT !.pc = "answered", !.set = set]]
    BY <1>3, CastVoteShape
  <2>2. tab[i] \in Ballot /\ secret' = secret /\ jar' = jar
    BY <1>3, CastVoteShape DEF CastVote
  <2>3. tab[i] # Idle
    BY <2>2, BallotsAssumption
  <2>4. QED
    BY <2>1, <2>2, <2>3 DEF Signed, TypeOK, Ballot
<1>4. ASSUME NEW i \in Tabs, Answer(i)
      PROVE  Signed'
  BY <1>4 DEF Answer, Signed, TypeOK
<1>5. ASSUME NEW i \in Tabs, Refuse(i) \/ LoseAnswer(i)
      PROVE  Signed'
  BY <1>5 DEF Refuse, LoseAnswer, Signed, TypeOK
<1>6. CASE \/ \E b \in Browsers, a \in Accounts \cup {NoAccount} : SignInOrOut(b, a)
           \/ \E a \in Accounts, o \in Options : CastElsewhere(a, o)
           \/ PassTime \/ UNCHANGED vars
           \/ \E k \in Networks : AdmitPasserby(k)
  BY <1>6 DEF SignInOrOut, PassTime, vars, browsing, AdmitPasserby, CastElsewhere, Signed
<1>7. CASE Restart
  BY <1>7 DEF Restart, Signed, TypeOK
<1>8. QED
  BY <1>1, <1>2, <1>3, <1>4, <1>5, <1>6, <1>7 DEF Next

\* Only a counted or rejected ballot gives a browser a voter to hold.
LEMMA OthersHoldLess ==
  ASSUME TypeOK, [Next]_vars, \A i \in Tabs : ~CastVote(i),
         NEW b \in Browsers, NEW v \in Voters, Holds(b, v)'
  PROVE  Holds(b, v) /\ minted' = minted
<1>1. ASSUME NEW i \in Tabs, NEW c \in Browsers, NEW o \in Options, Submit(i, c, o)
      PROVE  Holds(b, v)
  BY <1>1 DEF Submit, Holds, InFlight, TypeOK
<1>2. ASSUME NEW i \in Tabs, Admit(i)
      PROVE  Holds(b, v)
  BY <1>2 DEF Admit, Holds, InFlight, TypeOK, history, Ballot
<1>3. ASSUME NEW i \in Tabs, Answer(i)
      PROVE  Holds(b, v)
  BY <1>3 DEF Answer, Holds, InFlight, TypeOK, history, Ballot
<1>4. ASSUME NEW i \in Tabs, Refuse(i) \/ LoseAnswer(i)
      PROVE  Holds(b, v)
  BY <1>4 DEF Refuse, LoseAnswer, Holds, InFlight, TypeOK, history
<1>5. CASE \/ \E c \in Browsers, a \in Accounts \cup {NoAccount} : SignInOrOut(c, a)
           \/ \E a \in Accounts, o \in Options : CastElsewhere(a, o)
           \/ PassTime \/ UNCHANGED vars
           \/ \E k \in Networks : AdmitPasserby(k)
  BY <1>5 DEF SignInOrOut, PassTime, vars, browsing, history, AdmitPasserby, CastElsewhere,
              Holds, InFlight
<1>6. CASE Restart
  BY <1>6 DEF Restart, Holds, InFlight, TypeOK
<1>7. minted' = minted
  BY DEF Next, Submit, Admit, Answer, Refuse, LoseAnswer, SignInOrOut, PassTime, vars,
         AdmitPasserby, CastElsewhere, Restart
<1>8. QED
  BY <1>1, <1>2, <1>3, <1>4, <1>5, <1>6, <1>7 DEF Next

\* Whose row a ballot writes: its account's, or that of a token its browser held or
\* the server just drew.
RowOf(x, voter) ==
  IF x.account # NoAccount
  THEN voter = x.account
  ELSE voter \in Tokens /\ (Holds(x.browser, voter) \/ voter \notin minted)

\* A counted or rejected ballot gives its own browser one voter.
LEMMA CastVoteHolds ==
  ASSUME TypeOK, NEW i \in Tabs, CastVote(i)
  PROVE  \E voter \in Voters :
           /\ RowOf(tab[i], voter)
           /\ minted' = minted \cup ({voter} \cap Tokens)
           /\ Count(tab[i], voter)
           /\ \A b \in Browsers, v \in Voters : Holds(b, v)' =>
                Holds(b, v) \/ (b = tab[i].browser /\ v = voter)
<1>1. PICK voter \in Voters, set \in Cookie \cup {NoCookie} :
        /\ \/ voter \in ExistingVoter(tab[i]) /\ set = NoCookie
           \/ /\ ExistingVoter(tab[i]) = {} /\ voter \in Tokens \ minted
              /\ set = [token |-> voter, secret |-> secret]
        /\ minted' = minted \cup ({voter} \cap Tokens)
        /\ tab' = [tab EXCEPT ![i] = [tab[i] EXCEPT !.pc = "answered", !.set = set]]
        /\ Count(tab[i], voter)
  BY CastVoteShape
<1>2. tab[i] \in Ballot /\ tab[i] # Idle
  BY CastVoteShape, BallotsAssumption
<1>3. RowOf(tab[i], voter)
  <2>1. CASE tab[i].account # NoAccount
    BY <1>1, <2>1 DEF RowOf, ExistingVoter
  <2>2. CASE tab[i].account = NoAccount /\ voter \in Tokens \ minted
    BY <2>2 DEF RowOf
  <2>3. CASE tab[i].account = NoAccount /\ voter \in ExistingVoter(tab[i])
    <3>1. tab[i].cookie # NoCookie /\ voter = tab[i].cookie.token
      BY <2>3 DEF ExistingVoter
    <3>2. tab[i].cookie \in Cookie
      BY <1>2, <3>1 DEF Ballot
    <3>3. voter \in Tokens
      BY <3>1, <3>2 DEF Cookie
    <3>4. Holds(tab[i].browser, voter)
      BY <1>2, <3>1 DEF Holds, InFlight
    <3>5. QED
      BY <2>3, <3>3, <3>4 DEF RowOf
  <2>4. QED
    BY <1>1, <2>1, <2>2, <2>3
<1>4. ASSUME NEW b \in Browsers, NEW v \in Voters, Holds(b, v)'
      PROVE  Holds(b, v) \/ (b = tab[i].browser /\ v = voter)
  <2>1. CASE jar'[b] # NoCookie /\ jar'[b].token = v
    BY <2>1 DEF CastVote, Holds
  <2>2. ASSUME NEW j \in Tabs, tab'[j] # Idle, tab'[j].browser = b,
               \/ tab'[j].cookie # NoCookie /\ tab'[j].cookie.token = v
               \/ tab'[j].set # NoCookie /\ tab'[j].set.token = v
        PROVE  Holds(b, v) \/ (b = tab[i].browser /\ v = voter)
    <3>1. CASE j # i
      BY <1>1, <2>2, <3>1 DEF Holds, InFlight, TypeOK
    <3>2. CASE j = i
      <4>1. tab'[i] = [tab[i] EXCEPT !.pc = "answered", !.set = set]
        BY <1>1 DEF TypeOK
      <4>2. /\ tab'[i].browser = tab[i].browser /\ tab'[i].cookie = tab[i].cookie
            /\ tab'[i].set = set
        BY <1>2, <4>1 DEF Ballot
      <4>3. QED
        BY <1>1, <1>2, <2>2, <3>2, <4>2 DEF Holds, InFlight
    <3>3. QED
      BY <3>1, <3>2
  <2>3. CASE v \in cast'[b]
    BY <1>1, <1>2, <2>3 DEF Count, Holds, TypeOK, Ballot
  <2>4. QED
    BY <1>4, <2>1, <2>2, <2>3 DEF Holds, InFlight
<1>5. QED
  BY <1>1, <1>3, <1>4

LEMMA SeparateStep ==
  ASSUME TypeOK, Separate, [Next]_vars
  PROVE  Separate'
<1>1. CASE \A i \in Tabs : ~CastVote(i)
  <2>1. SUFFICES ASSUME NEW b \in Browsers, NEW v \in Tokens, Holds(b, v)'
                 PROVE  /\ v \in minted'
                        /\ \A c \in Browsers : Holds(c, v)' => c = b
    BY DEF Separate
  <2>2. Holds(b, v) /\ minted' = minted
    BY <1>1, <2>1, OthersHoldLess DEF Voters
  <2>3. \A c \in Browsers : Holds(c, v)' => Holds(c, v)
    BY <1>1, OthersHoldLess DEF Voters
  <2>4. QED
    BY <2>2, <2>3 DEF Separate
<1>2. ASSUME NEW i \in Tabs, CastVote(i)
      PROVE  Separate'
  <2> DEFINE own == tab[i].browser
  <2>1. PICK voter \in Voters :
          /\ RowOf(tab[i], voter)
          /\ minted' = minted \cup ({voter} \cap Tokens)
          /\ \A b \in Browsers, v \in Voters : Holds(b, v)' =>
               Holds(b, v) \/ (b = own /\ v = voter)
    BY <1>2, CastVoteHolds
  <2>2. own \in Browsers /\ tab[i] \in Ballot
    BY <1>2, CastVoteShape DEF Ballot
  <2>3. voter \in Tokens => Holds(own, voter) \/ voter \notin minted
    BY <2>1, <2>2, BallotsAssumption DEF RowOf, Ballot
  <2> HIDE DEF own
  <2>4. ASSUME NEW b \in Browsers, NEW v \in Tokens, Holds(b, v)'
        PROVE  Holds(b, v) \/ (b = own /\ v = voter)
    BY <2>1, <2>4 DEF Voters
  <2>5. ASSUME NEW b \in Browsers, NEW v \in Tokens, Holds(b, v)
        PROVE  v \in minted /\ \A c \in Browsers : Holds(c, v) => c = b
    BY <2>5 DEF Separate
  <2>6. ASSUME NEW b \in Browsers, NEW v \in Tokens, Holds(b, v)'
        PROVE  v \in minted'
    BY <2>1, <2>4, <2>5, <2>6
  <2>7. ASSUME NEW c \in Browsers, voter \in Tokens, Holds(c, voter)
        PROVE  c = own
    BY <2>2, <2>3, <2>5, <2>7
  <2>8. ASSUME NEW b \in Browsers, NEW c \in Browsers, NEW v \in Tokens,
               Holds(b, v)', Holds(c, v)'
        PROVE  c = b
    BY <2>4, <2>5, <2>7, <2>8
  <2>9. QED
    BY <2>6, <2>8 DEF Separate
<1>3. QED
  BY <1>1, <1>2

-----------------------------------------------------------------------------
(***************************************************************************)
(* Loyal and Shown: a browser that kept its identity.                      *)
(***************************************************************************)

LEMMA LoyalSubmit ==
  ASSUME TypeOK, NEW i \in Tabs, NEW a \in Browsers, NEW o \in Options, Submit(i, a, o),
         NEW b \in Browsers \ strayed', Loyal(b)
  PROVE  Loyal(b)'
<1> DEFINE x == [browser |-> a, cookie |-> jar[a], account |-> signedIn[a], option |-> o,
                 pc |-> "sent", set |-> NoCookie]
<1>1. tab'[i] = x /\ \A j \in Tabs : j # i => tab'[j] = tab[j]
  BY DEF Submit, TypeOK
<1>2. /\ x.browser = a /\ x.cookie = jar[a] /\ x.account = signedIn[a]
      /\ x.pc = "sent" /\ x.set = NoCookie
  OBVIOUS
<1>3. jar' = jar /\ signedIn' = signedIn /\ cast' = cast /\ tab[i] = Idle
  BY DEF Submit
<1> HIDE DEF x
<1>4. InFlight(b)' \subseteq InFlight(b) \cup {i} /\ i \notin InFlight(b)
  BY <1>1, <1>3 DEF InFlight
<1>5. InFlight(b) \subseteq InFlight(b)' /\ (i \in InFlight(b)' => a = b)
  BY <1>1, <1>2, <1>3 DEF InFlight
<1>6. ASSUME NEW j \in InFlight(b)'
      PROVE  /\ tab'[j].account = signedIn[b]
             /\ tab'[j].cookie = jar[b]
             /\ tab'[j].set # NoCookie <=> New(b) /\ tab'[j].pc = "answered"
  <2>1. CASE j = i
    BY <1>1, <1>2, <1>5, <1>6, <2>1
  <2>2. CASE j # i
    BY <1>1, <1>4, <1>6, <2>2 DEF Loyal, InFlight
  <2>3. QED
    BY <2>1, <2>2
<1>7. ASSUME New(b), NEW j \in InFlight(b)', NEW k \in InFlight(b)'
      PROVE  j = k
  <2>1. CASE i \in InFlight(b)'
    <3>1. FirstBallots(b) = {}
      BY <1>5, <1>7, <2>1 DEF Submit, New
    <3>2. InFlight(b) = {}
      BY <1>7, <3>1 DEF FirstBallots, Loyal, New
    <3>3. QED
      BY <1>4, <1>7, <3>2
  <2>2. CASE i \notin InFlight(b)'
    BY <1>4, <1>7, <2>2 DEF Loyal
  <2>3. QED
    BY <2>1, <2>2
<1>8. Identities(b) \subseteq Identities(b)'
  BY <1>1, <1>3, <1>4, <1>5 DEF Identities, InFlight
<1>9. QED
  BY <1>3, <1>6, <1>7, <1>8 DEF Loyal, New

LEMMA LoyalAdmit ==
  ASSUME TypeOK, NEW i \in Tabs, Admit(i), NEW b \in Browsers \ strayed', Loyal(b)
  PROVE  Loyal(b)'
<1>1. tab[i] \in Ballot /\ tab[i] # Idle /\ tab[i].pc = "sent"
  BY DEF Admit, TypeOK
<1>2. /\ tab'[i] = [tab[i] EXCEPT !.pc = "admitted"]
      /\ \A j \in Tabs : j # i => tab'[j] = tab[j]
  BY DEF Admit, TypeOK
<1>3. /\ tab'[i].browser = tab[i].browser /\ tab'[i].account = tab[i].account
      /\ tab'[i].cookie = tab[i].cookie /\ tab'[i].set = tab[i].set
      /\ tab'[i].pc = "admitted" /\ tab'[i] # Idle
  <2>1. tab'[i] \in Ballot
    BY <1>1, <1>2 DEF Ballot
  <2>2. QED
    BY <1>1, <1>2, <2>1, BallotsAssumption DEF Ballot
<1>4. /\ jar' = jar /\ signedIn' = signedIn /\ cast' = cast
      /\ \A j \in Tabs : j # i => tab'[j] = tab[j]
  BY <1>2 DEF Admit, history
<1>5. InFlight(b)' = InFlight(b)
  BY <1>1, <1>3, <1>4 DEF InFlight
<1>6. Identities(b)' = Identities(b)
  <2>1. \A j \in InFlight(b) : tab'[j].set = tab[j].set
    BY <1>3, <1>4 DEF InFlight
  <2>2. QED
    BY <1>4, <1>5, <2>1 DEF Identities
<1>7. ASSUME NEW j \in InFlight(b)
      PROVE  /\ tab'[j].account = signedIn[b]
             /\ tab'[j].cookie = jar[b]
             /\ tab'[j].set # NoCookie <=> New(b) /\ tab'[j].pc = "answered"
  <2>1. CASE j = i
    BY <1>1, <1>3, <1>7, <2>1 DEF Loyal
  <2>2. CASE j # i
    BY <1>4, <1>7, <2>2 DEF Loyal, InFlight
  <2>3. QED
    BY <2>1, <2>2
<1>8. QED
  BY <1>4, <1>5, <1>6, <1>7 DEF Loyal, New

LEMMA LoyalCastVote ==
  ASSUME TypeOK, Signed, NEW i \in Tabs, CastVote(i), NEW b \in Browsers \ strayed', Loyal(b)
  PROVE  /\ Loyal(b)'
         /\ tab[i].browser = b => \E voter \in Identities(b)' :
              /\ Identities(b)' = {voter}
              /\ Count(tab[i], voter)
<1>1. PICK voter \in Voters, set \in Cookie \cup {NoCookie} :
        /\ \/ voter \in ExistingVoter(tab[i]) /\ set = NoCookie
           \/ /\ voter \in Tokens \ minted
              /\ ExistingVoter(tab[i]) = {}
              /\ set = [token |-> voter, secret |-> secret]
        /\ tab' = [tab EXCEPT ![i] = [tab[i] EXCEPT !.pc = "answered", !.set = set]]
        /\ Count(tab[i], voter)
  BY CastVoteShape
<1>2. tab[i] \in Ballot /\ tab[i] # Idle /\ tab[i].pc = "admitted"
  BY CastVoteShape, BallotsAssumption
<1>3. /\ tab'[i] = [tab[i] EXCEPT !.pc = "answered", !.set = set]
      /\ \A j \in Tabs : j # i => tab'[j] = tab[j]
  BY <1>1 DEF TypeOK
<1>4. /\ tab'[i].browser = tab[i].browser /\ tab'[i].account = tab[i].account
      /\ tab'[i].cookie = tab[i].cookie /\ tab'[i].set = set
      /\ tab'[i].pc = "answered" /\ tab'[i] # Idle
  <2>1. tab'[i] \in Ballot
    BY <1>2, <1>3 DEF Ballot
  <2>2. QED
    BY <1>2, <1>3, <2>1, BallotsAssumption DEF Ballot
<1>5. jar' = jar /\ signedIn' = signedIn /\ secret = 1
  BY DEF CastVote, Signed
<1>6. InFlight(b)' = InFlight(b)
  BY <1>2, <1>3, <1>4 DEF InFlight
<1>7. CASE tab[i].browser # b
  <2>1. cast'[b] = cast[b]
    BY <1>1, <1>2, <1>7 DEF Count, TypeOK, Ballot
  <2>2. \A j \in InFlight(b) : tab'[j] = tab[j]
    BY <1>3, <1>7 DEF InFlight
  <2>3. Identities(b)' = Identities(b)
    BY <1>5, <1>6, <2>2 DEF Identities
  <2>4. QED
    BY <1>5, <1>6, <1>7, <2>1, <2>2, <2>3 DEF Loyal, New
<1>8. CASE tab[i].browser = b
  <2>1. i \in InFlight(b)
    BY <1>2, <1>8 DEF InFlight
  <2>2. /\ tab[i].account = signedIn[b]
        /\ tab[i].cookie = jar[b]
        /\ tab[i].set = NoCookie
    BY <1>2, <2>1 DEF Loyal
  <2>3. cast'[b] \subseteq cast[b] \cup {voter}
    BY <1>1, <1>2, <1>8 DEF Count, TypeOK, Ballot
  <2>4. CASE New(b)
    <3>1. ExistingVoter(tab[i]) = {}
      BY <2>2, <2>4 DEF ExistingVoter, New
    <3>2. set = [token |-> voter, secret |-> secret] /\ set \in Cookie
      BY <1>1, <1>5, <3>1 DEF Cookie, Secrets
    <3>3. set # NoCookie /\ set.token = voter
      BY <3>2, BallotsAssumption
    <3>4. InFlight(b) = {i}
      BY <2>1, <2>4 DEF Loyal
    <3>5. Identities(b)' = {voter}
      BY <1>4, <1>5, <1>6, <2>4, <3>3, <3>4 DEF Identities, New
    <3>6. cast[b] = {}
      BY <2>2, <2>4, <3>4 DEF Loyal, Identities, New
    <3>7. QED
      BY <1>1, <1>4, <1>5, <1>6, <2>2, <2>3, <2>4, <3>3, <3>4, <3>5, <3>6 DEF Loyal, New
  <2>5. CASE ~New(b)
    <3>1. /\ ExistingVoter(tab[i]) = Identities(b)
          /\ Identities(b) = IF signedIn[b] # NoAccount THEN {signedIn[b]} ELSE {jar[b].token}
      BY <1>5, <1>8, <2>2, <2>5 DEF ExistingVoter, Identities, New, Signed
    <3>2. voter \in Identities(b) /\ set = NoCookie /\ Identities(b) = {voter}
      BY <1>1, <3>1
    <3>3. Identities(b)' = Identities(b)
      BY <1>5, <2>5 DEF Identities, New
    <3>4. ASSUME NEW j \in InFlight(b)
          PROVE  /\ tab'[j].account = signedIn[b]
                 /\ tab'[j].cookie = jar[b]
                 /\ tab'[j].set = NoCookie
      BY <1>3, <1>4, <2>2, <2>5, <3>2, <3>4 DEF Loyal, InFlight
    <3>5. cast'[b] \subseteq Identities(b)'
      BY <2>3, <3>2, <3>3 DEF Loyal
    <3>6. QED
      BY <1>1, <1>5, <1>6, <2>5, <3>2, <3>3, <3>4, <3>5 DEF Loyal, New
  <2>6. QED
    BY <2>4, <2>5
<1>9. QED
  BY <1>7, <1>8

LEMMA LoyalAnswer ==
  ASSUME TypeOK, NEW i \in Tabs, Answer(i), NEW b \in Browsers \ strayed', Loyal(b)
  PROVE  Loyal(b)'
<1>1. tab[i] \in Ballot /\ tab[i] # Idle /\ tab[i].pc = "answered"
  BY DEF Answer, TypeOK
<1>2. tab'[i] = Idle /\ \A j \in Tabs : j # i => tab'[j] = tab[j]
  BY DEF Answer, TypeOK
<1>3. signedIn' = signedIn /\ cast' = cast
  BY DEF Answer, history
<1>4. InFlight(b)' = InFlight(b) \ {i}
  BY <1>2 DEF InFlight
<1>5. CASE tab[i].browser = b /\ tab[i].set # NoCookie
  <2>1. i \in InFlight(b) /\ New(b)
    BY <1>1, <1>5 DEF Loyal, InFlight
  <2>2. InFlight(b) = {i} /\ InFlight(b)' = {}
    BY <1>4, <2>1 DEF Loyal
  <2>3. jar'[b] = tab[i].set
    BY <1>5 DEF Answer, TypeOK
  <2>4. Identities(b) = {tab[i].set.token} /\ Identities(b)' = {tab[i].set.token}
    BY <1>3, <1>5, <2>1, <2>2, <2>3 DEF Identities, New
  <2>5. QED
    BY <1>3, <1>5, <2>2, <2>3, <2>4 DEF Loyal, New
<1>6. CASE ~(tab[i].browser = b /\ tab[i].set # NoCookie)
  <2>1. jar'[b] = jar[b]
    BY <1>1, <1>6 DEF Answer, TypeOK, Ballot
  <2>2. \A j \in InFlight(b)' : tab'[j] = tab[j] /\ j \in InFlight(b)
    BY <1>2, <1>4 DEF InFlight
  <2>3. {j \in InFlight(b) : tab[j].set # NoCookie}
          = {j \in InFlight(b)' : tab'[j].set # NoCookie}
    BY <1>4, <1>6, <2>2 DEF InFlight
  <2>4. Identities(b)' = Identities(b)
    BY <1>3, <2>1, <2>2, <2>3 DEF Identities
  <2>5. QED
    BY <1>3, <2>1, <2>2, <2>4 DEF Loyal, New
<1>7. QED
  BY <1>5, <1>6

LEMMA LoyalQuiet ==
  ASSUME TypeOK, NEW b \in Browsers \ strayed', Loyal(b),
         \/ \E i \in Tabs : Refuse(i) \/ LoseAnswer(i)
         \/ \E c \in Browsers, a \in Accounts \cup {NoAccount} : SignInOrOut(c, a)
         \/ \E a \in Accounts, o \in Options : CastElsewhere(a, o)
         \/ Restart \/ PassTime \/ UNCHANGED vars
         \/ \E k \in Networks : AdmitPasserby(k)
  PROVE  Loyal(b)'
<1>1. ASSUME NEW i \in Tabs, Refuse(i) \/ LoseAnswer(i)
      PROVE  Loyal(b)'
  <2>1. tab[i] \in Ballot /\ tab[i] # Idle
    BY <1>1 DEF Refuse, LoseAnswer, TypeOK
  <2>2. tab'[i] = Idle /\ \A j \in Tabs : j # i => tab'[j] = tab[j]
    BY <1>1 DEF Refuse, LoseAnswer, TypeOK
  <2>3. jar' = jar /\ signedIn' = signedIn /\ cast' = cast
    BY <1>1 DEF Refuse, LoseAnswer, history
  <2>4. InFlight(b)' = InFlight(b) \ {i}
    BY <2>2 DEF InFlight
  <2>5. i \in InFlight(b) => tab[i].set = NoCookie
    BY <1>1, <2>1 DEF Refuse, LoseAnswer, Loyal, InFlight, Ballot
  <2>6. \A j \in InFlight(b)' : tab'[j] = tab[j] /\ j \in InFlight(b)
    BY <2>2, <2>4 DEF InFlight
  <2>7. {j \in InFlight(b) : tab[j].set # NoCookie}
          = {j \in InFlight(b)' : tab'[j].set # NoCookie}
    BY <2>4, <2>5, <2>6
  <2>8. Identities(b)' = Identities(b)
    BY <2>3, <2>6, <2>7 DEF Identities
  <2>9. QED
    BY <2>3, <2>6, <2>8 DEF Loyal, New
<1>2. ASSUME NEW c \in Browsers, NEW a \in Accounts \cup {NoAccount}, SignInOrOut(c, a)
      PROVE  Loyal(b)'
  <2>1. b # c /\ signedIn'[b] = signedIn[b]
    BY <1>2 DEF SignInOrOut, TypeOK
  <2>2. jar' = jar /\ tab' = tab /\ cast' = cast
    BY <1>2 DEF SignInOrOut
  <2>3. QED
    BY <2>1, <2>2 DEF Loyal, New, Identities, InFlight
<1>3. CASE Restart
  <2>1. jar' = jar /\ signedIn' = signedIn /\ cast' = cast /\ InFlight(b)' = {}
    BY <1>3 DEF Restart, InFlight
  <2>2. cast[b] \subseteq Identities(b)'
    <3>1. CASE New(b)
      <4>1. FirstBallots(b) = {}
        BY <1>3 DEF Restart
      <4>2. InFlight(b) = {}
        BY <3>1, <4>1 DEF Loyal, FirstBallots, New
      <4>3. Identities(b) = {}
        BY <3>1, <4>2 DEF Identities, New
      <4>4. QED
        BY <4>3 DEF Loyal
    <3>2. CASE ~New(b)
      BY <2>1, <3>2 DEF Loyal, Identities, New
    <3>3. QED
      BY <3>1, <3>2
  <2>3. QED
    BY <2>1, <2>2 DEF Loyal
<1>4. CASE \/ PassTime \/ UNCHANGED vars
           \/ \E k \in Networks : AdmitPasserby(k)
           \/ \E a \in Accounts, o \in Options : CastElsewhere(a, o)
  <2>1. jar' = jar /\ signedIn' = signedIn /\ tab' = tab /\ cast' = cast
    BY <1>4 DEF PassTime, vars, AdmitPasserby, CastElsewhere, browsing, history
  <2>2. QED
    BY <2>1 DEF Loyal, New, Identities, InFlight
<1>5. QED
  BY <1>1, <1>2, <1>3, <1>4

LEMMA LoyalStep ==
  ASSUME TypeOK, Signed, [Next]_vars, NEW b \in Browsers \ strayed', Loyal(b)
  PROVE  Loyal(b)'
<1>1. ASSUME NEW i \in Tabs, NEW c \in Browsers, NEW o \in Options, Submit(i, c, o)
      PROVE  Loyal(b)'
  BY <1>1, LoyalSubmit
<1>2. ASSUME NEW i \in Tabs, Admit(i)
      PROVE  Loyal(b)'
  BY <1>2, LoyalAdmit
<1>3. ASSUME NEW i \in Tabs, CastVote(i)
      PROVE  Loyal(b)'
  BY <1>3, LoyalCastVote
<1>4. ASSUME NEW i \in Tabs, Answer(i)
      PROVE  Loyal(b)'
  BY <1>4, LoyalAnswer
<1>5. CASE \/ \E i \in Tabs : Refuse(i) \/ LoseAnswer(i)
           \/ \E c \in Browsers, a \in Accounts \cup {NoAccount} : SignInOrOut(c, a)
           \/ \E a \in Accounts, o \in Options : CastElsewhere(a, o)
           \/ Restart \/ PassTime \/ UNCHANGED vars
           \/ \E k \in Networks : AdmitPasserby(k)
  BY <1>5, LoyalQuiet
<1>6. QED
  BY <1>1, <1>2, <1>3, <1>4, <1>5 DEF Next

\* A browser that is not signed in is counted under tokens.
LEMMA AnonymousCast ==
  ASSUME TypeOK, NEW b \in Browsers, Loyal(b), signedIn[b] = NoAccount
  PROVE  cast[b] \subseteq Tokens
<1>1. \A i \in InFlight(b) : tab[i].set # NoCookie => tab[i].set.token \in Tokens
  BY DEF InFlight, TypeOK, Ballot, Cookie
<1>2. jar[b] # NoCookie => jar[b].token \in Tokens
  BY DEF TypeOK, Cookie
<1>3. QED
  BY <1>1, <1>2 DEF Loyal, Identities

\* A row written for an account is seen on the browsers signed in to it; a row
\* written for a token is the token's browser's alone.
LEMMA ShownStep ==
  ASSUME TypeOK, Signed, Separate, [Next]_vars,
         NEW b \in Browsers \ strayed', Loyal(b), Shown(b)
  PROVE  Shown(b)'
<1>0. signedIn'[b] = signedIn[b]
  BY DEF Next, Submit, Admit, CastVote, Answer, Refuse, LoseAnswer, SignInOrOut, PassTime, vars,
         browsing, AdmitPasserby, CastElsewhere, Restart, TypeOK
<1>1. CASE votes' = votes /\ cast' = cast /\ latest' = latest
  BY <1>0, <1>1 DEF Shown
<1>2. ASSUME NEW a \in Accounts, NEW o \in Options, CastElsewhere(a, o)
      PROVE  Shown(b)'
  <2>1. /\ votes' = [votes EXCEPT ![a] = o] /\ cast' = cast
        /\ latest'[b] = IF signedIn[b] = a THEN o ELSE latest[b]
    BY <1>2 DEF CastElsewhere
  <2>2. CASE signedIn[b] # NoAccount
    BY <1>0, <2>1, <2>2 DEF Shown, TypeOK, Voters
  <2>3. CASE signedIn[b] = NoAccount
    <3>1. cast[b] \subseteq Tokens
      BY <2>3, AnonymousCast
    <3>2. latest'[b] = latest[b] /\ \A v \in cast[b] : votes'[v] = votes[v]
      BY <2>1, <2>3, <3>1, BallotsAssumption DEF TypeOK
    <3>3. QED
      BY <1>0, <2>1, <2>3, <3>2 DEF Shown
  <2>4. QED
    BY <2>2, <2>3
<1>3. ASSUME NEW i \in Tabs, CastVote(i), ~(votes' = votes /\ cast' = cast /\ latest' = latest)
      PROVE  Shown(b)'
  <2> DEFINE own == tab[i].browser
             account == tab[i].account
             option == tab[i].option
  <2>1. /\ own \in Browsers /\ option \in Options /\ account \in Accounts \cup {NoAccount}
        /\ tab[i] # Idle /\ tab[i] \in Ballot
    BY <1>3, CastVoteShape, BallotsAssumption DEF Ballot
  <2>2. PICK voter \in Voters : RowOf(tab[i], voter) /\ Count(tab[i], voter)
    BY <1>3, CastVoteHolds
  <2>3. /\ votes' = [votes EXCEPT ![voter] = option]
        /\ cast' = [cast EXCEPT ![own] = @ \cup {voter}]
        /\ latest'[b] = IF b = own \/ (account # NoAccount /\ signedIn[b] = account)
                        THEN option ELSE latest[b]
    BY <1>3, <2>2 DEF Count, SameVisitor
  <2>4. own = b => account = signedIn[b]
    BY <2>1 DEF Loyal, InFlight
  <2>5. CASE signedIn[b] # NoAccount
    <3>1. signedIn[b] \in Accounts /\ signedIn[b] \in Voters
      BY <2>5 DEF TypeOK, Voters
    <3>2. voter = signedIn[b] <=> account = signedIn[b]
      BY <2>1, <2>2, <2>5, <3>1, BallotsAssumption DEF RowOf
    <3>3. QED
      BY <1>0, <2>3, <2>4, <2>5, <3>1, <3>2 DEF Shown, TypeOK
  <2>6. CASE signedIn[b] = NoAccount /\ own # b
    <3>1. cast[b] \subseteq Tokens
      BY <2>6, AnonymousCast
    <3>2. voter \notin cast[b]
      <4>1. ASSUME voter \in cast[b]
            PROVE  FALSE
        <5>1. voter \in Tokens /\ Holds(b, voter)
          BY <3>1, <4>1 DEF Holds
        <5>2. voter \in minted /\ (Holds(own, voter) => own = b)
          BY <2>1, <5>1 DEF Separate
        <5>3. QED
          BY <2>1, <2>2, <2>6, <5>1, <5>2, BallotsAssumption DEF RowOf
      <4>2. QED
        BY <4>1
    <3>3. cast'[b] = cast[b] /\ latest'[b] = latest[b]
      BY <2>1, <2>3, <2>6 DEF TypeOK
    <3>4. \A v \in cast[b] : votes'[v] = votes[v]
      BY <2>3, <3>2 DEF TypeOK
    <3>5. QED
      BY <1>0, <2>6, <3>3, <3>4 DEF Shown
  <2>7. CASE signedIn[b] = NoAccount /\ own = b
    <3>1. PICK u \in Identities(b)' : Identities(b)' = {u} /\ Count(tab[i], u)
      BY <1>3, <2>7, LoyalCastVote
    <3>2. cast'[b] \subseteq {u}
      BY <1>3, <3>1, LoyalCastVote DEF Loyal
    <3>3. /\ votes' = [votes EXCEPT ![u] = option]
          /\ cast' = [cast EXCEPT ![own] = @ \cup {u}]
      BY <1>3, <3>1 DEF Count
    <3>4. cast'[b] = cast[b] \cup {u} /\ latest'[b] = option
      BY <2>3, <2>7, <3>3 DEF TypeOK
    <3>5. u \in Voters
      BY <3>4, <1>3, CastVoteTyped DEF TypeOK
    <3>6. votes'[u] = option
      BY <3>3, <3>5 DEF TypeOK
    <3> HIDE DEF own, option, account
    <3>7. QED
      BY <1>0, <2>7, <3>2, <3>4, <3>6 DEF Shown
  <2>8. QED
    BY <2>5, <2>6, <2>7
<1>4. \/ votes' = votes /\ cast' = cast /\ latest' = latest
      \/ \E i \in Tabs : CastVote(i)
      \/ \E a \in Accounts, o \in Options : CastElsewhere(a, o)
  BY DEF Next, Submit, Admit, Answer, Refuse, LoseAnswer, SignInOrOut, PassTime, vars,
         history, AdmitPasserby, Restart
<1>5. QED
  BY <1>1, <1>2, <1>3, <1>4

-----------------------------------------------------------------------------
(***************************************************************************)
(* The theorems.                                                           *)
(***************************************************************************)

LEMMA InitIInv ==
  Init => IInv
<1>1. SUFFICES ASSUME Init
               PROVE  IInv
  OBVIOUS
<1>2. 1 \in Secrets
  BY DEF Secrets
<1>3. LimiterTypeOK
  BY <1>1, LimiterInitTyped DEF Init
<1>4. TypeOK
  BY <1>1, <1>2, <1>3 DEF Init, TypeOK
<1>5. Signed
  BY <1>1 DEF Init, Signed
<1>6. \A b \in Browsers : InFlight(b) = {} /\ jar[b] = NoCookie /\ cast[b] = {} /\ latest[b] = NoVote
  BY <1>1 DEF Init, InFlight
<1>7. Separate
  BY <1>6 DEF Separate, Holds
<1>8. \A b \in Browsers : Loyal(b) /\ Shown(b)
  BY <1>6 DEF Loyal, Shown
<1>9. QED
  BY <1>4, <1>5, <1>7, <1>8 DEF IInv

LEMMA NextIInv ==
  IInv /\ [Next]_vars => IInv'
<1>1. SUFFICES ASSUME IInv, [Next]_vars
               PROVE  IInv'
  OBVIOUS
<1>2. TypeOK /\ Signed /\ Separate
  BY <1>1 DEF IInv
<1>3. TypeOK'
  BY <1>1, <1>2, SetsDrawnHolds, TypeStep
<1>4. Signed' /\ Separate'
  BY <1>1, <1>2, SignedStep, SeparateStep
<1>5. strayed \subseteq strayed'
  BY <1>1 DEF Next, Submit, Admit, CastVote, Answer, Refuse, LoseAnswer, SignInOrOut, PassTime,
              vars, history, AdmitPasserby, CastElsewhere, Restart
<1>6. ASSUME NEW b \in Browsers \ strayed'
      PROVE  Loyal(b)' /\ Shown(b)'
  <2>1. Loyal(b) /\ Shown(b)
    BY <1>1, <1>5 DEF IInv
  <2>2. QED
    BY <1>1, <1>2, <2>1, LoyalStep, ShownStep
<1>7. QED
  BY <1>3, <1>4, <1>6 DEF IInv

\* What a browser, its ballots in flight and its rows know of one another stays
\* true until it strays.
THEOREM Invariant ==
  Spec => []IInv
<1>1. Init => IInv
  BY InitIInv
<1>2. IInv /\ [Next]_vars => IInv'
  BY NextIInv
<1>3. QED
  BY <1>1, <1>2, PTL DEF Spec

\* The throttle, the cookies and the rows keep their shapes, and whatever a
\* cookie names was drawn.
THEOREM TypeCorrect ==
  Spec => []TypeOK
<1>1. IInv => TypeOK
  BY DEF IInv
<1>2. QED
  BY <1>1, Invariant, PTL

\* A browser that kept its identity is one voter, however its ballots, the
\* server's answers, restarts and everybody else's ballots interleave.
THEOREM OneVoterPerBrowser ==
  Spec => []OneChoicePerBrowser
<1>1. IInv => OneChoicePerBrowser
  <2>1. SUFFICES ASSUME IInv, NEW b \in Browsers \ strayed
                 PROVE  Cardinality(cast[b]) <= 1
    BY DEF OneChoicePerBrowser
  <2>2. Loyal(b)
    BY <2>1 DEF IInv
  <2>3. \E v : cast[b] \subseteq {v}
    <3>1. CASE ~New(b)
      BY <2>2, <3>1 DEF Loyal, Identities, New
    <3>2. CASE New(b)
      BY <2>2, <3>2 DEF Loyal, Identities, New
    <3>3. QED
      BY <3>1, <3>2
  <2>4. PICK v : cast[b] \subseteq {v}
    BY <2>3
  <2>5. IsFiniteSet({v}) /\ Cardinality({v}) = 1
    BY FS_Singleton
  <2>6. QED
    BY <2>4, <2>5, FS_Subset, FS_CardinalityType
<1>2. QED
  BY <1>1, Invariant, PTL

\* The page of such a browser, once nothing of its is in flight, shows the choice
\* of the ballot counted last for it: signed in, for its account on any browser;
\* anonymous, of its own, whatever other visitors' ballots write.
THEOREM LatestChoiceShown ==
  Spec => []PageShowsLatestChoice
<1>1. IInv => PageShowsLatestChoice
  <2>1. SUFFICES ASSUME IInv, NEW b \in Browsers \ strayed, latest[b] # NoVote, InFlight(b) = {}
                 PROVE  \E voter \in ExistingVoter([browser |-> b, account |-> signedIn[b],
                                                    cookie |-> jar[b]]) :
                          votes[voter] = latest[b]
    BY DEF PageShowsLatestChoice
  <2>2. Loyal(b) /\ Shown(b) /\ Signed
    BY <2>1 DEF IInv
  <2>3. PICK v \in Identities(b) : votes[v] = latest[b]
    BY <2>1, <2>2 DEF Shown, Loyal, Identities
  <2> DEFINE x == [browser |-> b, account |-> signedIn[b], cookie |-> jar[b]]
  <2>5. x.account = signedIn[b] /\ x.browser = b /\ x.cookie = jar[b]
    OBVIOUS
  <2> HIDE DEF x
  <2>6. v \in ExistingVoter(x)
    BY <2>1, <2>2, <2>3, <2>5 DEF Identities, ExistingVoter, Signed
  <2>7. QED
    BY <2>3, <2>6 DEF x
<1>2. QED
  BY <1>1, Invariant, PTL

\* Evictions, however many networks press on the map and however old a clock
\* reading is, leave every window that still runs as it is.
THEOREM RunningWindowsKept ==
  Spec => EvictionSparesRunningWindows
<1>1. TypeOK /\ [Next]_vars =>
        [Restart \/
          \A k \in Networks :
            buckets[k] # NoBucket /\ now - buckets[k].windowStart < Window =>
              buckets'[k] # NoBucket /\ buckets'[k].windowStart = buckets[k].windowStart]_vars
  <2>1. SUFFICES ASSUME TypeOK, [Next]_vars, ~Restart,
                        NEW k \in Networks, buckets[k] # NoBucket,
                        now - buckets[k].windowStart < Window
                 PROVE  buckets'[k] # NoBucket /\ buckets'[k].windowStart = buckets[k].windowStart
    OBVIOUS
  <2>2. ASSUME NEW i \in Tabs, Admit(i)
        PROVE  buckets'[k] # NoBucket /\ buckets'[k].windowStart = buckets[k].windowStart
    <3>1. NetworkOf[tab[i].browser] \in Networks
      BY <2>1, <2>2, BallotsAssumption DEF Admit, TypeOK, Ballot
    <3>2. QED
      BY <2>1, <2>2, <3>1, StepSparesRunning DEF Admit, Allow, TypeOK
  <2>3. ASSUME NEW n \in Networks, AdmitPasserby(n)
        PROVE  buckets'[k] # NoBucket /\ buckets'[k].windowStart = buckets[k].windowStart
    BY <2>1, <2>3, StepSparesRunning DEF AdmitPasserby, Allow, TypeOK
  <2>4. CASE /\ \A i \in Tabs : ~Admit(i)
             /\ \A n \in Networks : ~AdmitPasserby(n)
    <3>1. buckets' = buckets
      BY <2>1, <2>4 DEF Next, Submit, Answer, CastVote, Refuse, LoseAnswer, SignInOrOut, PassTime,
                        CastElsewhere, Tick, limiter, vars
    <3>2. QED
      BY <2>1, <3>1
  <2>5. QED
    BY <2>2, <2>3, <2>4
<1>2. QED
  BY <1>1, TypeCorrect, PTL DEF Spec, EvictionSparesRunningWindows

\* No ballot of anybody, no restart and no passing of time lets a network get
\* more in.
LEMMA RateStep ==
  ASSUME LimiterTypeOK, [LimiterNext]_<<limiter, now>>,
         NEW k \in Networks, WindowsKnow(k), RateOf(k)
  PROVE  WindowsKnow(k)' /\ RateOf(k)'
<1>1. ASSUME NEW n \in Networks, Allow(n)
      PROVE  WindowsKnow(k)' /\ RateOf(k)'
  <2>1. PICK t \in ClockReadings : OpenWindow(n, t) \/ CountBallot(n, t)
    BY <1>1 DEF Allow
  <2>2. CASE n = k
    BY <2>1, <2>2, OpeningKeepsRate, CountingKeepsRate
  <2>3. CASE n # k
    BY <2>1, <2>3, OthersKeepRate
  <2>4. QED
    BY <2>2, <2>3
<1>2. CASE Tick \/ ForgetWindows \/ UNCHANGED <<buckets, now, admitted>>
  BY <1>2, RestKeepsRate
<1>3. QED
  BY <1>1, <1>2 DEF LimiterNext, limiter

LEMMA LimiterTyped ==
  LimiterSpec => []LimiterTypeOK
<1>1. LimiterInit => LimiterTypeOK
  BY LimiterInitTyped
<1>2. LimiterTypeOK /\ [LimiterNext]_<<limiter, now>> => LimiterTypeOK'
  BY LimiterStepTyped, LimiterRestTyped DEF LimiterNext, Allow, limiter
<1>3. QED
  BY <1>1, <1>2, PTL DEF LimiterSpec

\* However a network paces its ballots around the edges of its windows, and
\* whatever evictions, late readings and restarts come between, of two ballots
\* two windows' worth apart the later was read more than a window, less two
\* readings' age, after the earlier.
THEOREM RateHeld ==
  LimiterSpec => []RateBounded
<1> DEFINE J == \A k \in Networks : WindowsKnow(k) /\ RateOf(k)
<1>1. LimiterInit => J
  <2>1. ASSUME LimiterInit, NEW k \in Networks
        PROVE  DOMAIN admitted[k] = {}
    BY <2>1 DEF LimiterInit, EmptyLimiter
  <2>2. QED
    BY <2>1 DEF WindowsKnow, RateOf
<1>2. LimiterTypeOK /\ J /\ [LimiterNext]_<<limiter, now>> => J'
  BY RateStep
<1>3. J => RateBounded
  BY DEF RateOf, RateBounded
<1> HIDE DEF J
<1>4. QED
  BY <1>1, <1>2, <1>3, LimiterTyped, PTL DEF LimiterSpec

\* The visitors' requests use the throttle as it is meant to be used: whatever
\* they do is a step of the throttle or leaves it alone, so that what holds of
\* the throttle under any ballots holds behind the handlers.
THEOREM ThrottleUsed ==
  Spec => LimiterSpec /\ []RateBounded
<1>1. Init => LimiterInit
  BY DEF Init
<1>2. TypeOK /\ [Next]_vars => [LimiterNext]_<<limiter, now>>
  <2>1. SUFFICES ASSUME TypeOK, [Next]_vars
                 PROVE  [LimiterNext]_<<limiter, now>>
    OBVIOUS
  <2>2. ASSUME NEW i \in Tabs, Admit(i)
        PROVE  LimiterNext
    <3>1. NetworkOf[tab[i].browser] \in Networks
      BY <2>1, <2>2, BallotsAssumption DEF Admit, TypeOK, Ballot
    <3>2. QED
      BY <2>2, <3>1 DEF Admit, LimiterNext
  <2>3. ASSUME NEW n \in Networks, AdmitPasserby(n)
        PROVE  LimiterNext
    BY <2>3 DEF AdmitPasserby, LimiterNext
  <2>4. CASE PassTime \/ Restart
    BY <2>4 DEF PassTime, Restart, LimiterNext
  <2>5. ASSUME \A i \in Tabs : ~Admit(i),
               \A n \in Networks : ~AdmitPasserby(n),
               ~PassTime, ~Restart
        PROVE  UNCHANGED <<limiter, now>>
    BY <2>1, <2>5 DEF Next, Submit, Answer, CastVote, Refuse, LoseAnswer, SignInOrOut, CastElsewhere,
                       vars, limiter
  <2>6. QED
    BY <2>2, <2>3, <2>4, <2>5
<1>3. QED
  BY <1>1, <1>2, TypeCorrect, RateHeld, PTL DEF Spec, LimiterSpec
=============================================================================
