------------------------- MODULE AuditOutboxProofs -------------------------
(***************************************************************************)
(* What AuditOutbox guarantees for any events, any number of overlapping   *)
(* flushes and any batch size, and that it takes no step the promise in    *)
(* AuditDelivery does not allow.  No theorem needs the fairness of Spec.   *)
(***************************************************************************)
EXTENDS AuditOutbox, SequenceTheorems, TLAPS

-----------------------------------------------------------------------------
(***************************************************************************)
(* Batches and the log as sequences.                                       *)
(***************************************************************************)

LEMMA BatchIsSequence ==
  ASSUME NEW b
  PROVE  b \in Batches <=> b \in Seq(Events) /\ Len(b) <= BatchSize
<1>1. BatchSize \in Nat
  BY OutboxAssumption
<1>2. ASSUME b \in Batches
      PROVE  b \in Seq(Events) /\ Len(b) <= BatchSize
  <2>1. PICK m \in 0..BatchSize : b \in [1..m -> Events]
    BY <1>2 DEF Batches, BoundedSeq, SeqOf
  <2>2. m \in Nat /\ m <= BatchSize
    BY <1>1
  <2>3. QED
    BY <2>1, <2>2
<1>3. ASSUME b \in Seq(Events), Len(b) <= BatchSize
      PROVE  b \in Batches
  <2>1. b \in [1..Len(b) -> Events] /\ Len(b) \in 0..BatchSize
    BY <1>1, <1>3, LenProperties
  <2>2. QED
    BY <2>1 DEF Batches, BoundedSeq, SeqOf
<1>4. QED
  BY <1>2, <1>3

\* What a flush has in hand: the head, which is one of the batch, and the rest.
LEMMA BatchParts ==
  ASSUME NEW b \in Batches, b # <<>>
  PROVE  /\ Head(b) \in Events /\ Head(b) \in Range(b)
         /\ Tail(b) \in Batches /\ Range(Tail(b)) \subseteq Range(b)
<1>1. b \in Seq(Events) /\ Len(b) <= BatchSize /\ BatchSize \in Nat
  BY BatchIsSequence, OutboxAssumption
<1>2. /\ Head(b) \in Events /\ Tail(b) \in Seq(Events) /\ Len(b) \in Nat
      /\ Len(Tail(b)) = Len(b) - 1
      /\ \A i \in 1..Len(Tail(b)) : Tail(b)[i] = b[i + 1]
      /\ DOMAIN b = 1..Len(b) /\ DOMAIN Tail(b) = 1..Len(Tail(b))
  BY <1>1, HeadTailProperties, LenProperties
<1>3. Len(b) >= 1
  BY <1>1, EmptySeq
<1>4. Tail(b) \in Batches
  <2>1. Len(Tail(b)) <= BatchSize
    BY <1>1, <1>2, <1>3
  <2>2. QED
    BY <1>2, <2>1, BatchIsSequence
<1>5. Head(b) = b[1] /\ 1 \in DOMAIN b
  BY <1>1, <1>2, <1>3
<1>6. Head(b) \in Range(b)
  BY <1>5 DEF Range
<1>7. \A i \in DOMAIN Tail(b) : i + 1 \in DOMAIN b /\ Tail(b)[i] = b[i + 1]
  BY <1>2
<1>8. Range(Tail(b)) \subseteq Range(b)
  BY <1>7 DEF Range
<1>9. QED
  BY <1>2, <1>4, <1>6, <1>8

\* The log holds one event more after an Append, and still none twice.
LEMMA LogGrows ==
  ASSUME NEW log \in Seq(Events), NEW e \in Events
  PROVE  /\ Append(log, e) \in Seq(Events)
         /\ Range(Append(log, e)) = Range(log) \cup {e}
         /\ IsInjective(log) /\ e \notin Range(log) => IsInjective(Append(log, e))
<1> DEFINE longer == Append(log, e)
<1>1. /\ longer \in Seq(Events) /\ Len(longer) = Len(log) + 1 /\ Len(log) \in Nat
      /\ DOMAIN log = 1..Len(log) /\ DOMAIN longer = 1..Len(longer)
      /\ \A i \in 1..Len(log) : longer[i] = log[i]
      /\ longer[Len(log) + 1] = e
  BY AppendProperties, LenProperties
<1> HIDE DEF longer
<1>2. DOMAIN longer = DOMAIN log \cup {Len(log) + 1} /\ Len(log) + 1 \notin DOMAIN log
  BY <1>1
<1>3. Range(longer) = Range(log) \cup {e}
  BY <1>1, <1>2 DEF Range
<1>4. ASSUME IsInjective(log), e \notin Range(log)
      PROVE  IsInjective(longer)
  <2>1. \A i \in DOMAIN log : longer[i] = log[i] /\ longer[i] # e
    BY <1>1, <1>4 DEF Range
  <2>2. QED
    BY <1>1, <1>2, <1>4, <2>1 DEF IsInjective
<1>5. QED
  BY <1>1, <1>3, <1>4 DEF longer

-----------------------------------------------------------------------------
(***************************************************************************)
(* Type correctness.                                                       *)
(***************************************************************************)

Flushes == [pc: {"idle", "record", "mark"}, batch: Batches]

LEMMA IdleType ==
  Idle \in Flushes /\ Idle.pc = "idle" /\ Idle.batch = <<>>
<1>1. <<>> \in Batches
  <2>1. <<>> \in Seq(Events) /\ Len(<<>>) <= BatchSize
    BY OutboxAssumption
  <2>2. QED
    BY <2>1, BatchIsSequence
<1>2. QED
  BY <1>1 DEF Idle, Flushes

LEMMA InitType ==
  Init => TypeOK
BY IdleType, EmptySeq, OutboxAssumption DEF Init, TypeOK, Flushes, Times

\* A flush that is not idle holds an event.
LEMMA EventInHand ==
  ASSUME TypeOK, NEW f \in Flushers, flush[f].pc # "idle"
  PROVE  /\ flush[f] \in Flushes /\ flush[f].batch \in Batches /\ flush[f].batch # <<>>
         /\ Head(flush[f].batch) \in Events /\ Head(flush[f].batch) \in Range(flush[f].batch)
BY BatchParts DEF TypeOK, Flushes

\* What a step of f makes of its own flush, and that it touches no other.
FlushBecomes(f, x) ==
  /\ flush' \in [Flushers -> Flushes]
  /\ flush'[f] = x
  /\ \A g \in Flushers \ {f} : flush'[g] = flush[g]

LEMMA FlushEffect ==
  ASSUME TypeOK, NEW f \in Flushers
  PROVE  /\ MarkTooLate(f) \/ Abort(f) => FlushBecomes(f, Idle)
         /\ Mark(f) =>
              \/ FlushBecomes(f, Idle)
              \/ /\ Tail(flush[f].batch) # <<>>
                 /\ FlushBecomes(f, [pc |-> "record", batch |-> Tail(flush[f].batch)])
         /\ StartFlush(f) =>
              \E b \in Batches : /\ b # <<>> /\ IsPendingBatch(b)
                                 /\ FlushBecomes(f, [pc |-> "record", batch |-> b])
         /\ Record(f) => FlushBecomes(f, [pc |-> "mark", batch |-> flush[f].batch])
<1>1. flush \in [Flushers -> Flushes]
  BY DEF TypeOK, Flushes
<1>2. ASSUME NEW x \in Flushes, flush' = [flush EXCEPT ![f] = x]
      PROVE  FlushBecomes(f, x)
  BY <1>1, <1>2 DEF FlushBecomes
<1>3. ASSUME MarkTooLate(f) \/ Abort(f)
      PROVE  FlushBecomes(f, Idle)
  BY <1>2, <1>3, IdleType DEF MarkTooLate, Abort
<1>4. ASSUME Mark(f)
      PROVE  \/ FlushBecomes(f, Idle)
             \/ /\ Tail(flush[f].batch) # <<>>
                /\ FlushBecomes(f, [pc |-> "record", batch |-> Tail(flush[f].batch)])
  <2> DEFINE rest == Tail(flush[f].batch)
             next == [pc |-> "record", batch |-> rest]
  <2>1. rest \in Batches
    BY <1>4, EventInHand, BatchParts DEF Mark
  <2>2. next \in Flushes
    BY <2>1 DEF Flushes
  <2>3. \/ flush' = [flush EXCEPT ![f] = Idle]
        \/ rest # <<>> /\ flush' = [flush EXCEPT ![f] = next]
    BY <1>4 DEF Mark, Advance
  <2> HIDE DEF next
  <2>4. FlushBecomes(f, Idle) \/ (rest # <<>> /\ FlushBecomes(f, next))
    BY <1>2, <2>2, <2>3, IdleType
  <2>5. QED
    BY <1>4, <2>4 DEF next
<1>5. ASSUME StartFlush(f)
      PROVE  \E b \in Batches : /\ b # <<>> /\ IsPendingBatch(b)
                                /\ FlushBecomes(f, [pc |-> "record", batch |-> b])
  <2>1. PICK b \in Batches : /\ b # <<>> /\ IsPendingBatch(b)
                             /\ flush' = [flush EXCEPT ![f] = [pc |-> "record", batch |-> b]]
    BY <1>5 DEF StartFlush
  <2>2. [pc |-> "record", batch |-> b] \in Flushes
    BY DEF Flushes
  <2>3. QED
    BY <1>2, <1>5, <2>1, <2>2
<1>6. ASSUME Record(f)
      PROVE  FlushBecomes(f, [pc |-> "mark", batch |-> flush[f].batch])
  <2> DEFINE next == [pc |-> "mark", batch |-> flush[f].batch]
  <2>1. flush[f] \in Flushes
    BY <1>1
  <2>2. next \in Flushes
    BY <2>1 DEF Flushes
  <2>3. flush' = [flush EXCEPT ![f] = next]
    <3>1. [flush[f] EXCEPT !.pc = "mark"] = next
      BY <2>1 DEF Flushes
    <3>2. flush' = [flush EXCEPT ![f] = [flush[f] EXCEPT !.pc = "mark"]]
      BY <1>6 DEF Record
    <3> HIDE DEF next
    <3>3. QED
      BY <3>1, <3>2
  <2> HIDE DEF next
  <2>4. FlushBecomes(f, next)
    BY <1>2, <2>2, <2>3
  <2>5. QED
    BY <1>6, <2>4 DEF next
<1>7. QED
  BY <1>3, <1>4, <1>5, <1>6

\* A mark turns one row, which is there, to delivered, and nothing else.
LEMMA MarkEffect ==
  ASSUME TypeOK, NEW f \in Flushers, Mark(f), NEW e, e = Head(flush[f].batch),
         outbox[e] # NoRow
  PROVE  /\ outbox' \in [Events -> Row \cup {NoRow}]
         /\ e \in Events /\ outbox'[e] \in Row /\ outbox'[e].delivered
         /\ \A d \in Events \ {e} : outbox'[d] = outbox[d]
<1>1. e \in Events
  BY EventInHand DEF Mark
<1>2. outbox[e] \in Row /\ outbox \in [Events -> Row \cup {NoRow}]
  BY <1>1 DEF TypeOK
<1>3. outbox' = [outbox EXCEPT ![e] = [outbox[e] EXCEPT !.delivered = TRUE]]
  BY <1>2 DEF Mark
<1>4. /\ [outbox[e] EXCEPT !.delivered = TRUE] \in Row
      /\ [outbox[e] EXCEPT !.delivered = TRUE].delivered
  BY <1>2 DEF Row
<1>5. QED
  BY <1>1, <1>2, <1>3, <1>4

-----------------------------------------------------------------------------
(***************************************************************************)
(* The invariant: what an outbox row, the log and a flush know together.   *)
(***************************************************************************)

\* A flush works on events that are committed, and is about to mark one only
\* when the log holds it.  Without it neither the log's truth nor even the shape
\* of the rows would be kept by a mark.
FlushKnows ==
  \A f \in Flushers :
    /\ Range(flush[f].batch) \subseteq Committed
    /\ flush[f].pc = "mark" => Head(flush[f].batch) \in Range(auditLog)

Inv == TypeOK /\ LogMatchesOutbox /\ FlushKnows

LEMMA RangeEmpty ==
  Range(<<>>) = {} /\ IsInjective(<<>>)
BY DEF Range, IsInjective

LEMMA InitInv ==
  Init => Inv
<1>1. SUFFICES ASSUME Init
               PROVE  LogMatchesOutbox /\ FlushKnows
  BY InitType DEF Inv
<1>2. Committed = {} /\ Delivered = {}
  BY <1>1 DEF Init, Committed, Delivered
<1>3. LogMatchesOutbox
  BY <1>1, <1>2, RangeEmpty DEF Init, LogMatchesOutbox
<1>4. \A f \in Flushers : flush[f].batch = <<>> /\ flush[f].pc = "idle"
  BY <1>1, IdleType DEF Init
<1>5. QED
  BY <1>3, <1>4, RangeEmpty DEF FlushKnows

\* Rows, log and acknowledgements as sets: what each step adds.
Adds(committed, recorded, acknowledged) ==
  /\ Committed' = Committed \cup committed
  /\ Range(auditLog)' = Range(auditLog) \cup recorded
  /\ Delivered' = Delivered \cup acknowledged

\* The rows and the log of a step that enqueues, flushes or lets time pass.
LEMMA EnqueueStep ==
  ASSUME Inv, NEW e \in Events, Enqueue(e)
  PROVE  Inv' /\ e \notin Committed /\ Adds({e}, {}, {})
<1>1. PICK t \in 0..now :
        outbox' = [outbox EXCEPT ![e] = [createdAt |-> t, delivered |-> FALSE]]
  BY DEF Enqueue
<1>2. UNCHANGED <<auditLog, now, flush>> /\ outbox[e] = NoRow
  BY DEF Enqueue
<1>3. t \in Times
  BY OutboxAssumption DEF Inv, TypeOK, Times
<1> DEFINE row == [createdAt |-> t, delivered |-> FALSE]
<1>4. row \in Row /\ row # NoRow /\ row.delivered = FALSE
  <2>1. row \in Row
    BY <1>3 DEF Row
  <2>2. QED
    BY <2>1, OutboxAssumption
<1>5. outbox' = [outbox EXCEPT ![e] = row] /\ outbox \in [Events -> Row \cup {NoRow}]
  BY <1>1 DEF Inv, TypeOK
<1> HIDE DEF row
<1>6. outbox' \in [Events -> Row \cup {NoRow}]
  BY <1>4, <1>5
<1>7. /\ e \notin Committed
      /\ Committed' = Committed \cup {e}
      /\ Pending' = Pending \cup {e}
  BY <1>2, <1>4, <1>5 DEF Committed, Pending
<1>8. Delivered' = Delivered
  BY <1>2, <1>4, <1>5 DEF Committed, Pending, Delivered
<1>9. TypeOK'
  BY <1>2, <1>6 DEF Inv, TypeOK
<1>10. LogMatchesOutbox' /\ FlushKnows'
  BY <1>2, <1>7, <1>8 DEF Inv, LogMatchesOutbox, FlushKnows
<1>11. QED
  BY <1>2, <1>7, <1>8, <1>9, <1>10 DEF Inv, Adds

\* A flush's own step keeps the shape and the knowledge of the flushes if the
\* batch it goes on with is committed and the event it is to mark recorded.
LEMMA FlushesKept ==
  ASSUME Inv, NEW f \in Flushers, NEW x \in Flushes, FlushBecomes(f, x),
         x.pc = "idle" <=> x.batch = <<>>,
         Committed \subseteq Committed', Range(auditLog) \subseteq Range(auditLog)',
         Range(x.batch) \subseteq Committed',
         x.pc = "mark" => Head(x.batch) \in Range(auditLog)'
  PROVE  /\ flush' \in [Flushers -> Flushes]
         /\ \A g \in Flushers : flush'[g].pc = "idle" <=> flush'[g].batch = <<>>
         /\ FlushKnows'
<1>1. flush' \in [Flushers -> Flushes]
  BY DEF FlushBecomes
<1>2. \A g \in Flushers : flush'[g] = x \/ flush'[g] = flush[g]
  BY DEF FlushBecomes
<1>3. \A g \in Flushers : flush'[g].pc = "idle" <=> flush'[g].batch = <<>>
  BY <1>2 DEF Inv, TypeOK
<1>4. FlushKnows'
  BY <1>2 DEF Inv, FlushKnows
<1>5. QED
  BY <1>1, <1>3, <1>4

LEMMA RecordStep ==
  ASSUME Inv, NEW f \in Flushers, Record(f)
  PROVE  Inv' /\ \E e \in Committed : Adds({}, {e}, {})
<1> DEFINE e == Head(flush[f].batch)
<1>1. /\ flush[f].batch \in Batches /\ flush[f].batch # <<>>
      /\ e \in Events /\ e \in Range(flush[f].batch) /\ e \in Committed
  BY EventInHand DEF Inv, Record, FlushKnows
<1>2. /\ auditLog' = IF e \in Range(auditLog) THEN auditLog ELSE Append(auditLog, e)
      /\ UNCHANGED <<outbox, now>>
  BY DEF Record
<1>3. auditLog \in Seq(Events)
  BY DEF Inv, TypeOK
<1>4. /\ auditLog' \in Seq(Events)
      /\ Range(auditLog)' = Range(auditLog) \cup {e}
      /\ IsInjective(auditLog)'
  <2>1. CASE e \in Range(auditLog)
    BY <1>2, <1>3, <2>1 DEF Inv, LogMatchesOutbox
  <2>2. CASE e \notin Range(auditLog)
    BY <1>1, <1>2, <1>3, <2>2, LogGrows DEF Inv, LogMatchesOutbox
  <2>3. QED
    BY <2>1, <2>2
<1>5. Committed' = Committed /\ Delivered' = Delivered
  BY <1>2 DEF Committed, Pending, Delivered
<1>6. FlushBecomes(f, [pc |-> "mark", batch |-> flush[f].batch])
  BY FlushEffect DEF Inv
<1>7. [pc |-> "mark", batch |-> flush[f].batch] \in Flushes
  BY <1>1 DEF Flushes
<1>8. Range(flush[f].batch) \subseteq Committed
  BY DEF Inv, FlushKnows
<1>9. /\ flush' \in [Flushers -> Flushes]
      /\ \A g \in Flushers : flush'[g].pc = "idle" <=> flush'[g].batch = <<>>
      /\ FlushKnows'
  BY <1>1, <1>4, <1>5, <1>6, <1>7, <1>8, FlushesKept
<1>10. TypeOK'
  BY <1>2, <1>4, <1>9 DEF Inv, TypeOK, Flushes
<1>11. LogMatchesOutbox'
  BY <1>1, <1>4, <1>5 DEF Inv, LogMatchesOutbox
<1>12. QED
  BY <1>1, <1>4, <1>5, <1>9, <1>10, <1>11 DEF Inv, Adds

LEMMA MarkStep ==
  ASSUME Inv, NEW f \in Flushers, Mark(f)
  PROVE  Inv' /\ \E e \in Range(auditLog) : e \notin Delivered /\ Adds({}, {}, {e})
<1> DEFINE e == Head(flush[f].batch)
           rest == Tail(flush[f].batch)
<1>1. /\ flush[f].batch \in Batches /\ flush[f].batch # <<>>
      /\ e \in Events /\ e \in Range(flush[f].batch) /\ e \in Committed
      /\ e \in Range(auditLog)
  BY EventInHand DEF Inv, Mark, FlushKnows
<1>2. UNCHANGED <<auditLog, now>> /\ ~outbox[e].delivered
  BY DEF Mark
<1>3. /\ outbox' \in [Events -> Row \cup {NoRow}]
      /\ outbox'[e] \in Row /\ outbox'[e].delivered
      /\ \A d \in Events \ {e} : outbox'[d] = outbox[d]
  BY <1>1, MarkEffect DEF Inv, Committed
<1>4. outbox'[e] # NoRow
  BY <1>3, OutboxAssumption
<1>5. Committed' = Committed
  BY <1>1, <1>3, <1>4 DEF Committed
<1>6. Delivered' = Delivered \cup {e} /\ e \notin Delivered
  BY <1>1, <1>2, <1>3, <1>4 DEF Committed, Pending, Delivered
<1>7. Range(auditLog)' = Range(auditLog) /\ IsInjective(auditLog)'
  BY <1>2 DEF Inv, LogMatchesOutbox
<1>8. /\ flush' \in [Flushers -> Flushes]
      /\ \A g \in Flushers : flush'[g].pc = "idle" <=> flush'[g].batch = <<>>
      /\ FlushKnows'
  <2>1. FlushBecomes(f, Idle) \/ (rest # <<>> /\ FlushBecomes(f, [pc |-> "record", batch |-> rest]))
    BY FlushEffect DEF Inv
  <2>2. CASE FlushBecomes(f, Idle)
    BY <1>5, <1>7, <2>2, IdleType, RangeEmpty, FlushesKept
  <2>3. CASE rest # <<>> /\ FlushBecomes(f, [pc |-> "record", batch |-> rest])
    <3>1. rest \in Batches /\ Range(rest) \subseteq Committed
      BY <1>1, BatchParts DEF Inv, FlushKnows
    <3>2. [pc |-> "record", batch |-> rest] \in Flushes
      BY <3>1 DEF Flushes
    <3>3. QED
      BY <1>5, <1>7, <2>3, <3>1, <3>2, FlushesKept
  <2>4. QED
    BY <2>1, <2>2, <2>3
<1>9. TypeOK'
  BY <1>2, <1>3, <1>8 DEF Inv, TypeOK, Flushes
<1>10. LogMatchesOutbox'
  BY <1>1, <1>5, <1>6, <1>7 DEF Inv, LogMatchesOutbox
<1>11. QED
  BY <1>1, <1>5, <1>6, <1>7, <1>8, <1>9, <1>10 DEF Inv, Adds

LEMMA QuietStep ==
  ASSUME Inv,
         \/ Tick \/ UNCHANGED vars
         \/ \E f \in Flushers : StartFlush(f) \/ MarkTooLate(f) \/ Abort(f)
  PROVE  Inv' /\ Adds({}, {}, {})
<1>1. UNCHANGED <<outbox, auditLog>>
  BY DEF Tick, vars, StartFlush, MarkTooLate, Abort
<1>2. /\ Committed' = Committed /\ Delivered' = Delivered
      /\ Range(auditLog)' = Range(auditLog)
  BY <1>1 DEF Committed, Pending, Delivered
<1>3. LogMatchesOutbox' /\ Adds({}, {}, {})
  BY <1>1, <1>2 DEF Inv, LogMatchesOutbox, Adds
<1>4. CASE Tick \/ UNCHANGED vars
  <2>1. flush' = flush /\ now' \in Times
    BY <1>4, OutboxAssumption DEF Tick, vars, Inv, TypeOK, Times
  <2>2. QED
    BY <1>1, <1>2, <1>3, <2>1 DEF Inv, TypeOK, FlushKnows
<1>5. ASSUME NEW f \in Flushers, StartFlush(f) \/ MarkTooLate(f) \/ Abort(f)
      PROVE  Inv'
  <2>1. /\ flush' \in [Flushers -> Flushes]
        /\ \A g \in Flushers : flush'[g].pc = "idle" <=> flush'[g].batch = <<>>
        /\ FlushKnows'
    <3>1. CASE FlushBecomes(f, Idle)
      BY <1>2, <3>1, IdleType, RangeEmpty, FlushesKept
    <3>2. ASSUME NEW b \in Batches, b # <<>>, IsPendingBatch(b),
                 FlushBecomes(f, [pc |-> "record", batch |-> b])
          PROVE  /\ flush' \in [Flushers -> Flushes]
                 /\ \A g \in Flushers : flush'[g].pc = "idle" <=> flush'[g].batch = <<>>
                 /\ FlushKnows'
      <4>1. [pc |-> "record", batch |-> b] \in Flushes
        BY DEF Flushes
      <4>2. Range(b) \subseteq Committed
        BY <3>2 DEF IsPendingBatch, Pending
      <4>3. QED
        BY <1>2, <3>2, <4>1, <4>2, FlushesKept
    <3>3. \/ FlushBecomes(f, Idle)
          \/ \E b \in Batches : /\ b # <<>> /\ IsPendingBatch(b)
                                /\ FlushBecomes(f, [pc |-> "record", batch |-> b])
      BY <1>5, FlushEffect DEF Inv
    <3>4. QED
      BY <3>1, <3>2, <3>3
  <2>2. now' = now
    BY <1>5 DEF StartFlush, MarkTooLate, Abort
  <2>3. QED
    BY <1>1, <1>3, <2>1, <2>2 DEF Inv, TypeOK, Flushes
<1>6. QED
  BY <1>3, <1>4, <1>5

LEMMA NextInv ==
  Inv /\ [Next]_vars => Inv'
BY EnqueueStep, RecordStep, MarkStep, QuietStep DEF Next, FlushStep

LEMMA Invariance ==
  SafetySpec => []Inv
BY InitInv, NextInv, PTL DEF SafetySpec

\* Rows, log and flushes keep their shapes; a flush that is not idle always has
\* an event in hand, and only a row that exists is ever marked.
THEOREM TypeCorrect ==
  SafetySpec => []TypeOK
BY Invariance, PTL DEF Inv

\* However many flushes overlap, fail or die: no row is marked delivered before
\* the log holds its event, and the log holds no event twice and none that no
\* mutation committed.
THEOREM LogTruthful ==
  SafetySpec => []LogMatchesOutbox
BY Invariance, PTL DEF Inv

-----------------------------------------------------------------------------
(***************************************************************************)
(* The outbox implements the delivery it promises, step by step.           *)
(***************************************************************************)

\* A committed event the log lacks is delivered, one it has is no step at all;
\* marks acknowledge, everything else is invisible.
LEMMA StepDelivers ==
  Inv /\ [Next]_vars => [Delivery!Next]_(Delivery!vars)
<1>1. SUFFICES ASSUME Inv, [Next]_vars
               PROVE  Delivery!Next \/ UNCHANGED Delivery!vars
  OBVIOUS
<1>2. ASSUME NEW e \in Events, Enqueue(e)
      PROVE  Delivery!Next
  <2>1. Delivery!Commit(e)
    BY <1>1, <1>2, EnqueueStep DEF Adds, Delivery!Commit
  <2>2. QED
    BY <2>1 DEF Delivery!Next
<1>3. ASSUME NEW f \in Flushers, Record(f)
      PROVE  Delivery!Next \/ UNCHANGED Delivery!vars
  <2>1. PICK e \in Committed : Adds({}, {e}, {})
    BY <1>1, <1>3, RecordStep
  <2>2. CASE e \in Range(auditLog)
    BY <2>1, <2>2 DEF Adds, Delivery!vars
  <2>3. CASE e \notin Range(auditLog)
    <3>1. Delivery!Deliver(e)
      BY <2>1, <2>3 DEF Adds, Delivery!Deliver
    <3>2. QED
      BY <3>1 DEF Delivery!Next, Committed
  <2>4. QED
    BY <2>2, <2>3
<1>4. ASSUME NEW f \in Flushers, Mark(f)
      PROVE  Delivery!Next
  <2>1. PICK e \in Range(auditLog) : e \notin Delivered /\ Adds({}, {}, {e})
    BY <1>1, <1>4, MarkStep
  <2>2. Delivery!Acknowledge(e)
    BY <2>1 DEF Adds, Delivery!Acknowledge
  <2>3. e \in Events
    BY <1>1 DEF Inv, LogMatchesOutbox, Committed
  <2>4. QED
    BY <2>2, <2>3 DEF Delivery!Next
<1>5. CASE \/ Tick \/ UNCHANGED vars
           \/ \E f \in Flushers : StartFlush(f) \/ MarkTooLate(f) \/ Abort(f)
  BY <1>1, <1>5, QuietStep DEF Adds, Delivery!vars
<1>6. QED
  BY <1>1, <1>2, <1>3, <1>4, <1>5 DEF Next, FlushStep

\* The outbox implements the safety part of AuditDelivery: an event is committed
\* once, recorded once and only after that acknowledged.
THEOREM OutboxDelivers ==
  SafetySpec => Delivery!Safety
<1>1. Init => Delivery!Init
  BY RangeEmpty DEF Init, Delivery!Init, Committed, Pending, Delivered
<1>2. QED
  BY <1>1, StepDelivers, Invariance, PTL DEF SafetySpec, Delivery!Safety
=============================================================================
