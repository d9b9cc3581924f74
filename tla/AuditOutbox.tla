---------------------------- MODULE AuditOutbox ----------------------------
(***************************************************************************)
(* The audit outbox: rows committed with each mutation, and FlushAudit,    *)
(* which every mutation runs once its transaction is over and the module   *)
(* runs once at boot.  Nothing serializes two flushes, and a flush holds   *)
(* nothing between its read, each Record and each mark.                    *)
(***************************************************************************)
EXTENDS Naturals, Sequences, Functions, SequencesExt

CONSTANTS
  Events,     \* event ids: numbers, for the order ORDER BY gives equal times
  Flushers,   \* FlushAudit calls that can be in flight at once
  BatchSize,  \* auditFlushBatchSize
  MaxTime,    \* bound on the clock
  Fraction,   \* ticks in one second
  NoRow

Times == 0..MaxTime
Row == [createdAt: Times, delivered: BOOLEAN]

ASSUME OutboxAssumption ==
  /\ Events \subseteq Nat
  /\ BatchSize \in Nat \ {0}
  /\ MaxTime \in Nat
  /\ Fraction \in Nat \ {0}
  /\ NoRow \notin Row

VARIABLES
  outbox,    \* poll_audit_outbox
  auditLog,  \* the event ids the audit service holds, oldest first
  now,
  flush      \* the flushes in flight

vars == <<outbox, auditLog, now, flush>>

Idle == [pc |-> "idle", batch |-> <<>>]
Batches == BoundedSeq(Events, BatchSize)

\* Every variable keeps its shape; a flush in flight has an event in hand.
TypeOK ==
  /\ outbox \in [Events -> Row \cup {NoRow}]
  /\ auditLog \in Seq(Events)
  /\ now \in Times
  /\ flush \in [Flushers -> [pc: {"idle", "record", "mark"}, batch: Batches]]
  /\ \A f \in Flushers : flush[f].pc = "idle" <=> flush[f].batch = <<>>

Init ==
  /\ outbox = [e \in Events |-> NoRow]
  /\ auditLog = <<>>
  /\ now = 0
  /\ flush = [f \in Flushers |-> Idle]

-----------------------------------------------------------------------------
(***************************************************************************)
(* created_at is text, RFC 3339 with the fraction's trailing zeros cut.    *)
(* Where the fraction is cut the text goes on with "Z", which sorts after  *)
(* "." and after every digit: a whole second sorts behind its fractions.   *)
(***************************************************************************)
TextRank(t) ==
  LET second == t \div Fraction
      fraction == t % Fraction
  IN second * (Fraction + 1) + (IF fraction = 0 THEN Fraction ELSE fraction)

\* ORDER BY created_at, event_id
Before(d, e) ==
  \/ TextRank(outbox[d].createdAt) < TextRank(outbox[e].createdAt)
  \/ TextRank(outbox[d].createdAt) = TextRank(outbox[e].createdAt) /\ d < e

Committed == {e \in Events : outbox[e] # NoRow}
Pending == {e \in Committed : ~outbox[e].delivered}
Delivered == Committed \ Pending

\* PendingAudit: the first BatchSize undelivered rows in the order of the query.
IsPendingBatch(b) ==
  /\ Range(b) \subseteq Pending
  /\ \A i, j \in DOMAIN b : i < j => Before(b[i], b[j])
  /\ \A e \in Pending \ Range(b) :
       Len(b) = BatchSize /\ \A i \in DOMAIN b : Before(b[i], e)

-----------------------------------------------------------------------------
\* A mutation commits with its entry.  The entry's time was read before the
\* transaction began.
Enqueue(e) ==
  /\ outbox[e] = NoRow
  /\ \E t \in 0..now : outbox' = [outbox EXCEPT ![e] = [createdAt |-> t, delivered |-> FALSE]]
  /\ UNCHANGED <<auditLog, now, flush>>

StartFlush(f) ==
  /\ flush[f].pc = "idle"
  /\ \E b \in Batches :
       /\ b # <<>>
       /\ IsPendingBatch(b)
       /\ flush' = [flush EXCEPT ![f] = [pc |-> "record", batch |-> b]]
  /\ UNCHANGED <<outbox, auditLog, now>>

\* Slip: every error of Record is taken for success.
RecordErrorIgnored(f) ==
  LET e == Head(flush[f].batch) IN
  /\ flush[f].pc = "record"
  /\ auditLog' \in {auditLog, IF e \in Range(auditLog) THEN auditLog ELSE Append(auditLog, e)}
  /\ flush' = [flush EXCEPT ![f].pc = "mark"]
  /\ UNCHANGED <<outbox, now>>

\* Slip: the unique violation of an event already there is an error like others.
RecordIntolerant(f) ==
  LET e == Head(flush[f].batch) IN
  /\ flush[f].pc = "record"
  /\ e \notin Range(auditLog)
  /\ auditLog' = Append(auditLog, e)
  /\ flush' = [flush EXCEPT ![f].pc = "mark"]
  /\ UNCHANGED <<outbox, now>>

\* Record succeeds, or the audit store already holds the event and its unique
\* violation is taken for success.
Record(f) ==
  LET e == Head(flush[f].batch) IN
  /\ flush[f].pc = "record"
  /\ auditLog' = IF e \in Range(auditLog) THEN auditLog ELSE Append(auditLog, e)
  /\ flush' = [flush EXCEPT ![f].pc = "mark"]
  /\ UNCHANGED <<outbox, now>>

\* Slip: the loop does not notice the end of the batch.
AdvancePastEnd(f) ==
  flush' = [flush EXCEPT ![f] = [pc |-> "record", batch |-> Tail(flush[f].batch)]]

\* Go on with the rest of the batch.
Advance(f) ==
  LET rest == Tail(flush[f].batch) IN
  flush' = [flush EXCEPT ![f] =
    IF rest = <<>> THEN Idle ELSE [pc |-> "record", batch |-> rest]]

\* MarkAuditDelivered on a row still undelivered.
Mark(f) ==
  LET e == Head(flush[f].batch) IN
  /\ flush[f].pc = "mark"
  /\ ~outbox[e].delivered
  /\ outbox' = [outbox EXCEPT ![e].delivered = TRUE]
  /\ Advance(f)
  /\ UNCHANGED <<auditLog, now>>

\* Another flush marked the row first: ErrNotFound ends this flush, and what is
\* left of its batch waits for the next one.
MarkTooLate(f) ==
  /\ flush[f].pc = "mark"
  /\ outbox[Head(flush[f].batch)].delivered
  /\ flush' = [flush EXCEPT ![f] = Idle]
  /\ UNCHANGED <<outbox, auditLog, now>>

\* Record or the database fails, the request is cancelled, or the process dies.
Abort(f) ==
  /\ flush[f].pc # "idle"
  /\ flush' = [flush EXCEPT ![f] = Idle]
  /\ UNCHANGED <<outbox, auditLog, now>>

Tick ==
  /\ now < MaxTime
  /\ now' = now + 1
  /\ UNCHANGED <<outbox, auditLog, flush>>

FlushStep(f) == StartFlush(f) \/ Record(f) \/ Mark(f) \/ MarkTooLate(f) \/ Abort(f)

Next ==
  \/ Tick
  \/ \E e \in Events : Enqueue(e)
  \/ \E f \in Flushers : FlushStep(f)

\* Flushes keep coming (one per mutation, one per boot), and neither the audit
\* service nor the database refuses for ever a call that is made again and again.
Fairness ==
  \A f \in Flushers :
    /\ WF_vars(StartFlush(f))
    /\ SF_vars(Record(f))
    /\ SF_vars(Mark(f))
    /\ WF_vars(MarkTooLate(f))

SafetySpec == Init /\ [][Next]_vars

Spec == SafetySpec /\ Fairness

-----------------------------------------------------------------------------
\* No row is marked delivered before the audit service holds its event, and the
\* service holds no event twice and none that no mutation committed.
LogMatchesOutbox ==
  /\ Delivered \subseteq Range(auditLog)
  /\ Range(auditLog) \subseteq Committed
  /\ IsInjective(auditLog)

\* The outbox is the delivery it promises: committed once, in the log once,
\* acknowledged after, and all of it in the end.
Delivery == INSTANCE AuditDelivery WITH
  committed <- Committed, recorded <- Range(auditLog), acknowledged <- Delivered

ImplementsDelivery == Delivery!Spec

\* "FlushAudit delivers pending outbox events in order": a batch is in the order
\* in which its events were created.
BatchChronological ==
  \A f \in Flushers : \A i, j \in DOMAIN flush[f].batch :
    i < j => outbox[flush[f].batch[i]].createdAt <= outbox[flush[f].batch[j]].createdAt
=============================================================================
