---------------------------- MODULE PollsProofs ----------------------------
(***************************************************************************)
(* Theorems about Polls, for every value of its constants.                 *)
(***************************************************************************)
EXTENDS Polls, SequenceTheorems, TLAPS

-----------------------------------------------------------------------------
(***************************************************************************)
(* Type correctness.                                                       *)
(***************************************************************************)

LEMMA InitType == Init => TypeOK
  BY PollsAssumption DEF Init, TypeOK, Times, Request, Ballot

\* The table of requests keeps its shape when one request ends.
LEMMA FinishType ==
  ASSUME TypeOK, NEW m \in Managers
  PROVE  [request EXCEPT ![m] = Idle] \in [Managers -> Request]
  BY DEF TypeOK, Request

\* A request at its decision or its commit carries an operation, an actor, an
\* id, a row and the version it read.
LEMMA RequestFields ==
  ASSUME TypeOK, NEW m \in Managers, request[m] # Idle
  PROVE  /\ request[m].pc \in {"decide", "commit"}
         /\ request[m].op \in Operations
         /\ request[m].actor \in Users
         /\ request[m].id \in PollIds
         /\ request[m].row \in Row
         /\ request[m].base \in Nat
         /\ request[m] = [pc |-> request[m].pc, op |-> request[m].op,
                          actor |-> request[m].actor, id |-> request[m].id,
                          row |-> request[m].row, base |-> request[m].base]
  BY DEF TypeOK, Request

LEMMA RewriteType ==
  ASSUME NEW row \in Row, NEW slug \in Slugs, NEW options \in OptionLists,
         NEW status \in Statuses, NEW closesAt \in Times \cup {NoTime}
  PROVE  Rewrite(row, slug, options, status, closesAt) \in Row
  BY DEF Rewrite, Row

LEMMA PrepareType ==
  ASSUME TypeOK, NEW m \in Managers, request[m] # Idle, NEW row \in Row, Prepare(m, row)
  PROVE  request' \in [Managers -> Request]
  BY RequestFields DEF TypeOK, Request, Prepare

LEMMA EnqueueType ==
  ASSUME TypeOK, NEW m \in Managers, request[m] # Idle, EnqueueAudit(m)
  PROVE  trail' \in [PollIds -> Seq(Entry)]
  <1>1. [action |-> request[m].op, actor |-> request[m].actor,
         slug |-> request[m].row.slug, status |-> request[m].row.status] \in Entry
    BY RequestFields DEF Entry, Row
  <1> QED BY <1>1, RequestFields DEF EnqueueAudit, TypeOK

LEMMA RememberType ==
  ASSUME TypeOK, NEW m \in Managers, request[m] # Idle, Remember(m),
         polls' \in [PollIds -> Row \cup {NoPoll}]
  PROVE  versions' \in [PollIds -> Seq(Version)]
  <1>1. [base |-> request[m].base, row |-> polls'[request[m].id]] \in Version
    BY RequestFields DEF Version
  <1> QED BY <1>1, RequestFields DEF Remember, TypeOK

LEMMA NextType == TypeOK /\ [Next]_vars => TypeOK'
  <1> SUFFICES ASSUME TypeOK, [Next]_vars PROVE TypeOK'
    OBVIOUS
  <1> USE PollsAssumption
  <1>1. CASE Tick
    BY <1>1 DEF Tick, TypeOK, Times
  <1>2. ASSUME NEW m \in Managers, ManagementStep(m)
        PROVE  TypeOK'
    <2>1. ASSUME NEW u \in Users, NEW p \in PollIds, Create(m, u, p)
          PROVE  TypeOK'
      <3>1. PICK s \in Slugs, o \in OptionLists, c \in Times \cup {NoTime} :
              request' = [request EXCEPT ![m] =
                [pc |-> "commit", op |-> "created", actor |-> u, id |-> p,
                 row |-> [tenant |-> TenantOf[u], author |-> u, slug |-> s,
                          options |-> o, status |-> "draft", closesAt |-> c],
                 base |-> 0]]
        BY <2>1 DEF Create
      <3>2. [tenant |-> TenantOf[u], author |-> u, slug |-> s,
             options |-> o, status |-> "draft", closesAt |-> c] \in Row
        BY DEF Row, Statuses
      <3> QED BY <2>1, <3>1, <3>2 DEF Create, TypeOK, Request, Operations
    <2>2. ASSUME NEW u \in Users, NEW p \in PollIds, NEW op \in Operations \ {"created"},
                 Get(m, u, p, op)
          PROVE  TypeOK'
      BY <2>2 DEF Get, TypeOK, Request
    <2>3. CASE DecideUpdate(m)
      <3>b. request[m] # Idle
        BY <2>3 DEF DecideUpdate, Idle
      <3>0. request[m] # Idle /\ request[m].row \in Row
        BY <3>b, RequestFields
      <3>1. PICK s \in Slugs, o \in OptionLists, c \in Times \cup {NoTime} :
              Prepare(m, Rewrite(request[m].row, s, o, request[m].row.status, c))
        BY <2>3 DEF DecideUpdate
      <3>2. Rewrite(request[m].row, s, o, request[m].row.status, c) \in Row
        BY <3>0, RewriteType DEF Row
      <3> QED BY <2>3, <3>0, <3>1, <3>2, PrepareType DEF DecideUpdate, TypeOK
    <2>4. CASE DecideTransition(m)
      <3> DEFINE row == request[m].row
      <3>b. request[m] # Idle /\ request[m].op \in Statuses
        BY <2>4 DEF DecideTransition, Idle, Targets, Statuses
      <3>0. request[m] # Idle /\ row \in Row /\ request[m].op \in Statuses
        BY <3>b, RequestFields
      <3>1. Rewrite(row, row.slug, row.options, request[m].op, row.closesAt) \in Row
        BY <3>0, RewriteType DEF Row
      <3> QED BY <2>4, <3>0, <3>1, PrepareType DEF DecideTransition, TypeOK
    <2>5. CASE DecideDelete(m)
      BY <2>5, RequestFields, PrepareType DEF DecideDelete, TypeOK, Idle
    <2>6. CASE CommitCreate(m)
      <3>1. request[m] # Idle
        BY <2>6 DEF CommitCreate, Idle
      <3>2. polls' \in [PollIds -> Row \cup {NoPoll}]
        BY <2>6, <3>1, RequestFields DEF CommitCreate, TypeOK
      <3> QED BY <2>6, <3>1, <3>2, EnqueueType, RememberType, FinishType DEF CommitCreate, TypeOK
    <2>7. CASE CommitUpdate(m)
      <3>1. request[m] # Idle
        BY <2>7 DEF CommitUpdate, Idle
      <3>2. polls[request[m].id] \in Row
        BY <2>7, <3>1, RequestFields DEF CommitUpdate, Matches, TypeOK
      <3> DEFINE row == request[m].row
      <3>3. Rewrite(polls[request[m].id], row.slug, row.options, row.status, row.closesAt) \in Row
        BY <3>1, <3>2, RequestFields, RewriteType DEF Row
      <3>4. polls' \in [PollIds -> Row \cup {NoPoll}]
        BY <2>7, <3>1, <3>3, RequestFields DEF CommitUpdate, TypeOK
      <3> QED BY <2>7, <3>1, <3>4, EnqueueType, RememberType, FinishType DEF CommitUpdate, TypeOK
    <2>8. CASE CommitDelete(m)
      <3>1. request[m] # Idle
        BY <2>8 DEF CommitDelete, Idle
      <3>2. /\ polls' \in [PollIds -> Row \cup {NoPoll}]
            /\ votes' \in [PollIds -> [Voters -> Cast \cup {NoVote}]]
        BY <2>8, <3>1, RequestFields DEF CommitDelete, TypeOK
      <3> QED BY <2>8, <3>1, <3>2, EnqueueType, RememberType, FinishType DEF CommitDelete, TypeOK
    <2>9. CASE ReturnError(m)
      BY <2>9, FinishType DEF ReturnError, TypeOK
    <2> QED BY <1>2, <2>1, <2>2, <2>3, <2>4, <2>5, <2>6, <2>7, <2>8, <2>9 DEF ManagementStep
  <1>3. ASSUME NEW b \in Ballots, BallotStep(b)
        PROVE  TypeOK'
    <2>1. ASSUME NEW s \in Slugs, GetPublicBySlug(b, s)
          PROVE  TypeOK'
      BY <2>1 DEF GetPublicBySlug, TypeOK, Ballot
    <2>2. ASSUME NEW v \in Voters, DecideVote(b, v)
          PROVE  TypeOK'
      <3>1. /\ ballot[b] # Idle
            /\ ballot[b].pc = "decide"
        BY <2>2 DEF DecideVote, Idle
      <3>2. ballot[b].id \in PollIds /\ ballot[b].row \in Row
        BY <3>1 DEF TypeOK, Ballot
      <3>3. Len(ballot[b].row.options) \in Nat
        BY <3>2 DEF Row
      <3> QED BY <2>2, <3>2, <3>3 DEF DecideVote, TypeOK, Ballot
    <2>3. CASE SaveVote(b)
      <3>1. ballot[b] # Idle /\ ballot[b].pc = "save"
        BY <2>3 DEF SaveVote, Idle
      <3>2. /\ ballot[b].id \in PollIds
            /\ ballot[b].voter \in Voters
            /\ [option |-> ballot[b].option, at |-> ballot[b].at] \in Cast
        BY <3>1 DEF TypeOK, Ballot, Cast
      <3>3. Idle \in Ballot
        BY DEF Ballot
      <3> QED BY <2>3, <3>2, <3>3 DEF SaveVote, TypeOK
    <2>4. CASE CountVotes(b)
      BY <2>4 DEF CountVotes, TypeOK, Ballot
    <2>5. CASE RejectVote(b)
      BY <2>5 DEF RejectVote, TypeOK, Ballot
    <2> QED BY <1>3, <2>1, <2>2, <2>3, <2>4, <2>5 DEF BallotStep
  <1>4. CASE UNCHANGED vars
    BY <1>4 DEF vars, TypeOK
  <1> QED BY <1>1, <1>2, <1>3, <1>4 DEF Next

\* Every reachable state has the shape TypeOK describes.
THEOREM TypeCorrect == Spec => []TypeOK
  BY InitType, NextType, PTL DEF Spec

-----------------------------------------------------------------------------
(***************************************************************************)
(* The audit trail is the history of the polls.                            *)
(***************************************************************************)

\* The outbox row a request's transaction inserts.
EntryOf(r) ==
  [action |-> r.op, actor |-> r.actor, slug |-> r.row.slug, status |-> r.row.status]

\* What enqueueAudit does to the trails.
LEMMA EnqueueEffect ==
  ASSUME TypeOK, NEW m \in Managers, request[m] # Idle, EnqueueAudit(m)
  PROVE  LET r == request[m]
             p == r.id
         IN /\ EntryOf(r) \in Entry
            /\ trail[p] \in Seq(Entry)
            /\ trail'[p] = Append(trail[p], EntryOf(r))
            /\ trail'[p] # <<>>
            /\ \A q \in PollIds \ {p} : trail'[q] = trail[q]
  <1> DEFINE r == request[m]
             p == r.id
  <1>1. p \in PollIds /\ trail[p] \in Seq(Entry) /\ trail \in [PollIds -> Seq(Entry)]
    BY RequestFields DEF TypeOK
  <1>2. EntryOf(r) \in Entry
    BY RequestFields DEF EntryOf, Entry, Row
  <1>3. trail'[p] = Append(trail[p], EntryOf(r)) /\ \A q \in PollIds \ {p} : trail'[q] = trail[q]
    BY <1>1 DEF EnqueueAudit, EntryOf
  <1>4. Append(trail[p], EntryOf(r)) # <<>>
    BY <1>1, <1>2, AppendProperties
  <1> QED BY <1>1, <1>2, <1>3, <1>4

\* A creation in flight has its id to itself; every other request in flight read
\* a row, so the trail of its poll has begun.
RequestsKnowTheirPoll ==
  \A m \in Managers : request[m] # Idle =>
    /\ request[m].op = "created" =>
         /\ trail[request[m].id] = <<>>
         /\ \A n \in Managers \ {m} : request[n] # Idle => request[n].id # request[m].id
    /\ request[m].op # "created" => trail[request[m].id] # <<>>

\* AuditTrailFaithful for one poll, as a predicate on its trail and its row.
Faithful(t, row) ==
  /\ \A i \in 1..Len(t) :
       /\ t[i].action = "created" <=> i = 1
       /\ t[i].action = "deleted" => i = Len(t)
  /\ row = NoPoll <=> (Len(t) = 0 \/ t[Len(t)].action = "deleted")
  /\ row # NoPoll => t[Len(t)].status = row.status /\ t[Len(t)].slug = row.slug

LEMMA FaithfulEquivalence ==
  AuditTrailFaithful <=> \A p \in PollIds : Faithful(trail[p], polls[p])
  BY DEF AuditTrailFaithful, Faithful

\* One more entry keeps the trail faithful when it opens the trail exactly if it
\* records a creation, follows a live row otherwise, and names the new row.
LEMMA AppendFaithful ==
  ASSUME NEW t \in Seq(Entry), NEW e \in Entry, NEW old, NEW row,
         Faithful(t, old),
         e.action = "created" <=> t = <<>>,
         t # <<>> => old # NoPoll,
         row = NoPoll <=> e.action = "deleted",
         row # NoPoll => e.status = row.status /\ e.slug = row.slug
  PROVE  Faithful(Append(t, e), row)
  <1> DEFINE u == Append(t, e)
             n == Len(t)
  <1>1. /\ n \in Nat /\ (t = <<>> <=> n = 0)
        /\ Len(u) = n + 1
        /\ u[n + 1] = e
        /\ \A i \in 1..n : u[i] = t[i]
    BY AppendProperties
  <1> HIDE DEF u, n
  <1>2. \A i \in 1..n : t[i].action # "deleted"
    BY <1>1 DEF Faithful, n
  <1>3. \A i \in 1..n : t[i].action = "created" <=> i = 1
    BY DEF Faithful, n
  <1>4. ASSUME NEW i \in 1..n + 1
        PROVE  /\ u[i].action = "created" <=> i = 1
               /\ u[i].action = "deleted" => i = n + 1
    <2>1. CASE i = n + 1
      BY <1>1, <2>1
    <2>2. CASE i \in 1..n
      BY <1>1, <1>2, <1>3, <2>2
    <2> QED BY <1>1, <1>4, <2>1, <2>2
  <1>5. Faithful(u, row)
    BY <1>1, <1>4 DEF Faithful
  <1> QED BY <1>5 DEF u

\* A request that ends without a write leaves what it knew true of the others.
LEMMA FinishKnows ==
  ASSUME TypeOK, RequestsKnowTheirPoll, NEW m \in Managers,
         request' = [request EXCEPT ![m] = Idle],
         \A n \in Managers \ {m} : request[n] # Idle =>
           (/\ request[n].op = "created" => trail'[request[n].id] = trail[request[n].id]
            /\ trail[request[n].id] # <<>> => trail'[request[n].id] # <<>>)
  PROVE  RequestsKnowTheirPoll'
  BY DEF TypeOK, RequestsKnowTheirPoll

LEMMA NextTrail ==
  TypeOK /\ AuditTrailFaithful /\ RequestsKnowTheirPoll /\ [Next]_vars
    => AuditTrailFaithful' /\ RequestsKnowTheirPoll'
  <1> SUFFICES ASSUME TypeOK, AuditTrailFaithful, RequestsKnowTheirPoll, [Next]_vars
               PROVE  AuditTrailFaithful' /\ RequestsKnowTheirPoll'
    OBVIOUS
  <1>1. CASE UNCHANGED <<polls, trail, request>>
    BY <1>1 DEF AuditTrailFaithful, RequestsKnowTheirPoll
  <1>2. ASSUME NEW m \in Managers, NEW u \in Users, NEW p \in PollIds, Create(m, u, p)
        PROVE  AuditTrailFaithful' /\ RequestsKnowTheirPoll'
    <2>1. UNCHANGED <<polls, trail>>
      BY <1>2 DEF Create
    <2>2. /\ request'[m].op = "created" /\ request'[m].id = p
          /\ \A n \in Managers \ {m} : request'[n] = request[n]
      BY <1>2 DEF Create, TypeOK
    <2>3. trail[p] = <<>> /\ \A n \in Managers : request[n] # Idle => request[n].id # p
      BY <1>2 DEF Create, Fresh
    <2>4. RequestsKnowTheirPoll'
      BY <2>1, <2>2, <2>3 DEF RequestsKnowTheirPoll
    <2> QED BY <2>1, <2>4 DEF AuditTrailFaithful
  <1>3. ASSUME NEW m \in Managers, NEW u \in Users, NEW p \in PollIds,
               NEW op \in Operations \ {"created"}, Get(m, u, p, op)
        PROVE  AuditTrailFaithful' /\ RequestsKnowTheirPoll'
    <2>1. UNCHANGED <<polls, trail>> /\ polls[p] # NoPoll
      BY <1>3 DEF Get
    <2>2. /\ request'[m].op = op /\ request'[m].id = p
          /\ \A n \in Managers \ {m} : request'[n] = request[n]
      BY <1>3 DEF Get, TypeOK
    <2>3. trail[p] # <<>>
      BY <2>1 DEF AuditTrailFaithful
    <2>4. RequestsKnowTheirPoll'
      BY <2>1, <2>2, <2>3 DEF RequestsKnowTheirPoll
    <2> QED BY <2>1, <2>4 DEF AuditTrailFaithful
  <1>4. ASSUME NEW m \in Managers, request[m] # Idle,
               NEW row, Prepare(m, row), UNCHANGED <<polls, trail>>
        PROVE  AuditTrailFaithful' /\ RequestsKnowTheirPoll'
    <2>1. /\ request'[m].op = request[m].op /\ request'[m].id = request[m].id
          /\ \A n \in Managers \ {m} : request'[n] = request[n]
      BY <1>4 DEF Prepare, TypeOK
    <2>2. RequestsKnowTheirPoll'
      BY <1>4, <2>1 DEF RequestsKnowTheirPoll
    <2> QED BY <1>4, <2>2 DEF AuditTrailFaithful
  <1>5. ASSUME NEW m \in Managers,
               CommitCreate(m) \/ CommitUpdate(m) \/ CommitDelete(m)
        PROVE  AuditTrailFaithful' /\ RequestsKnowTheirPoll'
    <2> DEFINE r == request[m]
               p == r.id
    <2>1. r # Idle /\ EnqueueAudit(m) /\ request' = [request EXCEPT ![m] = Idle]
      BY <1>5 DEF CommitCreate, CommitUpdate, CommitDelete, Idle
    <2>2. p \in PollIds /\ r.row \in Row /\ r.op \in Operations
      BY <2>1, RequestFields
    <2>3. /\ EntryOf(r) \in Entry
          /\ trail[p] \in Seq(Entry)
          /\ trail'[p] = Append(trail[p], EntryOf(r))
          /\ trail'[p] # <<>>
          /\ \A q \in PollIds \ {p} : trail'[q] = trail[q]
      BY <2>1, EnqueueEffect
    <2>4. \A q \in PollIds \ {p} : polls'[q] = polls[q]
      BY <1>5, <2>2 DEF CommitCreate, CommitUpdate, CommitDelete, TypeOK
    <2>5. \A q \in PollIds \ {p} : Faithful(trail'[q], polls'[q])
      BY <2>3, <2>4, FaithfulEquivalence
    <2>6. Faithful(trail[p], polls[p])
      BY <2>2, FaithfulEquivalence
    <2>7. /\ EntryOf(r).action = r.op
          /\ EntryOf(r).status = r.row.status
          /\ EntryOf(r).slug = r.row.slug
      BY DEF EntryOf
    <2>8. RequestsKnowTheirPoll'
      <3>1. ASSUME NEW q \in Managers \ {m}, request[q] # Idle
            PROVE  /\ request[q].op = "created" => trail'[request[q].id] = trail[request[q].id]
                   /\ trail[request[q].id] # <<>> => trail'[request[q].id] # <<>>
        <4>1. request[q].id \in PollIds
          BY <3>1, RequestFields
        <4>2. request[q].op = "created" => request[q].id # p
          BY <2>1, <3>1 DEF RequestsKnowTheirPoll
        <4> QED BY <2>3, <4>1, <4>2
      <3> QED BY <2>1, <3>1, FinishKnows
    <2>9. Faithful(trail'[p], polls'[p])
      <3>1. CASE CommitCreate(m)
        <4>1. r.op = "created" /\ trail[p] = <<>>
          BY <2>1, <3>1 DEF CommitCreate, RequestsKnowTheirPoll
        <4>2. polls'[p] = r.row /\ polls'[p] # NoPoll
          BY <2>2, <3>1, PollsAssumption DEF CommitCreate, TypeOK
        <4>3. /\ EntryOf(r).action = "created" /\ EntryOf(r).action # "deleted"
              /\ EntryOf(r).status = polls'[p].status /\ EntryOf(r).slug = polls'[p].slug
          BY <2>7, <4>1, <4>2
        <4>4. Faithful(Append(trail[p], EntryOf(r)), polls'[p])
          BY <2>3, <2>6, <4>1, <4>2, <4>3, AppendFaithful
        <4> QED BY <2>3, <4>4
      <3>2. CASE CommitUpdate(m)
        <4>1. r.op # "created" /\ r.op # "deleted"
          BY <3>2 DEF CommitUpdate, Targets
        <4>2. polls[p] # NoPoll /\ trail[p] # <<>>
          BY <2>1, <3>2, <4>1 DEF CommitUpdate, Matches, RequestsKnowTheirPoll
        <4>3. polls'[p] = Rewrite(polls[p], r.row.slug, r.row.options, r.row.status, r.row.closesAt)
          BY <2>2, <3>2 DEF CommitUpdate, TypeOK
        <4>4. polls[p] \in Row
          BY <2>2, <4>2 DEF TypeOK
        <4>5. polls'[p] \in Row
          BY <2>2, <4>3, <4>4, RewriteType DEF Row
        <4>6. /\ polls'[p] # NoPoll
              /\ polls'[p].status = r.row.status /\ polls'[p].slug = r.row.slug
          BY <4>3, <4>5, PollsAssumption DEF Rewrite
        <4>7. /\ EntryOf(r).action # "created" /\ EntryOf(r).action # "deleted"
              /\ EntryOf(r).status = polls'[p].status /\ EntryOf(r).slug = polls'[p].slug
          BY <2>7, <4>1, <4>6
        <4>8. Faithful(Append(trail[p], EntryOf(r)), polls'[p])
          BY <2>3, <2>6, <4>2, <4>6, <4>7, AppendFaithful
        <4> QED BY <2>3, <4>8
      <3>3. CASE CommitDelete(m)
        <4>1. r.op = "deleted" /\ polls[p] # NoPoll
          BY <3>3 DEF CommitDelete, Matches
        <4>2. trail[p] # <<>>
          BY <2>1, <4>1 DEF RequestsKnowTheirPoll
        <4>3. polls'[p] = NoPoll
          BY <2>2, <3>3 DEF CommitDelete, TypeOK
        <4>4. EntryOf(r).action # "created" /\ EntryOf(r).action = "deleted"
          BY <2>7, <4>1
        <4>5. Faithful(Append(trail[p], EntryOf(r)), polls'[p])
          BY <2>3, <2>6, <4>1, <4>2, <4>3, <4>4, AppendFaithful
        <4> QED BY <2>3, <4>5
      <3> QED BY <1>5, <3>1, <3>2, <3>3
    <2> QED BY <2>5, <2>8, <2>9, FaithfulEquivalence DEF Faithful, AuditTrailFaithful
  <1>6. ASSUME NEW m \in Managers, ReturnError(m)
        PROVE  AuditTrailFaithful' /\ RequestsKnowTheirPoll'
    <2>1. RequestsKnowTheirPoll'
      BY <1>6, FinishKnows DEF ReturnError
    <2> QED BY <1>6, <2>1 DEF ReturnError, AuditTrailFaithful
  <1>7. ASSUME NEW m \in Managers, ManagementStep(m)
        PROVE  AuditTrailFaithful' /\ RequestsKnowTheirPoll'
    <2>1. CASE DecideUpdate(m) \/ DecideTransition(m) \/ DecideDelete(m)
      <3>1. request[m] # Idle /\ UNCHANGED <<polls, trail>>
        BY <2>1 DEF DecideUpdate, DecideTransition, DecideDelete, Idle
      <3>2. \E row : Prepare(m, row)
        BY <2>1 DEF DecideUpdate, DecideTransition, DecideDelete
      <3> QED BY <1>4, <3>1, <3>2
    <2> QED BY <1>2, <1>3, <1>5, <1>6, <1>7, <2>1 DEF ManagementStep
  <1>8. ASSUME Tick \/ \E b \in Ballots : BallotStep(b)
        PROVE  UNCHANGED <<polls, trail, request>>
    BY <1>8 DEF Tick, BallotStep, GetPublicBySlug, DecideVote, SaveVote, CountVotes, RejectVote
  <1>9. CASE UNCHANGED vars
    BY <1>1, <1>9 DEF vars
  <1> QED BY <1>1, <1>7, <1>8, <1>9 DEF Next

\* No management call commits without its audit entry, none leaves an entry
\* without its effect, and nothing brings a deleted poll back, however many
\* requests interleave.
THEOREM AuditTrailCorrect == Spec => []AuditTrailFaithful
  <1>1. Init => AuditTrailFaithful /\ RequestsKnowTheirPoll
    BY DEF Init, AuditTrailFaithful, RequestsKnowTheirPoll
  <1> QED BY <1>1, NextTrail, TypeCorrect, PTL DEF Spec

-----------------------------------------------------------------------------
(***************************************************************************)
(* Votes and their polls.                                                  *)
(***************************************************************************)

\* Which steps write the votes of a poll or take its row away.
LEMMA TableWrites ==
  ASSUME TypeOK, [Next]_vars, NEW p \in PollIds
  PROVE  \/ votes'[p] = votes[p] /\ (polls[p] # NoPoll => polls'[p] # NoPoll)
         \/ polls'[p] = NoPoll /\ votes'[p] = [v \in Voters |-> NoVote]
         \/ polls[p] # NoPoll /\ polls[p].status = "published" /\ polls' = polls
  <1>1. CASE UNCHANGED <<polls, votes>>
    BY <1>1
  <1>2. ASSUME NEW m \in Managers, ManagementStep(m)
        PROVE  \/ votes'[p] = votes[p] /\ (polls[p] # NoPoll => polls'[p] # NoPoll)
               \/ polls'[p] = NoPoll /\ votes'[p] = [v \in Voters |-> NoVote]
    <2>1. CASE CommitCreate(m) \/ CommitUpdate(m)
      <3>1. request[m] # Idle /\ votes' = votes
        BY <2>1 DEF CommitCreate, CommitUpdate, Idle
      <3> DEFINE r == request[m]
      <3>2. r.id \in PollIds /\ r.row \in Row
        BY <3>1, RequestFields
      <3>3. \A q \in PollIds \ {r.id} : polls'[q] = polls[q]
        BY <2>1, <3>2 DEF CommitCreate, CommitUpdate, TypeOK
      <3>4. polls'[r.id] \in Row
        <4>1. CASE CommitCreate(m)
          BY <3>2, <4>1 DEF CommitCreate, TypeOK
        <4>2. CASE CommitUpdate(m)
          <5>1. polls[r.id] \in Row
            BY <3>2, <4>2 DEF CommitUpdate, Matches, TypeOK
          <5>2. polls'[r.id] = Rewrite(polls[r.id], r.row.slug, r.row.options,
                                       r.row.status, r.row.closesAt)
            BY <3>2, <4>2 DEF CommitUpdate, TypeOK
          <5> QED BY <3>2, <5>1, <5>2, RewriteType DEF Row
        <4> QED BY <2>1, <4>1, <4>2
      <3> QED BY <3>1, <3>3, <3>4, PollsAssumption
    <2>2. CASE CommitDelete(m)
      <3>1. request[m] # Idle
        BY <2>2 DEF CommitDelete, Idle
      <3>2. request[m].id \in PollIds
        BY <3>1, RequestFields
      <3> QED BY <2>2, <3>2 DEF CommitDelete, TypeOK
    <2>3. CASE ~(CommitCreate(m) \/ CommitUpdate(m) \/ CommitDelete(m))
      BY <1>2, <2>3 DEF ManagementStep, Create, Get, DecideUpdate, DecideTransition,
                        DecideDelete, ReturnError
    <2> QED BY <2>1, <2>2, <2>3
  <1>3. ASSUME NEW b \in Ballots, SaveVote(b)
        PROVE  \/ votes'[p] = votes[p] /\ polls' = polls
               \/ polls[p] # NoPoll /\ polls[p].status = "published" /\ polls' = polls
    <2>1. ballot[b] # Idle /\ ballot[b].pc = "save"
      BY <1>3 DEF SaveVote, Idle
    <2>2. ballot[b].id \in PollIds
      BY <2>1 DEF TypeOK, Ballot
    <2> QED BY <1>3, <2>2 DEF SaveVote, AcceptsVotes, TypeOK
  <1>4. ASSUME NEW b \in Ballots, BallotStep(b), ~SaveVote(b)
        PROVE  UNCHANGED <<polls, votes>>
    BY <1>4 DEF BallotStep, GetPublicBySlug, DecideVote, CountVotes, RejectVote
  <1>5. CASE Tick
    BY <1>1, <1>5 DEF Tick
  <1>6. CASE UNCHANGED vars
    BY <1>1, <1>6 DEF vars
  <1> QED BY <1>1, <1>2, <1>3, <1>4, <1>5, <1>6 DEF Next

\* No vote outlives its poll, whatever ballots and deletions interleave.
THEOREM VotesAttached == Spec => []VotesBelongToPolls
  <1>1. Init => VotesBelongToPolls
    BY DEF Init, VotesBelongToPolls
  <1>2. TypeOK /\ VotesBelongToPolls /\ [Next]_vars => VotesBelongToPolls'
    BY TableWrites DEF VotesBelongToPolls
  <1> QED BY <1>1, <1>2, TypeCorrect, PTL DEF Spec

\* A tally moves only while its poll is published in the database, or goes with
\* its poll.
THEOREM TallyStable == Spec => TallyMovesOnlyWhilePublished
  <1>1. TypeOK /\ [Next]_vars =>
          [\A p \in PollIds :
             votes'[p] # votes[p] =>
               \/ polls[p] # NoPoll /\ polls[p].status = "published" /\ polls'[p] = polls[p]
               \/ polls'[p] = NoPoll]_vars
    BY TableWrites
  <1> QED BY <1>1, TypeCorrect, PTL DEF Spec, TallyMovesOnlyWhilePublished

-----------------------------------------------------------------------------
(***************************************************************************)
(* Who mutates a poll.                                                     *)
(***************************************************************************)

OwnedBy(row, user) == row.author = user /\ row.tenant = TenantOf[user]

\* What the checks behind a request say about its actor, given the creator of
\* its poll: the row it read still names the creator, whose tenant is the
\* actor's, and before a commit authorizePollMutation has accepted the actor.
Vetted(r, creator) ==
  /\ r.op = "created" => OwnedBy(r.row, r.actor)
  /\ r.op # "created" =>
       /\ OwnedBy(r.row, creator)
       /\ TenantOf[r.actor] = r.row.tenant
       /\ r.pc = "commit" => Authorized(r.row, r.actor)

Authored ==
  /\ \A p \in PollIds : polls[p] # NoPoll => OwnedBy(polls[p], trail[p][1].actor)
  /\ \A m \in Managers :
       request[m] # Idle => Vetted(request[m], trail[request[m].id][1].actor)

\* MutationsAuthorized for one poll, as a predicate on its trail.
Legitimate(t) ==
  \A i \in 1..Len(t) :
    /\ TenantOf[t[i].actor] = TenantOf[t[1].actor]
    /\ t[i].actor = t[1].actor \/ t[i].actor \in Moderators

LEMMA LegitimateEquivalence ==
  /\ MutationsAuthorized <=> \A p \in PollIds : Legitimate(trail[p])
  /\ MutationsAuthorized' <=> \A p \in PollIds : Legitimate(trail'[p])
  BY DEF MutationsAuthorized, Legitimate

\* One more entry keeps the creator, or names one.
LEMMA AppendLegitimate ==
  ASSUME NEW t \in Seq(Entry), NEW e \in Entry
  PROVE  /\ t = <<>> => Append(t, e)[1] = e /\ Legitimate(Append(t, e))
         /\ t # <<>> => Append(t, e)[1] = t[1]
         /\ /\ t # <<>> /\ Legitimate(t)
            /\ TenantOf[e.actor] = TenantOf[t[1].actor]
            /\ e.actor = t[1].actor \/ e.actor \in Moderators
            => Legitimate(Append(t, e))
  <1> DEFINE u == Append(t, e)
             n == Len(t)
  <1>1. /\ n \in Nat /\ (t = <<>> <=> n = 0)
        /\ Len(u) = n + 1
        /\ u[n + 1] = e
        /\ \A i \in 1..n : u[i] = t[i]
    BY AppendProperties
  <1> HIDE DEF u, n
  <1>2. t = <<>> => u[1] = e /\ Legitimate(u)
    BY <1>1 DEF Legitimate
  <1>3. t # <<>> => u[1] = t[1]
    BY <1>1
  <1>4. ASSUME t # <<>>, Legitimate(t), TenantOf[e.actor] = TenantOf[t[1].actor],
               e.actor = t[1].actor \/ e.actor \in Moderators
        PROVE  Legitimate(u)
    <2>1. ASSUME NEW i \in 1..n + 1
          PROVE  /\ TenantOf[u[i].actor] = TenantOf[t[1].actor]
                 /\ u[i].actor = t[1].actor \/ u[i].actor \in Moderators
      <3>1. CASE i = n + 1
        BY <1>1, <1>4, <3>1
      <3>2. CASE i \in 1..n
        BY <1>1, <1>4, <3>2 DEF Legitimate, n
      <3> QED BY <1>1, <2>1, <3>1, <3>2
    <2> QED BY <1>1, <1>3, <1>4, <2>1 DEF Legitimate
  <1> QED BY <1>2, <1>3, <1>4 DEF u

LEMMA NextAuthored ==
  TypeOK /\ AuditTrailFaithful /\ RequestsKnowTheirPoll
    /\ MutationsAuthorized /\ Authored /\ [Next]_vars
    => MutationsAuthorized' /\ Authored'
  <1> SUFFICES ASSUME TypeOK, AuditTrailFaithful, RequestsKnowTheirPoll,
                      MutationsAuthorized, Authored, [Next]_vars
               PROVE  MutationsAuthorized' /\ Authored'
    OBVIOUS
  <1>1. CASE UNCHANGED <<polls, trail, request>>
    BY <1>1 DEF MutationsAuthorized, Authored
  \* A step that only changes one request.
  <1>2. ASSUME NEW m \in Managers, UNCHANGED <<polls, trail>>,
               \A n \in Managers \ {m} : request'[n] = request[n],
               request'[m] # Idle => Vetted(request'[m], trail[request'[m].id][1].actor)
        PROVE  MutationsAuthorized' /\ Authored'
    BY <1>2 DEF MutationsAuthorized, Authored
  <1>3. ASSUME NEW m \in Managers, NEW u \in Users, NEW p \in PollIds, Create(m, u, p)
        PROVE  MutationsAuthorized' /\ Authored'
    <2>1. UNCHANGED <<polls, trail>> /\ \A n \in Managers \ {m} : request'[n] = request[n]
      BY <1>3 DEF Create, TypeOK
    <2>2. /\ request'[m].op = "created" /\ request'[m].actor = u
          /\ request'[m].row.author = u /\ request'[m].row.tenant = TenantOf[u]
      BY <1>3 DEF Create, TypeOK
    <2>3. Vetted(request'[m], trail[request'[m].id][1].actor)
      BY <2>2 DEF Vetted, OwnedBy
    <2> QED BY <1>2, <2>1, <2>3
  <1>4. ASSUME NEW m \in Managers, NEW u \in Users, NEW p \in PollIds,
               NEW op \in Operations \ {"created"}, Get(m, u, p, op)
        PROVE  MutationsAuthorized' /\ Authored'
    <2>1. UNCHANGED <<polls, trail>> /\ \A n \in Managers \ {m} : request'[n] = request[n]
      BY <1>4 DEF Get, TypeOK
    <2>2. request'[m] = [pc |-> "decide", op |-> op, actor |-> u, id |-> p, row |-> polls[p],
                        base |-> Len(versions[p])]
      BY <1>4 DEF Get, TypeOK
    <2>3. polls[p].tenant = TenantOf[u] /\ OwnedBy(polls[p], trail[p][1].actor)
      BY <1>4 DEF Get, Authored
    <2>4. Vetted(request'[m], trail[request'[m].id][1].actor)
      BY <2>2, <2>3 DEF Vetted
    <2> QED BY <1>2, <2>1, <2>4
  <1>5. ASSUME NEW m \in Managers, request[m].op # "created", NEW row,
               row.author = request[m].row.author, row.tenant = request[m].row.tenant,
               Authorized(request[m].row, request[m].actor),
               request[m] # Idle, Prepare(m, row), UNCHANGED <<polls, trail>>
        PROVE  MutationsAuthorized' /\ Authored'
    <2> DEFINE r == request[m]
    <2>1. \A n \in Managers \ {m} : request'[n] = request[n]
      BY <1>5 DEF Prepare, TypeOK
    <2>2. request'[m] = [pc |-> "commit", op |-> r.op, actor |-> r.actor, id |-> r.id, row |-> row,
                        base |-> r.base]
      BY <1>5 DEF Prepare, TypeOK
    <2>3. Vetted(r, trail[r.id][1].actor)
      BY <1>5 DEF Authored
    <2>4. Vetted(request'[m], trail[request'[m].id][1].actor)
      BY <1>5, <2>2, <2>3 DEF Vetted, OwnedBy, Authorized
    <2> QED BY <1>2, <1>5, <2>1, <2>4
  <1>6. ASSUME NEW m \in Managers, DecideUpdate(m) \/ DecideTransition(m) \/ DecideDelete(m)
        PROVE  MutationsAuthorized' /\ Authored'
    <2>1. /\ request[m] # Idle /\ request[m].op # "created"
          /\ Authorized(request[m].row, request[m].actor) /\ UNCHANGED <<polls, trail>>
      BY <1>6 DEF DecideUpdate, DecideTransition, DecideDelete, Idle, Targets
    <2>2. \E row : /\ row.author = request[m].row.author /\ row.tenant = request[m].row.tenant
                   /\ Prepare(m, row)
      <3>1. CASE DecideUpdate(m)
        <4>1. PICK s \in Slugs, o \in OptionLists, c \in Times \cup {NoTime} :
                Prepare(m, Rewrite(request[m].row, s, o, request[m].row.status, c))
          BY <3>1 DEF DecideUpdate
        <4> QED BY <4>1 DEF Rewrite
      <3>2. CASE DecideTransition(m)
        <4>1. \E slug, options, status, closesAt :
                Prepare(m, Rewrite(request[m].row, slug, options, status, closesAt))
          BY <3>2 DEF DecideTransition
        <4> QED BY <4>1 DEF Rewrite
      <3>3. CASE DecideDelete(m)
        BY <3>3 DEF DecideDelete
      <3> QED BY <1>6, <3>1, <3>2, <3>3
    <2> QED BY <1>5, <2>1, <2>2
  <1>7. ASSUME NEW m \in Managers, ReturnError(m)
        PROVE  MutationsAuthorized' /\ Authored'
    <2>1. /\ UNCHANGED <<polls, trail>> /\ request'[m] = Idle
          /\ \A n \in Managers \ {m} : request'[n] = request[n]
      BY <1>7 DEF ReturnError, TypeOK
    <2> QED BY <1>2, <2>1
  <1>8. ASSUME NEW m \in Managers, CommitCreate(m) \/ CommitUpdate(m) \/ CommitDelete(m)
        PROVE  MutationsAuthorized' /\ Authored'
    <2> DEFINE r == request[m]
               p == r.id
               e == EntryOf(r)
    <2>1. /\ r # Idle /\ r.pc = "commit" /\ EnqueueAudit(m)
          /\ request' = [request EXCEPT ![m] = Idle]
      BY <1>8 DEF CommitCreate, CommitUpdate, CommitDelete, Idle
    <2>2. p \in PollIds
      BY <2>1, RequestFields
    <2>3. /\ e \in Entry /\ e.actor = r.actor
          /\ trail[p] \in Seq(Entry)
          /\ trail'[p] = Append(trail[p], e)
          /\ trail'[p] # <<>>
          /\ \A q \in PollIds \ {p} : trail'[q] = trail[q]
      BY <2>1, EnqueueEffect DEF EntryOf
    <2>4. \A q \in PollIds \ {p} : polls'[q] = polls[q]
      BY <1>8, <2>2 DEF CommitCreate, CommitUpdate, CommitDelete, TypeOK
    <2>5. Vetted(r, trail[p][1].actor)
      BY <2>1 DEF Authored
    <2>6. r.op = "created" <=> trail[p] = <<>>
      BY <2>1 DEF RequestsKnowTheirPoll
    <2>7. Legitimate(trail[p])
      BY <2>2, LegitimateEquivalence
    <2>8. Legitimate(trail'[p])
      <3>1. CASE r.op = "created"
        BY <2>3, <2>6, <3>1, AppendLegitimate
      <3>2. CASE r.op # "created"
        <4>1. /\ TenantOf[r.actor] = TenantOf[trail[p][1].actor]
              /\ r.actor = trail[p][1].actor \/ r.actor \in Moderators
          BY <2>1, <2>5, <3>2 DEF Vetted, OwnedBy, Authorized
        <4> QED BY <2>3, <2>6, <2>7, <3>2, <4>1, AppendLegitimate
      <3> QED BY <3>1, <3>2
    <2>9. MutationsAuthorized'
      BY <2>3, <2>8, LegitimateEquivalence
    <2>10. ASSUME polls'[p] # NoPoll
           PROVE  OwnedBy(polls'[p], trail'[p][1].actor)
      <3>1. CASE CommitCreate(m)
        <4>1. r.op = "created" /\ polls'[p] = r.row
          BY <2>2, <3>1 DEF CommitCreate, TypeOK
        <4>2. trail'[p][1] = e
          BY <2>3, <2>6, <4>1, AppendLegitimate
        <4> QED BY <2>3, <2>5, <4>1, <4>2 DEF Vetted
      <3>2. CASE CommitUpdate(m)
        <4>1. r.op # "created" /\ polls[p] # NoPoll
          BY <3>2 DEF CommitUpdate, Matches, Targets
        <4>2. polls'[p].author = polls[p].author /\ polls'[p].tenant = polls[p].tenant
          BY <2>2, <3>2 DEF CommitUpdate, TypeOK, Rewrite
        <4>3. trail'[p][1] = trail[p][1]
          BY <2>3, <2>6, <4>1, AppendLegitimate
        <4>4. OwnedBy(polls[p], trail[p][1].actor)
          BY <2>2, <4>1 DEF Authored
        <4> QED BY <4>2, <4>3, <4>4 DEF OwnedBy
      <3>3. CASE CommitDelete(m)
        BY <2>2, <2>10, <3>3 DEF CommitDelete, TypeOK
      <3> QED BY <1>8, <3>1, <3>2, <3>3
    <2>11. \A q \in PollIds : polls'[q] # NoPoll => OwnedBy(polls'[q], trail'[q][1].actor)
      BY <2>3, <2>4, <2>10 DEF Authored
    <2>12. ASSUME NEW n \in Managers, request'[n] # Idle
           PROVE  Vetted(request'[n], trail'[request'[n].id][1].actor)
      <3>1. n # m /\ request'[n] = request[n] /\ request[n] # Idle
        BY <2>1, <2>12 DEF TypeOK
      <3>2. request[n].id \in PollIds /\ Vetted(request[n], trail[request[n].id][1].actor)
        BY <3>1, RequestFields DEF Authored
      <3>3. CASE request[n].id # p
        BY <2>3, <3>1, <3>2, <3>3
      <3>4. CASE request[n].id = p /\ request[n].op = "created"
        BY <3>1, <3>2, <3>4 DEF Vetted
      <3>5. CASE request[n].id = p /\ request[n].op # "created"
        <4>1. trail[p] # <<>>
          BY <3>1, <3>5 DEF RequestsKnowTheirPoll
        <4>2. trail'[p][1] = trail[p][1]
          BY <2>3, <4>1, AppendLegitimate
        <4> QED BY <3>1, <3>2, <3>5, <4>2
      <3> QED BY <3>3, <3>4, <3>5
    <2> QED BY <2>9, <2>11, <2>12 DEF Authored
  <1>9. ASSUME Tick \/ \E b \in Ballots : BallotStep(b)
        PROVE  UNCHANGED <<polls, trail, request>>
    BY <1>9 DEF Tick, BallotStep, GetPublicBySlug, DecideVote, SaveVote, CountVotes, RejectVote
  <1>10. CASE UNCHANGED vars
    BY <1>1, <1>10 DEF vars
  <1> QED BY <1>1, <1>3, <1>4, <1>6, <1>7, <1>8, <1>9, <1>10 DEF Next, ManagementStep

\* However many requests interleave and however stale the copies they decided
\* on: every recorded mutation of a poll was made by its creator or by a
\* moderator, and by nobody of another tenant.
THEOREM MutationsVetted == Spec => []MutationsAuthorized
  <1>1. Init => AuditTrailFaithful /\ RequestsKnowTheirPoll
    BY DEF Init, AuditTrailFaithful, RequestsKnowTheirPoll
  <1>2. Init => MutationsAuthorized /\ Authored
    BY DEF Init, MutationsAuthorized, Authored
  <1> QED BY <1>1, <1>2, NextTrail, NextAuthored, TypeCorrect, PTL DEF Spec

-----------------------------------------------------------------------------
(***************************************************************************)
(* The versions of a poll.  Nothing is assumed of the requests: any number *)
(* of them decide on copies that others have overtaken.                    *)
(***************************************************************************)

\* The version a commit adds.
VersionOf(r, row) == [base |-> r.base, row |-> row]

\* What the transaction of r leaves of its poll.
Result(r) == IF r.op = "deleted" THEN NoPoll ELSE r.row

\* The three effects of a commit.  It leaves the row it was handed and not a mix
\* of that with the row it found: the columns the UPDATE leaves alone, tenant and
\* author, are the same in both.
LEMMA CommitWrites ==
  ASSUME TypeOK, RequestsKnowTheirPoll, Authored, NEW m \in Managers,
         CommitCreate(m) \/ CommitUpdate(m) \/ CommitDelete(m)
  PROVE  LET r == request[m]
             p == r.id
         IN /\ r # Idle /\ r.pc = "commit" /\ p \in PollIds /\ r.row \in Row
            /\ request' = [request EXCEPT ![m] = Idle]
            /\ ballot' = ballot
            /\ polls'[p] = Result(r)
            /\ trail'[p] = Append(trail[p], EntryOf(r)) /\ EntryOf(r) \in Entry
            /\ versions'[p] = Append(versions[p], VersionOf(r, Result(r)))
            /\ VersionOf(r, Result(r)) \in Version
            /\ \A q \in PollIds \ {p} :
                 polls'[q] = polls[q] /\ trail'[q] = trail[q] /\ versions'[q] = versions[q]
  <1> DEFINE r == request[m]
             p == r.id
  <1>1. /\ r # Idle /\ r.pc = "commit" /\ EnqueueAudit(m) /\ Remember(m)
        /\ request' = [request EXCEPT ![m] = Idle] /\ ballot' = ballot
    BY DEF CommitCreate, CommitUpdate, CommitDelete, Idle
  <1>2. p \in PollIds /\ r.row \in Row /\ r.base \in Nat
    BY <1>1, RequestFields
  <1>3. \A q \in PollIds \ {p} : polls'[q] = polls[q]
    BY <1>2 DEF CommitCreate, CommitUpdate, CommitDelete, TypeOK
  <1>4. /\ trail'[p] = Append(trail[p], EntryOf(r)) /\ EntryOf(r) \in Entry
        /\ \A q \in PollIds \ {p} : trail'[q] = trail[q]
    BY <1>1, EnqueueEffect
  <1>5. polls'[p] = Result(r)
    <2>1. CASE CommitCreate(m)
      BY <1>2, <2>1 DEF CommitCreate, Result, TypeOK
    <2>2. CASE CommitUpdate(m)
      <3>1. r.op \notin {"created", "deleted"} /\ polls[p] # NoPoll
        BY <2>2 DEF CommitUpdate, Matches, Targets
      <3>2. OwnedBy(polls[p], trail[p][1].actor) /\ OwnedBy(r.row, trail[p][1].actor)
        BY <1>1, <1>2, <3>1 DEF Authored, Vetted
      <3>3. polls'[p] = Rewrite(polls[p], r.row.slug, r.row.options, r.row.status,
                                r.row.closesAt)
        BY <1>2, <2>2 DEF CommitUpdate, TypeOK
      <3>4. r.row = Rewrite(r.row, r.row.slug, r.row.options, r.row.status, r.row.closesAt)
        BY <1>2 DEF Row, Rewrite
      <3> QED BY <3>1, <3>2, <3>3, <3>4 DEF Rewrite, OwnedBy, Result
    <2>3. CASE CommitDelete(m)
      BY <1>2, <2>3 DEF CommitDelete, Result, TypeOK
    <2> QED BY <2>1, <2>2, <2>3
  <1>6. VersionOf(r, Result(r)) \in Version
    BY <1>2 DEF VersionOf, Version, Result
  <1>7. /\ versions'[p] = Append(versions[p], VersionOf(r, Result(r)))
        /\ \A q \in PollIds \ {p} : versions'[q] = versions[q]
    BY <1>1, <1>2, <1>5 DEF Remember, VersionOf, TypeOK
  <1> QED BY <1>1, <1>2, <1>3, <1>4, <1>5, <1>6, <1>7

\* Only commits write rows, trails and versions.
LEMMA CommitsWriteRows ==
  ASSUME [Next]_vars
  PROVE  \/ UNCHANGED <<polls, trail, versions>>
         \/ \E m \in Managers : CommitCreate(m) \/ CommitUpdate(m) \/ CommitDelete(m)
  BY DEF Next, vars, Tick, ManagementStep, Create, Get, DecideUpdate, DecideTransition,
         DecideDelete, ReturnError, BallotStep, GetPublicBySlug, DecideVote, SaveVote,
         CountVotes, RejectVote

\* VersionsFollowTheLifecycle for one poll, as a predicate on its trail and its
\* versions.
Lineage(t, h) ==
  \A i \in 1..Len(h) :
    \/ i = 1 /\ h[i].base = 0 /\ h[i].row # NoPoll /\ h[i].row.status = "draft"
    \/ h[i].base \in 1..i - 1 /\ LegalStep(t[i].action, h[h[i].base].row, h[i].row)

\* Trail and versions go in step, and the last version is the row.
Recorded(t, h, row) ==
  /\ Len(h) = Len(t)
  /\ row = IF Len(h) = 0 THEN NoPoll ELSE h[Len(h)].row

\* What a request in flight has of the versions of its poll: a copy of one, or a
\* row one legal step away from one.
Derived(r, h) ==
  /\ r.op = "created" => r.base = 0 /\ r.row.status = "draft"
  /\ r.op # "created" =>
       /\ r.base \in 1..Len(h)
       /\ r.pc = "decide" => r.row = h[r.base].row
       /\ r.pc = "commit" => LegalStep(r.op, h[r.base].row, Result(r))

History ==
  /\ \A p \in PollIds :
       Lineage(trail[p], versions[p]) /\ Recorded(trail[p], versions[p], polls[p])
  /\ \A m \in Managers :
       request[m] # Idle => Derived(request[m], versions[request[m].id])

\* One more entry and one more version keep the lineage and the record.
LEMMA AppendVersion ==
  ASSUME NEW t \in Seq(Entry), NEW e \in Entry, NEW h \in Seq(Version), NEW x \in Version,
         NEW old, Lineage(t, h), Recorded(t, h, old),
         \/ t = <<>> /\ x.base = 0 /\ x.row # NoPoll /\ x.row.status = "draft"
         \/ x.base \in 1..Len(h) /\ LegalStep(e.action, h[x.base].row, x.row)
  PROVE  /\ Lineage(Append(t, e), Append(h, x))
         /\ Recorded(Append(t, e), Append(h, x), x.row)
         /\ Len(Append(h, x)) = Len(h) + 1
         /\ Append(h, x)[Len(h) + 1] = x
         /\ \A i \in 1..Len(h) : Append(h, x)[i] = h[i]
  <1> DEFINE u == Append(t, e)
             g == Append(h, x)
             n == Len(h)
  <1>1. /\ n \in Nat /\ Len(t) = n /\ (t = <<>> => n = 0)
        /\ Len(u) = n + 1 /\ u[n + 1] = e /\ \A i \in 1..n : u[i] = t[i]
        /\ Len(g) = n + 1 /\ g[n + 1] = x /\ \A i \in 1..n : g[i] = h[i]
    BY AppendProperties DEF Recorded
  <1>2. \A i \in 1..n :
          \/ i = 1 /\ h[i].base = 0 /\ h[i].row # NoPoll /\ h[i].row.status = "draft"
          \/ h[i].base \in 1..i - 1 /\ LegalStep(t[i].action, h[h[i].base].row, h[i].row)
    BY DEF Lineage
  <1>3. \/ n = 0 /\ x.base = 0 /\ x.row # NoPoll /\ x.row.status = "draft"
        \/ x.base \in 1..n /\ LegalStep(e.action, h[x.base].row, x.row)
    BY <1>1
  <1> HIDE DEF u, g, n
  <1>4. ASSUME NEW i \in 1..n + 1
        PROVE  \/ i = 1 /\ g[i].base = 0 /\ g[i].row # NoPoll /\ g[i].row.status = "draft"
               \/ g[i].base \in 1..i - 1 /\ LegalStep(u[i].action, g[g[i].base].row, g[i].row)
    <2>1. CASE i = n + 1
      BY <1>1, <1>3, <2>1
    <2>2. CASE i \in 1..n
      <3>1. g[i] = h[i] /\ u[i] = t[i]
        BY <1>1, <2>2
      <3>2. h[i].base \in 1..i - 1 => g[h[i].base] = h[h[i].base]
        BY <1>1, <2>2
      <3> QED BY <1>2, <2>2, <3>1, <3>2
    <2> QED BY <1>1, <1>4, <2>1, <2>2
  <1>5. Lineage(u, g) /\ Recorded(u, g, x.row)
    BY <1>1, <1>4 DEF Lineage, Recorded
  <1> QED BY <1>1, <1>5 DEF u, g, n

\* What is known of a request stays so when its poll gets a version.
LEMMA DerivedStays ==
  ASSUME NEW r, NEW h, NEW g, Derived(r, h), Len(h) \in Nat, Len(g) \in Nat,
         Len(h) <= Len(g), \A i \in 1..Len(h) : g[i] = h[i]
  PROVE  Derived(r, g)
  BY DEF Derived

Sound == /\ TypeOK /\ AuditTrailFaithful /\ RequestsKnowTheirPoll
         /\ MutationsAuthorized /\ Authored

LEMMA SoundInvariant == Spec => []Sound
  <1>1. Init => AuditTrailFaithful /\ RequestsKnowTheirPoll
    BY DEF Init, AuditTrailFaithful, RequestsKnowTheirPoll
  <1>2. Init => MutationsAuthorized /\ Authored
    BY DEF Init, MutationsAuthorized, Authored
  <1> QED BY <1>1, <1>2, NextTrail, NextAuthored, TypeCorrect, PTL DEF Spec, Sound

\* One commit, of the poll it writes: the new version is legal, and the old
\* versions stay where they are.
LEMMA CommitExtends ==
  ASSUME Sound, History, NEW m \in Managers,
         CommitCreate(m) \/ CommitUpdate(m) \/ CommitDelete(m)
  PROVE  LET r == request[m]
             p == r.id
         IN /\ Lineage(trail'[p], versions'[p])
            /\ Recorded(trail'[p], versions'[p], polls'[p])
            /\ Len(versions[p]) \in Nat
            /\ Len(versions'[p]) = Len(versions[p]) + 1
            /\ versions'[p][Len(versions[p]) + 1] = VersionOf(r, Result(r))
            /\ \A i \in 1..Len(versions[p]) : versions'[p][i] = versions[p][i]
            /\ \/ r.op = "created" /\ trail[p] = <<>>
               \/ LegalStep(r.op, versions[p][r.base].row, Result(r))
  <1> DEFINE r == request[m]
             p == r.id
             x == VersionOf(r, Result(r))
             e == EntryOf(r)
  <1> USE DEF Sound
  <1>1. /\ r # Idle /\ r.pc = "commit" /\ p \in PollIds /\ r.row \in Row
        /\ polls'[p] = Result(r)
        /\ trail'[p] = Append(trail[p], e) /\ e \in Entry
        /\ versions'[p] = Append(versions[p], x) /\ x \in Version
    BY CommitWrites
  <1>2. trail[p] \in Seq(Entry) /\ versions[p] \in Seq(Version)
    BY <1>1 DEF TypeOK
  <1>3. /\ Lineage(trail[p], versions[p]) /\ Recorded(trail[p], versions[p], polls[p])
        /\ Derived(r, versions[p])
    BY <1>1 DEF History
  <1>4. x.base = r.base /\ x.row = Result(r) /\ e.action = r.op
    BY DEF VersionOf, EntryOf
  <1>5. CASE r.op = "created"
    <2>1. trail[p] = <<>>
      BY <1>1, <1>5 DEF RequestsKnowTheirPoll
    <2>2. x.base = 0 /\ x.row # NoPoll /\ x.row.status = "draft"
      BY <1>1, <1>3, <1>4, <1>5, PollsAssumption DEF Derived, Result
    <2> HIDE DEF r, p, x, e
    <2>3. /\ Lineage(Append(trail[p], e), Append(versions[p], x))
          /\ Recorded(Append(trail[p], e), Append(versions[p], x), x.row)
          /\ Len(Append(versions[p], x)) = Len(versions[p]) + 1
          /\ Append(versions[p], x)[Len(versions[p]) + 1] = x
          /\ \A i \in 1..Len(versions[p]) : Append(versions[p], x)[i] = versions[p][i]
      BY <1>1, <1>2, <1>3, <2>1, <2>2, AppendVersion
    <2> QED BY <1>1, <1>2, <1>4, <1>5, <2>1, <2>3 DEF r, p, x, e
  <1>6. CASE r.op # "created"
    <2>1. r.base \in 1..Len(versions[p]) /\ LegalStep(r.op, versions[p][r.base].row, Result(r))
      BY <1>1, <1>3, <1>6 DEF Derived
    <2>2. x.base \in 1..Len(versions[p])
          /\ LegalStep(e.action, versions[p][x.base].row, x.row)
      BY <1>4, <2>1
    <2> HIDE DEF r, p, x, e
    <2>3. /\ Lineage(Append(trail[p], e), Append(versions[p], x))
          /\ Recorded(Append(trail[p], e), Append(versions[p], x), x.row)
          /\ Len(Append(versions[p], x)) = Len(versions[p]) + 1
          /\ Append(versions[p], x)[Len(versions[p]) + 1] = x
          /\ \A i \in 1..Len(versions[p]) : Append(versions[p], x)[i] = versions[p][i]
      BY <1>1, <1>2, <1>3, <2>2, AppendVersion
    <2>4. /\ Lineage(trail'[p], versions'[p])
          /\ Recorded(trail'[p], versions'[p], polls'[p])
          /\ Len(versions[p]) \in Nat
          /\ Len(versions'[p]) = Len(versions[p]) + 1
          /\ versions'[p][Len(versions[p]) + 1] = x
          /\ \A i \in 1..Len(versions[p]) : versions'[p][i] = versions[p][i]
      BY <1>1, <1>2, <1>4, <2>3
    <2> QED BY <2>1, <2>4 DEF r, p, x, e
  <1> QED BY <1>5, <1>6

LEMMA NextHistory == Sound /\ History /\ [Next]_vars => History'
  <1> SUFFICES ASSUME Sound, TypeOK, History, [Next]_vars
               PROVE  History'
    BY DEF Sound
  <1>0. \A p \in PollIds : Len(versions[p]) \in Nat
    BY DEF TypeOK
  <1>1. CASE UNCHANGED <<polls, trail, versions, request>>
    BY <1>1 DEF History
  \* A step that only changes one request.
  <1>2. ASSUME NEW m \in Managers, UNCHANGED <<polls, trail, versions>>,
               \A n \in Managers \ {m} : request'[n] = request[n],
               request'[m] # Idle => Derived(request'[m], versions[request'[m].id])
        PROVE  History'
    BY <1>2 DEF History
  <1>3. ASSUME NEW m \in Managers, NEW u \in Users, NEW p \in PollIds, Create(m, u, p)
        PROVE  History'
    <2>1. /\ UNCHANGED <<polls, trail, versions>>
          /\ \A n \in Managers \ {m} : request'[n] = request[n]
      BY <1>3 DEF Create, TypeOK
    <2>2. /\ request'[m].op = "created" /\ request'[m].base = 0
          /\ request'[m].row.status = "draft"
      BY <1>3 DEF Create, TypeOK
    <2>3. Derived(request'[m], versions[request'[m].id])
      BY <2>2 DEF Derived
    <2> QED BY <1>2, <2>1, <2>3
  <1>4. ASSUME NEW m \in Managers, NEW u \in Users, NEW p \in PollIds,
               NEW op \in Operations \ {"created"}, Get(m, u, p, op)
        PROVE  History'
    <2>1. /\ UNCHANGED <<polls, trail, versions>> /\ polls[p] # NoPoll
          /\ \A n \in Managers \ {m} : request'[n] = request[n]
      BY <1>4 DEF Get, TypeOK
    <2>2. request'[m] = [pc |-> "decide", op |-> op, actor |-> u, id |-> p, row |-> polls[p],
                         base |-> Len(versions[p])]
      BY <1>4 DEF Get, TypeOK
    <2>3. Recorded(trail[p], versions[p], polls[p])
      BY DEF History
    <2>4. Len(versions[p]) \in 1..Len(versions[p])
          /\ polls[p] = versions[p][Len(versions[p])].row
      BY <1>0, <2>1, <2>3 DEF Recorded
    <2>5. Derived(request'[m], versions[request'[m].id])
      BY <2>2, <2>4 DEF Derived
    <2> QED BY <1>2, <2>1, <2>5
  <1>5. ASSUME NEW m \in Managers, DecideUpdate(m) \/ DecideTransition(m) \/ DecideDelete(m)
        PROVE  History'
    <2> DEFINE r == request[m]
               from == versions[r.id][r.base].row
    <2>1. /\ r # Idle /\ r.pc = "decide" /\ r.op # "created"
          /\ UNCHANGED <<polls, trail, versions>>
      BY <1>5 DEF DecideUpdate, DecideTransition, DecideDelete, Idle, Targets
    <2>2. r.row \in Row /\ r.row # NoPoll
      BY <2>1, RequestFields, PollsAssumption
    <2>3. r.base \in 1..Len(versions[r.id]) /\ r.row = from
      BY <2>1 DEF History, Derived
    <2>4. ASSUME NEW row, Prepare(m, row),
                 LegalStep(r.op, r.row, IF r.op = "deleted" THEN NoPoll ELSE row)
          PROVE  History'
      <3>1. \A n \in Managers \ {m} : request'[n] = request[n]
        BY <2>4 DEF Prepare, TypeOK
      <3>2. request'[m] = [pc |-> "commit", op |-> r.op, actor |-> r.actor, id |-> r.id,
                           row |-> row, base |-> r.base]
        BY <2>4 DEF Prepare, TypeOK
      <3>3. Result(request'[m]) = IF r.op = "deleted" THEN NoPoll ELSE row
        BY <3>2 DEF Result
      <3>4. Derived(request'[m], versions[request'[m].id])
        BY <2>1, <2>3, <2>4, <3>2, <3>3 DEF Derived
      <3> QED BY <1>2, <2>1, <3>1, <3>4
    <2>5. CASE DecideUpdate(m)
      <3>1. PICK s \in Slugs, o \in OptionLists, c \in Times \cup {NoTime} :
              Prepare(m, Rewrite(r.row, s, o, r.row.status, c))
        BY <2>5 DEF DecideUpdate
      <3> DEFINE row == Rewrite(r.row, s, o, r.row.status, c)
      <3>2. r.op = "updated" /\ r.row.status = "draft" /\ r.op \notin Targets
        BY <2>5 DEF DecideUpdate, Targets
      <3>3. /\ row.tenant = r.row.tenant /\ row.author = r.row.author
            /\ row.status = r.row.status
        BY DEF Rewrite
      <3>4. row \in Row
        BY <2>2, RewriteType DEF Row
      <3> HIDE DEF row
      <3>5. LegalStep(r.op, r.row, IF r.op = "deleted" THEN NoPoll ELSE row)
        BY <2>2, <3>2, <3>3, <3>4, PollsAssumption DEF LegalStep
      <3> QED BY <2>4, <3>1, <3>5 DEF row
    <2>6. CASE DecideTransition(m)
      <3> DEFINE row == Rewrite(r.row, r.row.slug, r.row.options, r.op, r.row.closesAt)
      <3>1. r.op \in Targets /\ ValidTransition(r.row.status, r.op) /\ Prepare(m, row)
        BY <2>6 DEF DecideTransition
      <3>2. r.op \in Statuses /\ r.op # "deleted" /\ r.op # "updated"
        BY <3>1 DEF Targets, Statuses
      <3>3. row \in Row
        BY <2>2, <3>2, RewriteType DEF Row
      <3>4. row.tenant = r.row.tenant /\ row.author = r.row.author
        BY DEF Rewrite
      <3>5. LegalStep(r.op, r.row, row)
        BY <2>2, <3>1, <3>2, <3>3, <3>4, PollsAssumption DEF LegalStep
      <3> QED BY <2>4, <3>1, <3>2, <3>5
    <2>7. CASE DecideDelete(m)
      <3>1. r.op = "deleted" /\ r.row.status = "draft" /\ Prepare(m, r.row)
        BY <2>7 DEF DecideDelete
      <3>2. LegalStep(r.op, r.row, NoPoll)
        BY <2>2, <3>1 DEF LegalStep
      <3> QED BY <2>4, <3>1, <3>2
    <2> QED BY <1>5, <2>5, <2>6, <2>7
  <1>6. ASSUME NEW m \in Managers, CommitCreate(m) \/ CommitUpdate(m) \/ CommitDelete(m)
        PROVE  History'
    <2> DEFINE p == request[m].id
    <2>1. /\ p \in PollIds /\ request' = [request EXCEPT ![m] = Idle]
          /\ \A q \in PollIds \ {p} :
               polls'[q] = polls[q] /\ trail'[q] = trail[q] /\ versions'[q] = versions[q]
      BY <1>6, CommitWrites DEF Sound
    <2>2. /\ Lineage(trail'[p], versions'[p]) /\ Recorded(trail'[p], versions'[p], polls'[p])
          /\ Len(versions'[p]) = Len(versions[p]) + 1
          /\ \A i \in 1..Len(versions[p]) : versions'[p][i] = versions[p][i]
      BY <1>6, CommitExtends
    <2>3. \A q \in PollIds :
            Lineage(trail'[q], versions'[q]) /\ Recorded(trail'[q], versions'[q], polls'[q])
      BY <2>1, <2>2 DEF History
    <2>4. ASSUME NEW n \in Managers, request'[n] # Idle
          PROVE  Derived(request'[n], versions'[request'[n].id])
      <3>1. request'[n] = request[n] /\ request[n] # Idle
        BY <2>1, <2>4 DEF TypeOK
      <3>2. request[n].id \in PollIds /\ Derived(request[n], versions[request[n].id])
        BY <3>1, RequestFields DEF History
      <3>3. CASE request[n].id = p
        <4>1. /\ Len(versions[p]) \in Nat /\ Len(versions'[p]) \in Nat
              /\ Len(versions[p]) <= Len(versions'[p])
          BY <1>0, <2>1, <2>2
        <4> QED BY <2>2, <3>1, <3>2, <3>3, <4>1, DerivedStays
      <3>4. CASE request[n].id # p
        BY <2>1, <3>1, <3>2, <3>4
      <3> QED BY <3>3, <3>4
    <2> QED BY <2>3, <2>4 DEF History
  <1>7. ASSUME NEW m \in Managers, ReturnError(m)
        PROVE  History'
    <2>1. /\ UNCHANGED <<polls, trail, versions>> /\ request'[m] = Idle
          /\ \A n \in Managers \ {m} : request'[n] = request[n]
      BY <1>7 DEF ReturnError, TypeOK
    <2> QED BY <1>2, <2>1
  <1>8. ASSUME Tick \/ \E b \in Ballots : BallotStep(b)
        PROVE  UNCHANGED <<polls, trail, versions, request>>
    BY <1>8 DEF Tick, BallotStep, GetPublicBySlug, DecideVote, SaveVote, CountVotes, RejectVote
  <1>9. CASE UNCHANGED vars
    BY <1>1, <1>9 DEF vars
  <1> QED BY <1>1, <1>3, <1>4, <1>5, <1>6, <1>7, <1>8, <1>9 DEF Next, ManagementStep

LEMMA HistoryInvariant == Spec => [](Sound /\ History)
  <1>1. Init => History
    BY DEF Init, History, Lineage, Recorded
  <1> QED BY <1>1, NextHistory, SoundInvariant, PTL DEF Spec

\* However many management requests overlap: every version of a poll is one legal
\* step from a version it has had, so a stale copy that is written back undoes
\* what came in between as a whole and mixes with none of it.
THEOREM VersionsLegal == Spec => []VersionsFollowTheLifecycle
  <1>1. History => VersionsFollowTheLifecycle
    BY DEF History, Lineage, VersionsFollowTheLifecycle
  <1> QED BY <1>1, HistoryInvariant, PTL

-----------------------------------------------------------------------------
(***************************************************************************)
(* Votes and the versions of their polls.                                  *)
(***************************************************************************)

\* Versions only accumulate, so a poll a stale copy was written over stays one.
LEMMA VersionsGrow ==
  ASSUME Sound, History, [Next]_vars, NEW p \in PollIds
  PROVE  /\ Len(versions[p]) \in Nat /\ Len(versions'[p]) \in Nat
         /\ Len(versions[p]) <= Len(versions'[p])
         /\ \A i \in 1..Len(versions[p]) : versions'[p][i] = versions[p][i]
         /\ Undisturbed(p)' => Undisturbed(p)
  <1>0. Len(versions[p]) \in Nat
    BY DEF Sound, TypeOK
  <1>1. CASE versions'[p] = versions[p]
    BY <1>0, <1>1 DEF Undisturbed
  <1>2. ASSUME NEW m \in Managers, CommitCreate(m) \/ CommitUpdate(m) \/ CommitDelete(m),
               p = request[m].id
        PROVE  /\ Len(versions'[p]) = Len(versions[p]) + 1
               /\ \A i \in 1..Len(versions[p]) : versions'[p][i] = versions[p][i]
    BY <1>2, CommitExtends
  <1>3. ASSUME NEW m \in Managers, CommitCreate(m) \/ CommitUpdate(m) \/ CommitDelete(m),
               p # request[m].id
        PROVE  versions'[p] = versions[p]
    BY <1>3, CommitWrites DEF Sound
  <1>4. ASSUME Len(versions'[p]) = Len(versions[p]) + 1,
               \A i \in 1..Len(versions[p]) : versions'[p][i] = versions[p][i]
        PROVE  /\ Len(versions'[p]) \in Nat /\ Len(versions[p]) <= Len(versions'[p])
               /\ Undisturbed(p)' => Undisturbed(p)
    <2> DEFINE n == Len(versions[p])
    <2>1. n \in Nat /\ Len(versions'[p]) = n + 1
      BY <1>0, <1>4
    <2>2. ASSUME Undisturbed(p)', NEW i \in 1..n
          PROVE  versions[p][i].base = i - 1
      <3>1. versions'[p][i].base = i - 1
        BY <2>1, <2>2 DEF Undisturbed
      <3> QED BY <1>4, <3>1
    <2> QED BY <2>1, <2>2 DEF Undisturbed
  <1> QED BY <1>0, <1>1, <1>2, <1>3, <1>4, CommitsWriteRows

\* A poll past the draft stage stays, with its options and its deadline, as long
\* as no stale copy is written over it.
LEMMA PublishedStays ==
  ASSUME Sound, History, [Next]_vars, NEW p \in PollIds,
         polls[p] # NoPoll, polls[p].status # "draft", Undisturbed(p)'
  PROVE  /\ polls'[p] # NoPoll /\ polls'[p].status # "draft"
         /\ polls'[p].options = polls[p].options /\ polls'[p].closesAt = polls[p].closesAt
  <1>1. CASE polls'[p] = polls[p]
    BY <1>1
  <1>2. ASSUME NEW m \in Managers, CommitCreate(m) \/ CommitUpdate(m) \/ CommitDelete(m),
               p = request[m].id
        PROVE  /\ polls'[p] # NoPoll /\ polls'[p].status # "draft"
               /\ polls'[p].options = polls[p].options
               /\ polls'[p].closesAt = polls[p].closesAt
    <2> DEFINE r == request[m]
               n == Len(versions[p])
    <2>1. /\ polls'[p] = Result(r) /\ r # Idle
      BY <1>2, CommitWrites DEF Sound
    <2>2. /\ n \in Nat /\ Len(versions'[p]) = n + 1
          /\ versions'[p][n + 1] = VersionOf(r, Result(r))
          /\ \/ r.op = "created" /\ trail[p] = <<>>
             \/ LegalStep(r.op, versions[p][r.base].row, Result(r))
      BY <1>2, CommitExtends
    <2>3. r.base = n
      BY <2>2 DEF Undisturbed, VersionOf
    <2>4. Recorded(trail[p], versions[p], polls[p])
      BY DEF History
    <2>5. trail[p] # <<>> /\ polls[p] = versions[p][n].row
      BY <2>4 DEF Recorded
    <2>6. LegalStep(r.op, polls[p], Result(r))
      BY <2>2, <2>3, <2>5
    <2>7. r.op \in Operations /\ r.op # "created"
      <3>1. r.op \in Operations
        BY <2>1, RequestFields DEF Sound
      <3>2. r.op # "created"
        BY <1>2, <2>1, <2>5 DEF Sound, RequestsKnowTheirPoll
      <3> QED BY <3>1, <3>2
    <2>8. r.op \in Targets
      BY <2>6, <2>7 DEF LegalStep, Operations
    <2> QED BY <2>1, <2>6, <2>8 DEF LegalStep, Targets, Rewrite
  <1>3. ASSUME NEW m \in Managers, CommitCreate(m) \/ CommitUpdate(m) \/ CommitDelete(m),
               p # request[m].id
        PROVE  polls'[p] = polls[p]
    BY <1>3, CommitWrites DEF Sound
  <1> QED BY <1>1, <1>2, <1>3, CommitsWriteRows

\* The vote fits some version of the poll, and the row while no stale copy was
\* written over it.
Rests(vote, h, row, undisturbed) ==
  /\ \E i \in 1..Len(h) : Fits(vote, h[i].row)
  /\ undisturbed => Fits(vote, row)

\* What a ballot in flight knows: it read a version of the poll that was out, which
\* has the options and the deadline of the row while no stale copy was written
\* over it; the vote it is about to save rests on the poll.
Informed(x, h, row, undisturbed) ==
  /\ x.pc = "decide" =>
       /\ \E i \in 1..Len(h) : h[i].row = x.row
       /\ x.row.status \in {"published", "closed"}
       /\ undisturbed => /\ row # NoPoll /\ row.status # "draft"
                         /\ row.options = x.row.options /\ row.closesAt = x.row.closesAt
  /\ x.pc = "save" => Rests([option |-> x.option, at |-> x.at], h, row, undisturbed)

VotesRest ==
  \A p \in PollIds, v \in Voters :
    votes[p][v] # NoVote => Rests(votes[p][v], versions[p], polls[p], Undisturbed(p))

BallotsInformed ==
  \A b \in Ballots : ballot[b] # Idle =>
    Informed(ballot[b], versions[ballot[b].id], polls[ballot[b].id], Undisturbed(ballot[b].id))

\* What is known of a vote or a ballot survives every step.
LEMMA KnowledgeStays ==
  ASSUME Sound, History, [Next]_vars, NEW p \in PollIds
  PROVE  /\ \A vote : Rests(vote, versions[p], polls[p], Undisturbed(p)) =>
                        Rests(vote, versions'[p], polls'[p], Undisturbed(p)')
         /\ \A x : Informed(x, versions[p], polls[p], Undisturbed(p)) =>
                     Informed(x, versions'[p], polls'[p], Undisturbed(p)')
  <1> DEFINE h == versions[p]
             g == versions'[p]
  <1>1. /\ Len(h) \in Nat /\ Len(g) \in Nat /\ Len(h) <= Len(g)
        /\ \A i \in 1..Len(h) : g[i] = h[i]
        /\ Undisturbed(p)' => Undisturbed(p)
    BY VersionsGrow
  <1>2. polls[p] # NoPoll /\ polls[p].status # "draft" /\ Undisturbed(p)' =>
          /\ polls'[p] # NoPoll /\ polls'[p].status # "draft"
          /\ polls'[p].options = polls[p].options /\ polls'[p].closesAt = polls[p].closesAt
    BY PublishedStays
  <1> HIDE DEF h, g
  <1>3. \A i \in 1..Len(h) : i \in 1..Len(g) /\ g[i] = h[i]
    BY <1>1
  <1>4. ASSUME NEW vote, Rests(vote, h, polls[p], Undisturbed(p))
        PROVE  Rests(vote, g, polls'[p], Undisturbed(p)')
    <2>1. \E i \in 1..Len(g) : Fits(vote, g[i].row)
      BY <1>3, <1>4 DEF Rests
    <2>2. Undisturbed(p)' => Fits(vote, polls'[p])
      BY <1>1, <1>2, <1>4 DEF Rests, Fits
    <2> QED BY <2>1, <2>2 DEF Rests
  <1>5. ASSUME NEW x, Informed(x, h, polls[p], Undisturbed(p))
        PROVE  Informed(x, g, polls'[p], Undisturbed(p)')
    BY <1>1, <1>2, <1>3, <1>4, <1>5 DEF Informed
  <1> QED BY <1>4, <1>5 DEF h, g

LEMMA NextVotesRest ==
  Sound /\ History /\ VotesRest /\ BallotsInformed /\ [Next]_vars
    => VotesRest' /\ BallotsInformed'
  <1> SUFFICES ASSUME Sound, TypeOK, History, VotesRest, BallotsInformed, [Next]_vars
               PROVE  VotesRest' /\ BallotsInformed'
    BY DEF Sound
  <1>0. \A b \in Ballots : ballot[b] # Idle => ballot[b].id \in PollIds
    BY DEF TypeOK, Ballot
  \* A vote or a ballot that was there before keeps what it has.
  <1>1. ASSUME NEW p \in PollIds, NEW v \in Voters, votes[p][v] # NoVote
        PROVE  Rests(votes[p][v], versions'[p], polls'[p], Undisturbed(p)')
    BY <1>1, KnowledgeStays DEF VotesRest
  <1>2. ASSUME NEW b \in Ballots, ballot[b] # Idle, ballot'[b] = ballot[b]
        PROVE  Informed(ballot[b], versions[ballot[b].id], polls[ballot[b].id],
                        Undisturbed(ballot[b].id))'
    <2>1. PICK p \in PollIds : p = ballot[b].id
      BY <1>0, <1>2
    <2>2. Informed(ballot[b], versions[p], polls[p], Undisturbed(p))
      BY <1>2, <2>1 DEF BallotsInformed
    <2>3. Informed(ballot[b], versions'[p], polls'[p], Undisturbed(p)')
      BY <2>2, KnowledgeStays
    <2> QED BY <1>2, <2>1, <2>3
  <1>3. CASE UNCHANGED <<votes, ballot>>
    <2>1. VotesRest'
      BY <1>1, <1>3 DEF VotesRest
    <2>2. BallotsInformed'
      BY <1>2, <1>3 DEF BallotsInformed, Undisturbed
    <2> QED BY <2>1, <2>2
  <1>4. ASSUME NEW m \in Managers, CommitDelete(m)
        PROVE  VotesRest' /\ BallotsInformed'
    <2>1. ballot' = ballot /\ request[m].id \in PollIds
      BY <1>4, CommitWrites DEF Sound
    <2>2. \A p \in PollIds, v \in Voters : votes'[p][v] = votes[p][v] \/ votes'[p][v] = NoVote
      BY <1>4, <2>1 DEF CommitDelete, TypeOK
    <2>3. VotesRest'
      BY <1>1, <2>2 DEF VotesRest
    <2>4. BallotsInformed'
      BY <1>2, <2>1 DEF BallotsInformed, Undisturbed
    <2> QED BY <2>3, <2>4
  <1>5. ASSUME NEW b \in Ballots, BallotStep(b)
        PROVE  VotesRest' /\ BallotsInformed'
    <2>1. UNCHANGED <<polls, versions>>
      BY <1>5 DEF BallotStep, GetPublicBySlug, DecideVote, SaveVote, CountVotes, RejectVote
    <2>2. \A c \in Ballots \ {b} : ballot'[c] = ballot[c]
      BY <1>5 DEF BallotStep, GetPublicBySlug, DecideVote, SaveVote, CountVotes, RejectVote,
                  TypeOK
    <2>3. ASSUME ballot'[b] # Idle =>
                   Informed(ballot'[b], versions[ballot'[b].id], polls[ballot'[b].id],
                            Undisturbed(ballot'[b].id))
          PROVE  BallotsInformed'
      BY <2>1, <2>2, <2>3 DEF BallotsInformed, Undisturbed
    <2>4. votes' = votes => VotesRest'
      BY <2>1 DEF VotesRest, Undisturbed
    <2>5. ASSUME NEW s \in Slugs, GetPublicBySlug(b, s)
          PROVE  VotesRest' /\ BallotsInformed'
      <3>1. PICK p \in PollIds :
              /\ polls[p] # NoPoll /\ polls[p].status \in {"published", "closed"}
              /\ ballot' = [ballot EXCEPT ![b] = [pc |-> "decide", id |-> p, row |-> polls[p]]]
        BY <2>5 DEF GetPublicBySlug
      <3>2. ballot'[b] = [pc |-> "decide", id |-> p, row |-> polls[p]]
        BY <3>1 DEF TypeOK
      <3>3. Len(versions[p]) \in 1..Len(versions[p])
            /\ versions[p][Len(versions[p])].row = polls[p]
        BY <3>1 DEF History, Recorded, TypeOK
      <3>4. Informed(ballot'[b], versions[p], polls[p], Undisturbed(p))
        BY <3>1, <3>2, <3>3 DEF Informed
      <3> QED BY <2>3, <2>4, <2>5, <3>2, <3>4 DEF GetPublicBySlug
    <2>6. ASSUME NEW v \in Voters, DecideVote(b, v)
          PROVE  VotesRest' /\ BallotsInformed'
      <3> DEFINE x == ballot[b]
      <3>1. x # Idle /\ x.pc = "decide" /\ AcceptsVotes(x.row, now)
        BY <2>6 DEF DecideVote, Idle
      <3>2. PICK i \in 0..Len(x.row.options) - 1 :
              ballot' = [ballot EXCEPT ![b] =
                [pc |-> "save", id |-> x.id, voter |-> v, option |-> i, at |-> now]]
        BY <2>6 DEF DecideVote
      <3>3. ballot'[b] = [pc |-> "save", id |-> x.id, voter |-> v, option |-> i, at |-> now]
        BY <3>2 DEF TypeOK
      <3>4. x.row \in Row /\ i < Len(x.row.options)
        <4>1. x.row \in Row
          BY <3>1 DEF TypeOK, Ballot
        <4>2. Len(x.row.options) \in Nat
          BY <4>1, PollsAssumption DEF Row
        <4> QED BY <4>1, <4>2
      <3> DEFINE vote == [option |-> i, at |-> now]
      <3>5. Fits(vote, x.row)
        BY <3>1, <3>4, PollsAssumption DEF Fits, AcceptsVotes
      <3>6. Informed(x, versions[x.id], polls[x.id], Undisturbed(x.id))
        BY <3>1 DEF BallotsInformed
      <3>7. Undisturbed(x.id) => Fits(vote, polls[x.id])
        BY <3>1, <3>5, <3>6 DEF Informed, Fits
      <3>8. Rests(vote, versions[x.id], polls[x.id], Undisturbed(x.id))
        BY <3>1, <3>5, <3>6, <3>7 DEF Informed, Rests
      <3>9. Informed(ballot'[b], versions[x.id], polls[x.id], Undisturbed(x.id))
        BY <3>3, <3>8 DEF Informed
      <3> QED BY <2>3, <2>4, <2>6, <3>3, <3>9 DEF DecideVote
    <2>7. CASE SaveVote(b)
      <3> DEFINE x == ballot[b]
                 vote == [option |-> x.option, at |-> x.at]
      <3>1. x # Idle /\ x.pc = "save"
        BY <2>7 DEF SaveVote, Idle
      <3>2. x.id \in PollIds /\ x.voter \in Voters
        BY <3>1 DEF TypeOK, Ballot
      <3>3. Rests(vote, versions[x.id], polls[x.id], Undisturbed(x.id))
        BY <3>1 DEF BallotsInformed, Informed
      <3>4. votes' = [votes EXCEPT ![x.id][x.voter] = vote]
        BY <2>7 DEF SaveVote
      <3> HIDE DEF vote
      <3>5. \A p \in PollIds, v \in Voters :
              \/ votes'[p][v] = votes[p][v]
              \/ p = x.id /\ v = x.voter /\ votes'[p][v] = vote
        BY <3>2, <3>4 DEF TypeOK
      <3>6. VotesRest'
        <4>1. \A p \in PollIds : Undisturbed(p)' <=> Undisturbed(p)
          BY <2>1 DEF Undisturbed
        <4>2. ASSUME NEW p \in PollIds, NEW v \in Voters, votes'[p][v] # NoVote
              PROVE  Rests(votes'[p][v], versions[p], polls[p], Undisturbed(p))
          BY <3>3, <3>5, <4>2 DEF VotesRest
        <4>3. ASSUME NEW p \in PollIds, NEW v \in Voters, votes'[p][v] # NoVote
              PROVE  Rests(votes'[p][v], versions'[p], polls'[p], Undisturbed(p)')
          BY <2>1, <4>1, <4>2, <4>3 DEF Rests
        <4> QED BY <4>3 DEF VotesRest
      <3>7. ballot'[b] = Idle
        BY <2>7 DEF SaveVote, TypeOK
      <3> QED BY <2>3, <3>6, <3>7
    <2>8. CASE CountVotes(b) \/ RejectVote(b)
      <3>1. ballot'[b] = Idle /\ votes' = votes
        BY <2>8 DEF CountVotes, RejectVote, TypeOK
      <3> QED BY <2>3, <2>4, <3>1
    <2> QED BY <1>5, <2>5, <2>6, <2>7, <2>8 DEF BallotStep
  <1>6. ASSUME NEW m \in Managers, ManagementStep(m), ~CommitDelete(m)
        PROVE  UNCHANGED <<votes, ballot>>
    BY <1>6 DEF ManagementStep, Create, Get, DecideUpdate, DecideTransition, DecideDelete,
                CommitCreate, CommitUpdate, ReturnError
  <1>7. CASE Tick \/ UNCHANGED vars
    BY <1>3, <1>7 DEF Tick, vars
  <1> QED BY <1>3, <1>4, <1>5, <1>6, <1>7 DEF Next

\* However requests and ballots interleave: every stored vote names an option of,
\* and was cast before the deadline of, a version its poll has had; of the poll as
\* it is, and of every page that is counting it, unless a stale copy was written
\* over the poll.
THEOREM VotesMet == Spec => []VotesMeetTheirPoll
  <1>1. Init => VotesRest /\ BallotsInformed
    BY DEF Init, VotesRest, BallotsInformed
  <1>2. TypeOK /\ VotesRest /\ BallotsInformed => VotesMeetTheirPoll
    <2> SUFFICES ASSUME TypeOK, VotesRest, BallotsInformed
                 PROVE  VotesMeetTheirPoll
      OBVIOUS
    <2>1. ASSUME NEW b \in Ballots, ballot[b].pc = "decide", NEW v \in Voters,
                 votes[ballot[b].id][v] # NoVote, Undisturbed(ballot[b].id)
          PROVE  votes[ballot[b].id][v].option < Len(ballot[b].row.options)
      <3>1. ballot[b] # Idle
        BY <2>1 DEF Idle
      <3>2. ballot[b].id \in PollIds
        BY <3>1 DEF TypeOK, Ballot
      <3>3. polls[ballot[b].id].options = ballot[b].row.options
        BY <2>1, <3>1 DEF BallotsInformed, Informed
      <3>4. Fits(votes[ballot[b].id][v], polls[ballot[b].id])
        BY <2>1, <3>2 DEF VotesRest, Rests
      <3> QED BY <3>3, <3>4 DEF Fits
    <2>2. \A p \in PollIds, v \in Voters : votes[p][v] # NoVote =>
            /\ \E i \in 1..Len(versions[p]) : Fits(votes[p][v], versions[p][i].row)
            /\ Undisturbed(p) => Fits(votes[p][v], polls[p])
      BY DEF VotesRest, Rests
    <2> QED BY <2>1, <2>2 DEF VotesMeetTheirPoll
  <1> QED BY <1>1, <1>2, HistoryInvariant, NextVotesRest, PTL DEF Spec, Sound
=============================================================================
