------------------------------- MODULE Polls -------------------------------
(***************************************************************************)
(* The poll service over its store (reference/polls/pollmodule).           *)
(*                                                                         *)
(* Every management call of Service is "read the row, decide in memory,    *)
(* write it back": store.Get, then the checks on the copy, then one        *)
(* transaction.  A ballot is GetPublicBySlug, the checks, then SaveVote.   *)
(* The database pool holds one connection, so each query or transaction is *)
(* one atomic step, but nothing is held between them: the steps of         *)
(* different requests interleave, and the clock moves between them.        *)
(*                                                                         *)
(* An operator introduced as a "slip" is a mistake this code could have    *)
(* made; nothing uses it but the run that shows a property would notice.   *)
(***************************************************************************)
EXTENDS Naturals, Sequences, Functions

CONSTANTS
  PollIds,      \* ids newID can hand out
  Slugs,        \* well-formed public slugs
  OptionLists,  \* option lists a client may send, valid or not
  MaxOptions,   \* maxOptions
  Tenants,
  Users,        \* authenticated management callers
  Moderators,   \* callers whose identity carries the moderation scope
  TenantOf,     \* the tenant of each caller's identity
  Voters,       \* voter identities (cookie or account)
  Managers,     \* management requests that can be in flight at once
  Ballots,      \* vote requests that can be in flight at once
  MaxTime,      \* bound on the clock
  MaxTrail,     \* bound on the audited mutations of one poll
  NoPoll,       \* no row with this id
  NoTime,       \* closes_at IS NULL
  NoVote        \* no row with this (poll_id, voter_id)

Statuses == {"draft", "published", "closed", "archived"}
Targets == {"published", "closed", "archived"}
Times == 0..MaxTime
Row == [tenant: Tenants, author: Users, slug: Slugs, options: OptionLists,
        status: Statuses, closesAt: Times \cup {NoTime}]
Cast == [option: Nat, at: Times]

ASSUME PollsAssumption ==
  /\ Moderators \subseteq Users
  /\ TenantOf \in [Users -> Tenants]
  /\ \A o \in OptionLists : DOMAIN o = 1..Len(o) /\ Len(o) \in Nat
  /\ MaxOptions \in Nat
  /\ MaxTime \in Nat
  /\ MaxTrail \in Nat
  /\ NoPoll \notin Row
  /\ NoTime \notin Nat
  /\ NoVote \notin Cast

VARIABLES
  polls,    \* poll_polls
  votes,    \* poll_votes, keyed by (poll_id, voter_id)
  trail,    \* the outbox rows of each poll in the order they were committed
  versions, \* history: each poll's row after each commit, and the version (0: none)
            \* that the request which committed it had read
  now,      \* the clock behind Service.now and time.Now
  request,  \* the management requests in flight
  ballot    \* the vote requests in flight

vars == <<polls, votes, trail, versions, now, request, ballot>>

Idle == [pc |-> "idle"]
Operations == {"created", "updated", "deleted"} \cup Targets
Request == {Idle} \cup
  [pc: {"decide", "commit"}, op: Operations, actor: Users, id: PollIds, row: Row, base: Nat]
Ballot == {Idle} \cup
  [pc: {"decide"}, id: PollIds, row: Row] \cup
  [pc: {"save"}, id: PollIds, voter: Voters, option: Nat, at: Times]
Entry == [action: Operations, actor: Users, slug: Slugs, status: Statuses]
Version == [base: Nat, row: Row \cup {NoPoll}]

\* Every variable keeps its shape.
TypeOK ==
  /\ polls \in [PollIds -> Row \cup {NoPoll}]
  /\ votes \in [PollIds -> [Voters -> Cast \cup {NoVote}]]
  /\ trail \in [PollIds -> Seq(Entry)]
  /\ versions \in [PollIds -> Seq(Version)]
  /\ now \in Times
  /\ request \in [Managers -> Request]
  /\ ballot \in [Ballots -> Ballot]

Init ==
  /\ polls = [p \in PollIds |-> NoPoll]
  /\ votes = [p \in PollIds |-> [v \in Voters |-> NoVote]]
  /\ trail = [p \in PollIds |-> <<>>]
  /\ versions = [p \in PollIds |-> <<>>]
  /\ now = 0
  /\ request = [m \in Managers |-> Idle]
  /\ ballot = [b \in Ballots |-> Idle]

-----------------------------------------------------------------------------
(***************************************************************************)
(* The checks of the service, on values.                                   *)
(***************************************************************************)

\* The row with new values in the columns a management call may write.
Rewrite(row, slug, options, status, closesAt) ==
  [tenant |-> row.tenant, author |-> row.author, slug |-> slug, options |-> options,
   status |-> status, closesAt |-> closesAt]

\* normalizeAndValidate: the option list and the deadline of a write.
ValidInput(options, closesAt) ==
  /\ Len(options) >= 2
  /\ Len(options) <= MaxOptions
  /\ IsInjective(options)
  /\ closesAt # NoTime => closesAt > now

\* Slip: any caller of the tenant may change the poll.
AuthorizedByTenant(row, user) == row.tenant = TenantOf[user]

\* authorizePollMutation
Authorized(row, user) == row.author = user \/ user \in Moderators

\* Slip: a closed poll's page still takes ballots.
AcceptsVotesOnPage(row, time) ==
  /\ row.status \in {"published", "closed"}
  /\ row.closesAt # NoTime => time < row.closesAt

\* effectiveStatus(now) = published
AcceptsVotes(row, time) ==
  /\ row.status = "published"
  /\ row.closesAt # NoTime => time < row.closesAt

ValidTransition(current, target) ==
  \/ current = "draft" /\ target = "published"
  \/ current = "published" /\ target = "closed"
  \/ current # "archived" /\ target = "archived"

\* newID never repeats an id: not one that was written, not one in flight.
Fresh(p) ==
  /\ trail[p] = <<>>
  /\ \A m \in Managers : request[m] # Idle => request[m].id # p

\* UNIQUE(slug): no other row holds the slug.
SlugFree(p, slug) ==
  \A q \in PollIds \ {p} : polls[q] # NoPoll => polls[q].slug # slug

\* UPDATE ... WHERE tenant_id = ? AND id = ? (and DELETE) finds its row.
Matches(p, row) == polls[p] # NoPoll /\ polls[p].tenant = row.tenant

-----------------------------------------------------------------------------
(***************************************************************************)
(* Management requests.                                                    *)
(***************************************************************************)

\* Service.Create up to its transaction: everything is decided in memory.
Create(m, user, p) ==
  /\ request[m] = Idle
  /\ Fresh(p)
  /\ \E s \in Slugs, o \in OptionLists, c \in Times \cup {NoTime} :
       /\ ValidInput(o, c)
       /\ request' = [request EXCEPT ![m] =
            [pc |-> "commit", op |-> "created", actor |-> user, id |-> p,
             row |-> [tenant |-> TenantOf[user], author |-> user, slug |-> s,
                      options |-> o, status |-> "draft", closesAt |-> c],
             base |-> 0]]
  /\ UNCHANGED <<polls, votes, trail, versions, now, ballot>>

\* The read that opens Update, Transition and Delete.
Get(m, user, p, op) ==
  /\ request[m] = Idle
  /\ polls[p] # NoPoll
  /\ polls[p].tenant = TenantOf[user]
  /\ request' = [request EXCEPT ![m] =
       [pc |-> "decide", op |-> op, actor |-> user, id |-> p, row |-> polls[p],
        base |-> Len(versions[p])]]
  /\ UNCHANGED <<polls, votes, trail, versions, now, ballot>>

\* Hand the row the transaction will write to the store.
Prepare(m, row) ==
  LET r == request[m] IN
  request' = [request EXCEPT ![m] =
    [pc |-> "commit", op |-> r.op, actor |-> r.actor, id |-> r.id, row |-> row, base |-> r.base]]

\* Service.Update on the row it read.
DecideUpdate(m) ==
  /\ request[m].pc = "decide" /\ request[m].op = "updated"
  /\ Authorized(request[m].row, request[m].actor)
  /\ request[m].row.status = "draft"
  /\ \E s \in Slugs, o \in OptionLists, c \in Times \cup {NoTime} :
       /\ ValidInput(o, c)
       /\ Prepare(m, Rewrite(request[m].row, s, o, request[m].row.status, c))
  /\ UNCHANGED <<polls, votes, trail, versions, now, ballot>>

\* Service.Transition on the row it read.
DecideTransition(m) ==
  /\ request[m].pc = "decide" /\ request[m].op \in Targets
  /\ Authorized(request[m].row, request[m].actor)
  /\ request[m].op = "published" /\ request[m].row.closesAt # NoTime =>
       now < request[m].row.closesAt
  /\ ValidTransition(request[m].row.status, request[m].op)
  /\ LET row == request[m].row
     IN Prepare(m, Rewrite(row, row.slug, row.options, request[m].op, row.closesAt))
  /\ UNCHANGED <<polls, votes, trail, versions, now, ballot>>

\* Service.Delete on the row it read.
DecideDelete(m) ==
  /\ request[m].pc = "decide" /\ request[m].op = "deleted"
  /\ Authorized(request[m].row, request[m].actor)
  /\ request[m].row.status = "draft"
  /\ Prepare(m, request[m].row)
  /\ UNCHANGED <<polls, votes, trail, versions, now, ballot>>

\* enqueueAudit, inside the transaction of the mutation.
EnqueueAudit(m) ==
  LET r == request[m] IN
  /\ Len(trail[r.id]) < MaxTrail
  /\ trail' = [trail EXCEPT ![r.id] = Append(@,
       [action |-> r.op, actor |-> r.actor, slug |-> r.row.slug, status |-> r.row.status])]

\* The row a commit leaves is the next version of its poll.
Remember(m) ==
  LET r == request[m] IN
  versions' = [versions EXCEPT ![r.id] = Append(@, [base |-> r.base, row |-> polls'[r.id]])]

CommitCreate(m) ==
  LET r == request[m] IN
  /\ r.pc = "commit" /\ r.op = "created"
  /\ SlugFree(r.id, r.row.slug)
  /\ polls' = [polls EXCEPT ![r.id] = r.row]
  /\ EnqueueAudit(m)
  /\ Remember(m)
  /\ request' = [request EXCEPT ![m] = Idle]
  /\ UNCHANGED <<votes, now, ballot>>

\* Slip: the update writes the row back whether or not it is still there.
CommitUpdateUpsert(m) ==
  LET r == request[m] IN
  /\ r.pc = "commit" /\ r.op \in {"updated"} \cup Targets
  /\ SlugFree(r.id, r.row.slug)
  /\ polls' = [polls EXCEPT ![r.id] = r.row]
  /\ EnqueueAudit(m)
  /\ Remember(m)
  /\ request' = [request EXCEPT ![m] = Idle]
  /\ UNCHANGED <<votes, now, ballot>>

\* Slip: a transition writes its status alone, over whatever an edit has put in
\* the other columns since they were checked.
CommitUpdateStatusOnly(m) ==
  LET r == request[m] IN
  /\ r.pc = "commit" /\ r.op \in {"updated"} \cup Targets
  /\ Matches(r.id, r.row)
  /\ SlugFree(r.id, r.row.slug)
  /\ polls' = [polls EXCEPT ![r.id] =
       IF r.op = "updated"
       THEN Rewrite(@, r.row.slug, r.row.options, r.row.status, r.row.closesAt)
       ELSE Rewrite(@, @.slug, @.options, r.row.status, @.closesAt)]
  /\ EnqueueAudit(m)
  /\ Remember(m)
  /\ request' = [request EXCEPT ![m] = Idle]
  /\ UNCHANGED <<votes, now, ballot>>

\* store.Update writes every mutable column and looks at none of them.
CommitUpdate(m) ==
  LET r == request[m] IN
  /\ r.pc = "commit" /\ r.op \in {"updated"} \cup Targets
  /\ Matches(r.id, r.row)
  /\ SlugFree(r.id, r.row.slug)
  /\ polls' = [polls EXCEPT ![r.id] =
       Rewrite(@, r.row.slug, r.row.options, r.row.status, r.row.closesAt)]
  /\ EnqueueAudit(m)
  /\ Remember(m)
  /\ request' = [request EXCEPT ![m] = Idle]
  /\ UNCHANGED <<votes, now, ballot>>

\* Slip: the row stays behind with a status of its own.
CommitDeleteSoft(m) ==
  LET r == request[m] IN
  /\ r.pc = "commit" /\ r.op = "deleted"
  /\ Matches(r.id, r.row)
  /\ polls' = [polls EXCEPT ![r.id].status = "deleted"]
  /\ EnqueueAudit(m)
  /\ Remember(m)
  /\ request' = [request EXCEPT ![m] = Idle]
  /\ UNCHANGED <<votes, now, ballot>>

\* store.Delete removes the votes, then the poll, in one transaction.
CommitDelete(m) ==
  LET r == request[m] IN
  /\ r.pc = "commit" /\ r.op = "deleted"
  /\ Matches(r.id, r.row)
  /\ polls' = [polls EXCEPT ![r.id] = NoPoll]
  /\ votes' = [votes EXCEPT ![r.id] = [v \in Voters |-> NoVote]]
  /\ EnqueueAudit(m)
  /\ Remember(m)
  /\ request' = [request EXCEPT ![m] = Idle]
  /\ UNCHANGED <<now, ballot>>

\* A rejection, a rolled-back transaction, a cancelled context or a crash of
\* the process: the request ends and the database stays as it was.
ReturnError(m) ==
  /\ request[m] # Idle
  /\ request' = [request EXCEPT ![m] = Idle]
  /\ UNCHANGED <<polls, votes, trail, versions, now, ballot>>

-----------------------------------------------------------------------------
(***************************************************************************)
(* Ballots.                                                                *)
(***************************************************************************)

GetPublicBySlug(b, slug) ==
  /\ ballot[b] = Idle
  /\ \E p \in PollIds :
       /\ polls[p] # NoPoll
       /\ polls[p].slug = slug
       /\ polls[p].status \in {"published", "closed"}
       /\ ballot' = [ballot EXCEPT ![b] =
            [pc |-> "decide", id |-> p, row |-> polls[p]]]
  /\ UNCHANGED <<polls, votes, trail, versions, now, request>>

\* Slip: the range check lets the index behind the last option through.
DecideVoteOffByOne(b, v) ==
  /\ ballot[b].pc = "decide"
  /\ AcceptsVotes(ballot[b].row, now)
  /\ \E i \in 0..Len(ballot[b].row.options) :
       ballot' = [ballot EXCEPT ![b] =
         [pc |-> "save", id |-> ballot[b].id, voter |-> v, option |-> i, at |-> now]]
  /\ UNCHANGED <<polls, votes, trail, versions, now, request>>

\* Service.Vote between its read and SaveVote: the clock is read here.
DecideVote(b, v) ==
  /\ ballot[b].pc = "decide"
  /\ AcceptsVotes(ballot[b].row, now)
  /\ \E i \in 0..Len(ballot[b].row.options) - 1 :
       ballot' = [ballot EXCEPT ![b] =
         [pc |-> "save", id |-> ballot[b].id, voter |-> v, option |-> i, at |-> now]]
  /\ UNCHANGED <<polls, votes, trail, versions, now, request>>

\* Slip: SaveVote trusts the read the ballot began with.
SaveVoteUnchecked(b) ==
  LET x == ballot[b] IN
  /\ x.pc = "save"
  /\ votes' = [votes EXCEPT ![x.id][x.voter] = [option |-> x.option, at |-> x.at]]
  /\ ballot' = [ballot EXCEPT ![b] = Idle]
  /\ UNCHANGED <<polls, trail, versions, now, request>>

\* SaveVote rechecks existence, status and deadline in its transaction.
SaveVote(b) ==
  LET x == ballot[b] IN
  /\ x.pc = "save"
  /\ polls[x.id] # NoPoll
  /\ AcceptsVotes(polls[x.id], x.at)
  /\ votes' = [votes EXCEPT ![x.id][x.voter] = [option |-> x.option, at |-> x.at]]
  /\ ballot' = [ballot EXCEPT ![b] = Idle]
  /\ UNCHANGED <<polls, trail, versions, now, request>>

\* A page or a result is shown instead: publicResult counts the votes of the poll
\* it read before, in a query of its own, and the request ends.
CountVotes(b) ==
  /\ ballot[b].pc = "decide"
  /\ ballot' = [ballot EXCEPT ![b] = Idle]
  /\ UNCHANGED <<polls, votes, trail, versions, now, request>>

RejectVote(b) ==
  /\ ballot[b] # Idle
  /\ ballot' = [ballot EXCEPT ![b] = Idle]
  /\ UNCHANGED <<polls, votes, trail, versions, now, request>>

-----------------------------------------------------------------------------
Tick ==
  /\ now < MaxTime
  /\ now' = now + 1
  /\ UNCHANGED <<polls, votes, trail, versions, request, ballot>>

ManagementStep(m) ==
  \/ \E u \in Users, p \in PollIds : Create(m, u, p)
  \/ \E u \in Users, p \in PollIds, op \in Operations \ {"created"} : Get(m, u, p, op)
  \/ DecideUpdate(m)
  \/ DecideTransition(m)
  \/ DecideDelete(m)
  \/ CommitCreate(m)
  \/ CommitUpdate(m)
  \/ CommitDelete(m)
  \/ ReturnError(m)

BallotStep(b) ==
  \/ \E s \in Slugs : GetPublicBySlug(b, s)
  \/ \E v \in Voters : DecideVote(b, v)
  \/ SaveVote(b)
  \/ CountVotes(b)
  \/ RejectVote(b)

Next ==
  \/ Tick
  \/ \E m \in Managers : ManagementStep(m)
  \/ \E b \in Ballots : BallotStep(b)

Spec == Init /\ [][Next]_vars

-----------------------------------------------------------------------------
(***************************************************************************)
(* What holds however the requests interleave.                             *)
(***************************************************************************)

\* A vote row never outlives its poll: Delete takes the votes with it, and a
\* ballot still in flight when the poll goes is refused by SaveVote.
VotesBelongToPolls ==
  \A p \in PollIds, v \in Voters : votes[p][v] # NoVote => polls[p] # NoPoll

\* The outbox is the history of the row: it opens with the creation, closes
\* with the deletion if there was one, and its last entry names the status and
\* the slug the row has now.  No mutation commits without its entry, no entry
\* without its mutation, and nothing brings a deleted poll back.
AuditTrailFaithful ==
  \A p \in PollIds :
    LET n == Len(trail[p]) IN
    /\ \A i \in 1..n :
         /\ trail[p][i].action = "created" <=> i = 1
         /\ trail[p][i].action = "deleted" => i = n
    /\ polls[p] = NoPoll <=> (n = 0 \/ trail[p][n].action = "deleted")
    /\ polls[p] # NoPoll =>
         /\ trail[p][n].status = polls[p].status
         /\ trail[p][n].slug = polls[p].slug

\* Whoever mutated a poll belongs to the tenant of its creator, and is the
\* creator or a moderator: the check is made on an earlier read of the row, and
\* still holds of the row the transaction reaches.
MutationsAuthorized ==
  \A p \in PollIds : \A i \in 1..Len(trail[p]) :
    LET creator == trail[p][1].actor
        actor == trail[p][i].actor
    IN /\ TenantOf[actor] = TenantOf[creator]
       /\ actor = creator \/ actor \in Moderators

\* A tally changes only while the row is published at that very moment, whatever
\* the row was when the ballot was read; a tally is emptied only with its poll.
TallyMovesOnlyWhilePublished ==
  [][\A p \in PollIds :
       votes'[p] # votes[p] =>
         \/ polls[p] # NoPoll /\ polls[p].status = "published" /\ polls'[p] = polls[p]
         \/ polls'[p] = NoPoll]_vars

-----------------------------------------------------------------------------
(***************************************************************************)
(* The lifecycle.  A copy that another commit has overtaken can still be   *)
(* written back, so with overlapping requests it bounds the damage instead *)
(* of excluding it.                                                        *)
(***************************************************************************)

\* What a management call may make of the row it read.
LegalStep(op, from, to) ==
  /\ from # NoPoll
  /\ IF op = "deleted"
     THEN from.status = "draft" /\ to = NoPoll
     ELSE /\ to # NoPoll
          /\ to.tenant = from.tenant /\ to.author = from.author
          /\ op = "updated" => from.status = "draft" /\ to.status = "draft"
          /\ op \in Targets =>
               /\ ValidTransition(from.status, op)
               /\ to = Rewrite(from, from.slug, from.options, op, from.closesAt)

\* However requests overlap, every version of a poll is one legal step away from
\* an earlier version of it: a stale commit takes the poll back to the state its
\* caller read and goes on from there, as a whole.  No commit mixes what it
\* checked with columns it has never seen, and a poll is created only once.
VersionsFollowTheLifecycle ==
  \A p \in PollIds : \A i \in 1..Len(versions[p]) :
    LET version == versions[p][i] IN
    \/ /\ i = 1 /\ version.base = 0
       /\ version.row # NoPoll /\ version.row.status = "draft"
    \/ /\ version.base \in 1..i - 1
       /\ LegalStep(trail[p][i].action, versions[p][version.base].row, version.row)

\* No stale copy was ever written over a later version of the poll.
Undisturbed(p) == \A i \in 1..Len(versions[p]) : versions[p][i].base = i - 1

\* The vote names an option of the row, was cast before its deadline, and the
\* row is past the draft stage.
Fits(vote, row) ==
  /\ row # NoPoll
  /\ row.status # "draft"
  /\ vote.option < Len(row.options)
  /\ row.closesAt # NoTime => vote.at < row.closesAt

\* Every stored vote fits a version its poll has had, and the poll as it is now
\* unless a stale copy was written over it; so do, of such a poll, the votes that
\* a page counts for the options it read one query earlier.
VotesMeetTheirPoll ==
  /\ \A p \in PollIds, v \in Voters : votes[p][v] # NoVote =>
       /\ \E i \in 1..Len(versions[p]) : Fits(votes[p][v], versions[p][i].row)
       /\ Undisturbed(p) => Fits(votes[p][v], polls[p])
  /\ \A b \in Ballots, v \in Voters :
       LET x == ballot[b] IN
       x.pc = "decide" /\ votes[x.id][v] # NoVote /\ Undisturbed(x.id) =>
         votes[x.id][v].option < Len(x.row.options)

\* "Options become immutable once voting can begin."
OptionsImmutableOncePublished ==
  [][\A p \in PollIds :
       polls[p] # NoPoll /\ polls[p].status # "draft" /\ polls'[p] # NoPoll =>
         polls'[p].options = polls[p].options]_vars

\* "Delete permanently removes drafts only", so live results are never erased.
LiveResultsNeverErased ==
  [][\A p \in PollIds :
       polls[p] # NoPoll /\ polls'[p] = NoPoll => polls[p].status = "draft"]_vars
=============================================================================
