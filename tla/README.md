# pk-apps in TLA+

This directory specifies the parts of `pk-apps` whose correctness depends on
interleaving, ordering, crashes or clocks, checks them with TLC on small
instances and proves every safety property the passing runs check with TLAPS,
for any value of the constants. Paths below are relative to the repository's `src/`. `PROJECT.json` maps
every definition that stands for code to the lines it stands for.

## 1. The system

`pkg/starterapp` builds one HTTP process out of platform-kit modules (identity,
auth, rbac, tenant, audit) and contributed modules;
`reference/polls/pollmodule` is the contributed module that ships with the
repository, `reference/custommodule` a smaller example. State lives in SQLite
(one process) or PostgreSQL (any number of replicas).

| Component | State | Operations | Talks to | What is hard | What makes it correct |
|---|---|---|---|---|---|
| Poll service (`service.go`, `store.go`, `entities.go`, `handler.go`) | tables `poll_polls`, `poll_votes` | Create, Update, Transition, Delete, List, Get, Vote, Results | store, outbox | each call is read, decide, write in separate transactions | votes belong to polls, tallies move only while voting is open, each write is a legal step from a state the poll has had, only owner or moderator of the tenant mutates |
| Audit outbox (`service.go`, `store.go`, migration 0002) | table `poll_audit_outbox` | enqueue in the mutation's transaction, FlushAudit | platform audit service | overlapping flushes, failure or death between Record and mark | each event once in the log, marked only after, in order, eventually |
| Vote limiter (`voter.go`) | in-memory map of fixed windows | allow, evictExpired | poll handler | clock read before the mutex, eviction under pressure | bounded rate per network, no running window forgotten |
| Voter identity (`voter.go`, `store.go`, `handler.go`) | signing secret in the database, cookies in browsers | mint, verify, vote as | poll handler | lost answers, ballots sent at once, restarts, accounts used on several browsers, two first boots | one choice per browser, its page shows its visitor's choice, one secret |
| Poll pages, metrics | none of their own | render, count | service | nothing | layout |
| Poll migrations (`migrations.go`) | migration ledger | apply, adopt a legacy schema, refuse a newer one | store | crash between two statements | applied once, in order |
| Login policy (`login_policy.go`) | in-memory map of attempts, saturation mark | AllowLogin, RecordFailure, RecordSuccess, pruning | platform auth service | reports late or out of order, the map at its bound | bounded map, no lock forgotten under pressure, budget of attempts held |
| Boot and seed (`app.go`, `bootstrap.go`, `seed/`, `seed_params.go`, `stores.go`, `dialect.go`) | identity ledger, tenant, administrator, branding | BuildApp's steps | database, schema lock | replicas boot together, crash between any two steps | schema created by one, never adopts a database of unknown identity, a crash never strands it, the operator's password is kept |
| Schema lock (`schemalock.go`) | a PostgreSQL advisory lock | lock, unlock | boot | cancelled contexts, pooled sessions | exclusive, always given back |
| Serving and shutdown (`serve.go`) | listener, pool | Run, drain, Close | boot | the listener fails as the signal arrives | pool closed once, after the requests |
| Request perimeter (`identity.go`, `admin_auth.go`, `crosssite.go`, `app.go`) | none of its own; reads sessions, keys and accounts | middleware chain, login, logout | every handler | a credential and its owner are read one after the other and change meanwhile; the public mux comes before the gates | no dead credential serves, the console is the administrator's, every write has an author |
| Extension registry (`extension.go`, `openapi.go`, `app.go`) | lists of boot time, the mux | accept a module, mount, publish | boot, perimeter | collisions within a module and across modules, a public catch-all | every name has one owner, or nothing is served |
| Configuration (`config.go`, `address.go`) | none | parse | boot | text | totality |
| Views (`landing.go`, `admin_*_view.go`) | none | render | perimeter | nothing | layout |
| Widgets (`reference/custommodule`) | table of widgets | create, list, get | perimeter, database | it relies on the principal the perimeter left | rows carry their author and tenant |

How they meet: a mutation of the poll service writes its row and an outbox row
in one transaction and then runs a flush whose errors it ignores; the ballot
path goes through the limiter, gets or finds a voter identity and then goes
through the service; the auth service calls the login policy around each attempt;
boot takes the contributed modules one by one, and every request reaches them
through the perimeter; boot builds all of these, in one process or in several
replicas on the same database.

## 2. Modules

### `Polls`

State: `polls` and `votes` are the tables (`NoPoll`, `NoVote`: no such row),
`trail[p]` the outbox rows of poll `p` in commit order, `now` the clock,
`request` and `ballot` the calls in flight with everything they carry in local
variables.

`SetMaxOpenConns(1)` and transactions make every query or transaction one atomic
step. Nothing is held between them, so a management call is `Get` (the read),
`DecideUpdate`/`DecideTransition`/`DecideDelete` (the checks of
`service.go` on the copy and the clock of that moment), then
`CommitUpdate`/`CommitDelete` (the store's transaction, which looks at the id and
the tenant and never at the status). `Create` decides in memory and then commits.
A ballot is `GetPublicBySlug`, `DecideVote`, `SaveVote`; only the last rechecks
status and deadline in its transaction, with the time read earlier. A page or a
result is the same read followed by `CountVotes`, a query of its own, which may
meet votes of a later state of the poll. Every error
answer, rollback, cancelled context and crash is `ReturnError` or `RejectVote`:
the call ends and the tables stay as they are. Crashing the process ends all
requests at once, which for the tables is the same as ending each.

`versions[p]` is a history variable: the row of `p` after each of its commits, and the
number of the version that the committing request had read (its `base`). The code has no
version column, and that is the point: a commit whose base is not the last version
writes a stale copy back, and nothing stops it. `VersionsFollowTheLifecycle` says what
such a commit can do at worst: the new version is one legal step from *some* version the
poll has had, made of that version as a whole. `VotesMeetTheirPoll` says what becomes of
the votes: each fits a version its poll has had, and the poll as it is now as long as no
commit was stale (`Undisturbed`).

Abstracted: titles and descriptions, the wording of slugs and options (option
lists are sequences of distinct or repeated labels), timestamps other than the
deadline, reads that change nothing (List, Results, rendering).

### `AuditOutbox` and `AuditDelivery`

`AuditOutbox` has the outbox rows, the audit service's log and the flushes in
flight. A flush is `StartFlush` (one query: `IsPendingBatch` is its WHERE, ORDER
BY and LIMIT), then for each row `Record` and `Mark` or `MarkTooLate`; `Abort` is
any error or death in between. `TextRank` says how `created_at` sorts: as text
with trailing zeros of the fraction cut. Event times are read before the
transaction, so rows may be committed out of the order of their times.

`AuditDelivery` is the promise: commit, deliver once, acknowledge after, all of
it eventually. `ImplementsDelivery` is `AuditDelivery!Spec` with
`committed <- Committed`, `recorded <- Range(auditLog)`,
`acknowledged <- Delivered`.

### `LoginPolicy`

`attempts` is the map, `saturatedUntil` the mark of a full map, `inFlight` the
admitted attempts the auth service has not yet reported (that service is not in
this repository; that it reports each admitted attempt once is the one thing
assumed of it). Each method runs under the mutex and is an atomic action, split by
outcome; the clock is read before the mutex, so an action's `t` may lag `now` by
up to `ClockLag`.

### `VoteLimiter` and `Ballots`

`VoteLimiter` is the throttle: `buckets` is the map, `admitted` a history variable,
the clock readings each network's ballots were let in with, in order. `OpenWindow`
and `CountBallot` are the two ways `allow` returns true (`Allow`); at
the limit it returns false and changes nothing. `LimiterSpec` is the throttle alone,
under any ballots; `Ballots` uses the same actions, and `ThrottleUsed` (section 5) says so.

`RateBounded` says what a fixed window can promise: ballots two windows' worth apart
are more than a window apart, less twice the age of a clock reading. The subtraction
is not slack. The clock is read before the mutex (`handler.go:423`), so a ballot
may be counted in a window that began after its reading, and after an eviction a late
reading opens a window inside the one that just ended; with both, three networks and
four ticks are enough to let one of them past two windows' worth within one window.
Readings age by the time a call waits for a mutex held for microseconds, so against a
window of a minute this is a matter of what may be claimed, not of traffic.

`Ballots` puts it in front of one poll's public ballots and follows each from the
browser to the row and back. `jar` is the cookie a browser has, `tab` the ballots
in flight with the cookie and session they left with, `votes` the rows by
`voter_id`, `minted` the tokens `newID` has drawn. A ballot is `Submit` (the browser),
`Admit` or `Refuse` (`allowVote`, and a form that names no option), `CastVote`
(`voterIdentity`, then `Service.Vote`, which counts or rejects; the cookie is set
either way, since it is written before the vote), and `Answer` or `LoseAnswer`.
`Restart` is a process that dies and comes back: requests and windows are gone,
secret and votes stay. `AdmitPasserby` is everybody else on a network.

A cookie is a pair of a token and the secret that signed it; verifying compares
the secret. An account is a voter of its own, the same on every browser signed in to it
(`voter.go:97-101` builds it from tenant and subject), so those browsers write one row;
`SameVisitor` are the browsers a ballot speaks for, and `CastElsewhere` is a ballot of
the account from a browser the model does not follow. `PageShowsLatestChoice` is about
the visitor accordingly: an anonymous browser's page shows its own last ballot, a signed-in
one's the last ballot of the account, whichever browser sent it.

What the code cannot prevent is kept apart by name: a browser that lost
the answer with its first cookie, sent its first ballots at once, or signed in or
out has `strayed`, and from then on counts as a passer-by, like those that are not
followed from the start. `OneChoicePerBrowser` and `PageShowsLatestChoice` speak of the others.

### `Extensions` and `Perimeter`

`Extensions` is the start: `AcceptModule` and `RefuseModule` are the loop of
`BuildApp` over contributed modules (`app.go:411-441`), with
`validateOpenAPIOperations` as `ValidOperations`; `BuildMux` mounts the surface or
refuses it (an error for a public catch-all, a panic of `ServeMux` for a collision).
`Document` is what `extensionOpenAPIHandler` publishes, entry by entry, so that
an overwritten entry would show. The starter's ids and paths are represented by a
few of each kind.

`Perimeter` extends it and follows one request through the wrapped handler of
`App.Mux`, one action per read: `Receive` (size limit and cross-site check),
`VerifyKey` and `KeyOwner` (`newAPIKeyResolver`), `ValidateSession` and
`SessionOwner` (`newSessionResolver`), `Route` (public mux, else mutation gate,
scope rules, guards), then a handler: `ServeLogin`, `ServeLogout`, `ServeUserChange`,
`ServeKeyRevocation`, `ServeCreateWidget`, or `Finish`, which is every other answer.
`Elsewhere` is what other requests do between any two of these: sign in, sign
out, expire, deactivate, reactivate, delete, revoke. The history field `dead` of
a request is what was dead all the time since it arrived.

Note what `DeadCredentialsNeverServe` does not say. Key and owner are read one after
the other, so a request can pass although the key was live only while its owner was
inactive and the owner active only after the key was revoked; TLC finds that
behaviour at once when both are required of the same moment. Nothing in the code
or its comments promises more, and each of the two is checked.

### `Boot`

`deployment` says which engine, which environment, whether branding is seeded and
what the database was before the first boot: fresh, upgraded from an older
release, filled by somebody without a ledger (`unrecorded`), or with an
administrator moved to another tenant (`moved`). `ledger`, `tenants`, `users`
and `branding` are the rows boot writes, `tables` the schema by place of
creation, `lock` the advisory lock, `replica` the processes.

One action per step of `BuildApp` that reads or writes the database, in the
order of `app.go`: `AcquireSchemaLock`, `OpenModuleStores`,
`ResolveBootstrapIdentity`, `RecordBootstrapIdentity`, `EnsureTenant`,
`EnsureAdminUser`, `SetPassword`, `SeedBranding`, `ConfirmAdmin`,
`BuildModules`, `Finish`. Before each place that creates tables `LookUpTable` is
the catalog lookup of `CREATE TABLE IF NOT EXISTS`; PostgreSQL does not lock the
catalog between lookup and creation, so a creation whose table has appeared in
between is disabled, and what is left is `Fail`. `Fail` is every error return:
`BuildApp` closes the pool, which ends the session and with it the lock.
`Crash` may come at any moment. `FinishCancelled` is the boot whose context is
cancelled when it comes to unlock (Ctrl-C during start): the unlock is not sent
(`schemalock.go:79`), the session returns to the pool with the lock, and `Run`
goes straight to its shutdown; `Close` closes the pool and frees it. So the lock
can outlive `BuildApp`, although `app.go:171` says it is released when `BuildApp`
returns and `schemalock.go:76-78` that returning the connection releases it;
other replicas wait for the drain, not for ever (`BootEnds`). `Signal`,
`ChangePassword`, `DeleteAdmin` and `EditBranding` are what operators do through
a process that serves.

Assumed: the session that holds the lock lives as long as its pool (the code
never looks at it again); SQLite is "a single process over one file"
(`schemalock.go:28-29`), so there is no lock and `Start` lets one process live at
a time; an administrator signs in with the password
the account has, so an account without one cannot be changed through the
console. Abstracted: the steps that choose free slugs, e-mail addresses and user
names, the members of a role, the modules between the last two steps.

### `PollMigrations`

`objects` and `ledger` are the schema and `poll_schema_migrations`, `duplicates`
and `malformed` the two things a v0.1 file may suffer from, `secret` the voter
secret, `process` what each opening process has in local variables, `applied`
(the map of `appliedMigrations`) above all.

`Migrate` is one migration with its ledger row, since they share a transaction.
The adoption of a v0.1 file does not: `InspectLegacySchema` (the checks),
`Normalize` (each statement of 0001 by itself) and `RecordAdoption` are separate,
and another process, or the death of this one, can come between any two.
`CREATE` says `IF NOT EXISTS`, `ALTER TABLE ADD COLUMN` does not; `Applicable`
is that difference. `LoadVoterSecret`, `InsertVoterSecret` and
`ReloadVoterSecret` are the three statements of `VoterSecret`. `Fail` is every
error return, refusal and death. External: a v0.1 binary still running
(`LegacyDuplicate`), the operator who renames duplicates, a later release.

Unlike `Boot`, this module lets processes overlap on the SQLite file: the poll
module can be mounted by any host, and nothing in it relies on, or enforces, that
it is alone (`ON CONFLICT DO NOTHING` in `VoterSecret` says that it expects not to
be). The checks hold without that assumption, and with it all the more.

### Slips

An operator whose comment starts with "Slip" is a mistake the code could have
made: a dropped guard, an error ignored, an off-by-one. No specification uses
them. `PROJECT.json` ("mutants") names, for each property, the definition that is
replaced by its slip and TLC then finds that property violated, which shows that
the property depends on that line of code and that its run reaches the case.

## 3. Runs

Each line of the table is one question. The passing runs check deadlock where
the system may not stop (`boot`, `migrations`); the others say
`CHECK_DEADLOCK FALSE`, because the clock or the trail has reached its bound and
nobody calls, which an idle server may do, or because the start was refused
(`perimeter`). `MaxTime`, `MaxTrail` and
`MaxInFlight` are the only bounds in guards; all other sets are finite as
declared.

| Run | Checks | Shows |
|---|---|---|
| `polls_races` | `TypeOK`, `VotesBelongToPolls`, `AuditTrailFaithful`, `MutationsAuthorized`, `TallyMovesOnlyWhilePublished` | what survives when two management calls and a ballot interleave at every query |
| `polls_overlap` | `VotesMeetTheirPoll`, `VersionsFollowTheLifecycle` | how far the damage of an overlapping, stale management call goes, to a poll and to its votes |
| `polls_options` | `OptionsImmutableOncePublished`, violated | finding 1 |
| `polls_delete` | `LiveResultsNeverErased`, violated | finding 2 |
| `outbox_delivery` | `TypeOK`, `LogMatchesOutbox`, `ImplementsDelivery` | each event is delivered once, acknowledged after, and all of them in the end |
| `outbox_order` | `BatchChronological`, violated | finding 3 |
| `login_pressure` | `TypeOK`, `CapacityBounded`, `PendingIsInFlight`, `BudgetHeld`, `PressureSparesLiveEntries` | the map stays in its bound and forgets nothing that is still in force |
| `login_burst` | `BurstBounded`, violated | finding 4 |
| `ballots` | `TypeOK`, `RateBounded`, `OneChoicePerBrowser`, `PageShowsLatestChoice`, `EvictionSparesRunningWindows` | a browser that keeps its cookie counts once and sees its latest choice, through restarts and overlap; how much a network that paces itself gets in; pressure resets no running window |
| `boot` | `TypeOK`, `SchemaCreatedAlone`, `SeededIsRecorded`, `PartialBootHeals`, `ForeignRowsUntouched`, `OperatorChangesKept`, `BootEnds` | replicas create schema one by one, no crash strands a database, operators' changes survive, every boot ends |
| `migrations` | `TypeOK`, `LedgerMatchesSchema`, `SlugsUniqueOnceAdopted`, `NewerSchemaRefused`, `OneVoterSecret`, `UpgradeCompletes` | deaths and races only delay an upgrade; a newer file is left alone; one secret |
| `perimeter` | `TypeOK`, `OneOwner`, `DeadCredentialsNeverServe`, `ConsoleIsTheAdministrators`, `WritesHaveAnAuthor` | who is served as whom while credentials, owners and the answers to the reads change; what a host's list of modules may not do |

Why the bounds are enough to meet the interesting cases:

- **polls_races**: the code's conflicts are between two calls on one poll, so two
  managers, one ballot and one poll; an author, a moderator of the tenant and a
  moderator of another tenant are the classes `authorizePollMutation` tells
  apart. One tick puts a deadline before or behind the clock; three outbox rows
  are create, publish, close or delete.
- **polls_overlap**: two managers so that one can overtake the other, in one author's
  name, since who is authorized is `polls_races`' question; a list of three options and
  one of two, the labels they share in another order, so that an edit can take an option
  away from under a ballot; one tick for the deadline. Three commits are create and any
  two that overlap. That a page counts a vote its poll no longer offers unless the poll was
  `Undisturbed` needs a fourth; the run was also made with four (8.6 million states, a
  little over five minutes) and passes.
- **outbox_delivery**: two flushes are enough for every pairwise race, three
  events with batches of two leave one behind a full batch; two times, one on a
  whole second and one not, are what the text order tells apart.
- **login_pressure**: three identifiers for two places fill the map; limit,
  window and lockout of 2 have an edge and an inside; five ticks hold two
  windows and a lockout; clock readings one tick late arrive out of order.
- **ballots**: `MCSpec` splits the questions, as one run cannot hold them all. Either two
  browsers, signed in to one account, to none, or one of each, send two ballots in every
  order while the clock stands still, with the account voting elsewhere and passers-by
  filling windows; or one anonymous browser does so while time passes, which is what the
  throttle needs. Identities do not depend on the clock: it only decides whether a ballot is
  refused, and refusals happen in the first mode too. Two tokens leave one
  for a second identity if the first is not recognised. A second network presses on the map.
  Four ticks hold two windows of
  length 2 and their edges, an early window after an eviction and a late ballot in the
  window after that, where `RateBounded` is tight: with one more on its right side TLC
  finds it violated. The theorems make no such split.
- **perimeter**: the administrator and a member of another tenant, a session and a
  key of each, the administrator's key being from before scopes were reserved; every kind of
  path, one handler that checks nothing among them; nine lists of modules, one that works
  and one per reason to refuse. One request is followed because requests share
  nothing but sessions, keys and accounts, which `Elsewhere` changes at will.
- **boot**: three replicas, so that one can wait while another dies and a third
  serves.
- **migrations**: two processes, and two secrets so that they can differ.

No run uses symmetry together with a liveness property. `SYMMETRY` is over
managers, ballots, voters, browsers, tabs, tokens and login identifiers, which no definition
tells apart.

### Fairness

Safety is checked without fairness. Where something must happen:

- `AuditOutbox!Fairness`: a flush starts after each mutation and at each start of
  the module, so weak fairness of `StartFlush` says that mutations or restarts
  keep coming; a system nobody touches any more keeps its last pending rows,
  which is the code's design (there is no timer). Strong fairness of `Record`
  and `Mark` says that the audit service and the database, tried again and
  again, do not refuse for ever and the process does not die at the same place
  each time. A row the service refuses for ever blocks the rows behind it; the
  hazard list says so.
- `Boot!Fairness`: PostgreSQL queues for an advisory lock, so a waiting boot for
  which it becomes free again and again gets it (strong fairness of
  `AcquireSchemaLock`). A boot past the lock makes its next step or returns an
  error (weak fairness of the disjunction: never of success alone), and a
  draining process reaches `Close`, since `Shutdown` has a deadline. Nothing
  forces a serving process to stop, a process to start or a crash.
- `PollMigrations!Fairness`: a stopped process is restarted, one that opens goes
  on or fails, and none dies at the same statement for ever. `UpgradeCompletes`
  is conditional on a file of the known shape whose duplicates are gone for
  good; without the operator, refusing for ever is right.

## 4. Where the code and its comments disagree

1. **Options of a published poll can change** (`polls_options`). `Update` looks
   for a draft on the row it read (`service.go:145`), the store writes all
   columns by id and tenant (`store.go:111-114`). An edit that overlaps a publish
   rewrites the options and puts the poll back to draft; `entities.go:104-105`
   says options "become immutable once voting can begin".
2. **Delete can erase live results** (`polls_delete`). The same pattern between
   `service.go:235` and `store.go:218-226`, against `service.go:219-220`.
3. **The outbox is not in order** (`outbox_order`). Timestamps are sorted as text
   with trailing zeros cut, so an event of a whole second sorts behind later
   events of that second (`store.go:357`, `557-559`; `service.go:319` promises
   order).
4. **A burst at the end of a window** (`login_burst`) puts up to twice the limit
   of attempts past the gate, since the old window takes the reservations with
   it (`login_policy.go:82`; the comment at 88-90 says it cannot).

What findings 1 and 2 can lead to is bounded by `VersionsFollowTheLifecycle`
(`polls_overlap`, and `VersionsLegal` in section 5): a stale commit takes a poll back to a
state it has been in and one legal step on from there. So a published poll can become a
draft with other options or be gone with its votes, but no row ever mixes columns of two
states, and no transition is made that `validateTransition` would refuse from the
state its caller saw.

## 5. Proofs

### `PollsProofs`

From `PollsAssumption` (moderators are users, each has a tenant, option lists
are sequences, bounds are natural numbers, "none" values are not members of what
they are added to), for any number of polls,
slugs, callers, requests, ballots and voters and any bound on clock and trail:
`TypeCorrect`, `AuditTrailCorrect`, `VotesAttached`, `TallyStable`, `MutationsVetted`,
`VersionsLegal`, `VotesMet`. None assumes anything about how requests overlap.

`AuditTrailFaithful` is not inductive alone. A commit rewrites the row a request
carries, and the outbox row it writes is right only if that request still talks
about the poll its id names and about what it decided; so the invariant is
`TypeOK /\ AuditTrailFaithful /\ RequestsKnowTheirPoll`. `EnqueueEffect` says
what a transaction's outbox row does to a trail, `AppendFaithful` that a trail
stays faithful, `TableWrites` which actions write which table; `VotesAttached`
and `TallyStable` follow from the last without more.

`MutationsVetted` adds `Authored` to it: the row a request carries names the creator
recorded at the head of its poll's trail, and past `authorizePollMutation` the actor is
of that tenant and is the creator or a moderator (`Vetted`). The property itself speaks
only of what is recorded, while the check was made on a copy read earlier; what makes the
copy good enough is that no operation rewrites author or tenant.

`VersionsLegal` is `History`, per poll: `Lineage` is the property on one poll's trail and
versions; `Recorded` says that the two are equally long and that the last version is the
row in the table; `Derived` says of a request in flight that its base is a version there
has been, that the copy it decides on is that version, and that past the decision the row
it will write is a legal step from it. The versions only grow (`VersionsGrow`), so
what a request knows of its base stays true however many commits pass it by, and that is
why the bound holds where `OptionsImmutableOncePublished` does not. `CommitWrites` says that
the three transactions write exactly the row their request carries.

`VotesMet` has `VotesRest` (every vote rests on a version it fits, and on the row unless the
poll was disturbed) and `BallotsInformed`: the row a ballot read is one of the versions,
and what it will save fits that version. A ballot saves long after it read,
so this has to be kept true while its poll changes; `PublishedStays` is what carries it over in
an undisturbed poll, since past the draft options and deadline change no more.

### `BootProofs`

From `BootAssumption` (two model constants are not members of the sets they are
added to), for any set of replicas:

- `TypeCorrect`, and `AlwaysAlone`: a booting process past the wait holds
  the lock on PostgreSQL, and on SQLite is the only process alive. This is the fact all else
  needs.
- `SchemaAlone` from `Alone` and `LooksWhereItCreates` (a lookup belongs to the
  step that creates).
- `SeedCorrect`: `SeedInv` = `KnowsLedger` (past the record, the ids a boot
  carries are the ledger's) `/\ SeededIsRecorded /\ SeedsInOrder` (tenant before
  administrator before password) `/\ SetsOnlyMissing` (a boot about to set a
  password has seen none, or is in development). Each needs the others: a
  seed step writes the rows of the ids it carries, and only `KnowsLedger` makes
  those the ledger's; `SeededIsRecorded` is what lets a boot resolve ids on a
  database another boot left half done. `CrashesStrandNothing` and `SeedHeals`
  follow. `ChangesKept` is `PasswordsKept`, which follows as well, and
  `BrandingKept`, from the row's own guard.
- `ForeignUntouched` from `Refused`: on a foreign database no process gets past
  the resolution of its ids.

### `ExtensionsProofs` and `PerimeterProofs`

From `ExtensionsAssumption` and `PerimeterAssumption` (users, sessions and keys are
different things, each credential has an owner, contributed paths are not the
starter's), for any users, credentials, stored scopes, paths and lists of modules:

- `OneOwnerOfEachName` from `Distinct`: the ids and routes of accepted operations
  are all among those registered as taken, so that a module compared with them is
  compared with every earlier one; `AcceptKeepsDistinct` is the step that matters.
- `TypeCorrect`, `DeadCredentialsRefused`, `ConsoleGuarded` and `WritesAuthored` from
  `IInv`. Its part `Sound` says what each stage of a request knows: past
  `VerifyKey` the key is not dead, past `KeyOwner` neither key nor owner is, the
  principal's privileges are those of its credential (`Honest`), and at a handler
  the gates were passed (`Gated`) or the path is public. It is needed because
  the properties speak of the handler only, and what makes them true happened at
  the reads before. A thing once off the list of the dead never returns to it, which
  is why later changes by others cannot break it. `OnlyTheRequest` reduces a step of the
  request to its new value; `ElsewhereSound` is the step of the others.

### `BallotsProofs`

From `LimiterAssumption` and `BallotsAssumption` (each browser has a network, drawn
tokens are not accounts, "none" values are not members of what they are added to),
for any browsers, accounts, networks, tokens and ballots in flight, any limit, window, eviction
threshold and age of a clock reading:

- `RunningWindowsKept`, from `TypeOK` and `StepSparesRunning`: a window that still runs
  now runs for every reading that is not in the future.
- `OneVoterPerBrowser` and `LatestChoiceShown` from `IInv`. `Signed`: one key signed
  every cookie, so a cookie always proves its token. `Separate`: a token in a browser's
  jar, in its ballots or answers in flight, or among the voters counted for it is held by
  no other browser; of accounts this is neither true nor said. `Loyal`: until it strays, a browser's ballots in flight carry the
  identity it has, and while it has none there is at most one. `Shown`: the row of its account,
  or the rows of its tokens, hold the choice counted last for it. `Loyal` is needed because a ballot is counted
  for the identity it left with, not the one the browser has when it is counted;
  `Separate` because without it another's ballot could overwrite the row.
  `LoyalCastVote` and `ShownStep` are the steps that matter.

The throttle under them is proved on its own. `RateHeld`: `LimiterSpec` keeps
`RateBounded`, for any networks, limit, window, eviction threshold and age of a reading.
Its invariant `WindowsKnow` relates the readings let in to the bucket: the last
`count` of them belong to the bucket's window and end with it; those before are past,
and lie at most a reading's age behind its start; those before the previous `Limit` are a
window older still. The third part is what bounds two windows, and it outlives the bucket,
which an eviction may take away. `ThrottleUsed`: each step of `Ballots` is a step of
`LimiterSpec` or a stutter, so the rate holds behind the handlers.

### `PollMigrationsProofs`

From `MigrationsAssumption` ("no secret" is not a secret), for any set of processes and
secrets:

- `TypeCorrect`, with the fact the rest leans on: no process believes applied what the
  ledger does not have (`applied` is read once and used to the end).
- `LedgerTruthful` and `SlugsStayUnique` with `AdoptionOnItsWay`: a process between two
  statements of an adoption has what the earlier ones created behind it, and the unique
  index keeps duplicates out once it is there. `LedgerMatchesSchema` alone is not
  inductive, since `RecordAdoption` writes the ledger row on the strength of statements
  executed earlier and outside its transaction. `LedgerByVersion` restates it version by
  version, and `StepType` says what each statement does to objects, ledger and process.
- `NewerRefused` from `NewerStaysNewer` (the ledger a process found newer stays so);
  `SecretsAgree` from `SecretSettled` (from its insertion on there is a secret, and no
  statement replaces one that is there).

### `LoginPolicyProofs`

From `LoginAssumption` (positive limits, finitely many identifiers), for any
identifiers and limits, any age of a reading and any number of attempts in flight; and,
for the budget only, `LockAssumption`, `FailureWindow <= Lockout`: both are 15
minutes in the code (`login_policy.go:17-18`), and were a lock shorter than the window it was set in,
its end would start a new budget in the same window.

- `TypeCorrect`: counters never go below zero, although a report may come for an entry
  that was dropped and opened again since.
- The effect lemmas (`AdmitTrackedEffect` to `RecordSuccessEffect`) reduce each action to
  what becomes of its own identifier's entry, and `Spares` to what may become of the
  others: unchanged, or dropped because it was over. `RoomMade` is the pruning.
- `MapBounded` from `Spares` (an action tracks at most its own identifier on top of those
  tracked) and `RoomForOne`; `ReservationsHeld`; `LiveEntriesSpared` from `Spares`.
- `BudgetNeverExceeded` from `Accounted`: while no window can have run out, reservations
  are exactly the attempts in flight (not only at most as many), failures and reservations
  together are within the limit, and a lock, once set, ends after that time. The equality
  is what the property needs and what fails later: a window that runs out takes the
  reservations of attempts still in flight with it, which is finding 4.

### `AuditOutboxProofs`

From `OutboxAssumption` (events are numbers, batches are not empty), for any events,
flushes in flight, batch size and clock, and for `SafetySpec`:

- `TypeCorrect` and `LogTruthful` from `TypeOK /\ LogMatchesOutbox /\ FlushKnows`. `FlushKnows`:
  a flush works on committed events, and is about to mark one only when the log holds it.
  Not even the type is inductive alone, since a mark rewrites the row of the event in
  hand and a row has a shape only if it was committed.
- `OutboxDelivers`: `SafetySpec => Delivery!Safety`, the step refinement. `StepDelivers`
  maps each action: `Enqueue` commits; `Record` delivers, or stutters for an event the log
  has already; `Mark` acknowledges; `MarkTooLate` (the row was marked before) and all else stutter.

### Only model-checked

Liveness: `BootEnds`, `UpgradeCompletes` and the liveness half of
`ImplementsDelivery` need fairness and ENABLED, out of the prover's reach. Every other
property of a passing run is a theorem. The violations of section 4 are TLC's; that the
theorems above are not vacuous is shown by the runs and by the slips.

## 6. Not modelled

- **Pages, views, metrics, OpenAPI**: rendering and data; they change no state.
  The two reads of a poll's page are in `Polls`, the aggregate document of
  contributed operations in `Extensions`; `api/openapi.yaml` is compared with the
  routes by a test.
- **HMAC, CSRF tokens, address parsing, configuration**: pure functions of bytes and
  text, within reach of unit tests.
- **Patterns of `ServeMux`** with methods, hosts or wildcards: the repository's modules
  register plain paths, so a path stands for its pattern. The summary, status and
  spelling checks of declared operations are left out; they look at one operation.
- **`requirePollScope`** and the other scopes a contributed handler asks for itself:
  the same pattern as `ActorWithScope`, without state.
- **Widgets**: list and get are single reads; the migration runner is the poll module's
  without adoption.
- **The platform-kit modules** (auth, tenant, audit, branding): not in this
  repository; modelled only at the calls made to them.
- **Keys without an owner** (`identity.go:105`): every credential of `Perimeter` has an
  owner; such a key's principal has no account that could be deactivated.
- **An operator who deletes the bootstrap tenant** through a serving replica: `Boot` has the
  operator delete the administrator only. A boot that finds the account missing once more
  (`app.go:364`) ends with an error in the model; no property says that it must not serve.
- **Requests in flight at shutdown**: `http.Server` is trusted to drain.

## 7. Plan

Done: `Polls` (the product's own state), `AuditOutbox` with its
abstract specification `AuditDelivery`, `LoginPolicy`, `VoteLimiter`, `Boot`,
`PollMigrations`, `Extensions` and `Perimeter`, `Ballots`, each with proofs. Next:

1. `PollService`: `Polls` and `AuditOutbox` composed, with the flush after each mutation
   and the trail of a poll refined by the outbox's rows, so that the delivery proved in
   `AuditOutboxProofs` is delivery of what `AuditTrailCorrect` says was recorded.
2. `VotesMeetTheirPoll` of a poll that was disturbed: which stale commits leave the votes
   in order after all.
