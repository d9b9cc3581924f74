-------------------------------- MODULE Boot --------------------------------
(***************************************************************************)
(* BuildApp and Run: processes that boot on one database, seed it, serve   *)
(* it, fail and die at any step, and boot again (pkg/starterapp).          *)
(*                                                                         *)
(* On PostgreSQL any number of replicas boot at once, one behind the other *)
(* in the schema lock; SQLite is one process over one file and has no      *)
(* lock.  A table is created in two steps, since IF NOT EXISTS looks first *)
(* and a catalog the lock does not protect can change in between.          *)
(***************************************************************************)
CONSTANTS
  Replicas,  \* processes
  Nobody,    \* the schema lock is free
  Nothing    \* no row

Sites == {"stores", "ledger", "modules"}   \* the places where boot creates schema
Identities == {"neutral", "released"}      \* package seed's ids; those of an old release
Hashes == {"none", "configured", "operators"}
Origins == {"fresh", "upgraded", "unrecorded", "moved"}

BootSteps == {"waiting", "stores", "resolve", "ledger", "tenant", "admin", "password",
              "branding", "confirm", "modules", "finish"}

VARIABLES
  deployment,  \* engine, environment, branding configuration, history of the database
  tables,      \* the sites whose tables exist
  ledger,      \* starterapp_bootstrap_identity
  tenants,     \* the bootstrap tenants that exist
  users,       \* the bootstrap users: tenant_id and password hash
  branding,    \* the bootstrap tenant's branding record and who wrote it
  lock,        \* the session that holds pg_advisory_lock
  replica      \* each process: its step, what its CREATE found, the ids it resolved

database == <<ledger, tenants, users, branding>>
vars == <<deployment, tables, database, lock, replica>>

User == [tenant: Identities, hash: Hashes]
Process == [pc: BootSteps \cup {"down", "up", "draining"},
            table: {"unseen", "missing", "present"},
            identity: Identities \cup {Nothing}]
Down == [pc |-> "down", table |-> "unseen", identity |-> Nothing]
Booting(r) == replica[r].pc \in BootSteps
Foreign == deployment.origin \in {"unrecorded", "moved"}

ASSUME BootAssumption ==
  /\ Nobody \notin Replicas
  /\ Nothing \notin Identities \cup User

\* Every variable keeps its shape.  A process knows its ids from resolve on; a
\* dead one holds no session.
TypeOK ==
  /\ deployment \in [postgres: BOOLEAN, development: BOOLEAN, seedsBranding: BOOLEAN,
                     origin: Origins]
  /\ tables \subseteq Sites
  /\ ledger \in Identities \cup {Nothing}
  /\ tenants \subseteq Identities
  /\ users \in [Identities -> User \cup {Nothing}]
  /\ branding \in {"none", "seeded", "edited"}
  /\ lock \in Replicas \cup {Nobody}
  /\ replica \in [Replicas -> Process]
  /\ \A r \in Replicas :
       replica[r].identity = Nothing <=>
         replica[r].pc \in {"down", "waiting", "stores", "resolve"}
  /\ lock # Nobody => replica[lock].pc # "down"

NoRows == [i \in Identities |-> Nothing]

\* What the first boot can find: nothing; a database of an earlier release;
\* rows with the ids of package seed and no ledger; a ledger whose administrator
\* was moved to another tenant.
Init ==
  /\ deployment \in [postgres: BOOLEAN, development: BOOLEAN, seedsBranding: BOOLEAN,
                     origin: Origins]
  /\ \/ /\ deployment.origin = "fresh"
        /\ tables = {} /\ ledger = Nothing /\ tenants = {} /\ users = NoRows
     \/ /\ deployment.origin = "upgraded"
        /\ tables = {"stores", "ledger"} /\ ledger = "released" /\ tenants = {"released"}
        /\ users = [NoRows EXCEPT !["released"] = [tenant |-> "released", hash |-> "operators"]]
     \/ /\ deployment.origin = "unrecorded"
        /\ tables = {"stores"} /\ ledger = Nothing
        /\ \/ tenants = {"neutral"} /\ users = NoRows
           \/ /\ tenants = {}
              /\ users = [NoRows EXCEPT !["neutral"] = [tenant |-> "released", hash |-> "operators"]]
     \/ /\ deployment.origin = "moved"
        /\ tables = Sites /\ ledger = "neutral" /\ tenants = Identities
        /\ users = [NoRows EXCEPT !["neutral"] = [tenant |-> "released", hash |-> "operators"]]
  /\ branding = "none"
  /\ lock = Nobody
  /\ replica = [r \in Replicas |-> Down]

-----------------------------------------------------------------------------
Go(r, step) == replica' = [replica EXCEPT ![r].pc = step]
FreeLock(r) == lock' = IF lock = r THEN Nobody ELSE lock

\* A process starts.  SQLite is a single process over one file.
Start(r) ==
  /\ replica[r].pc = "down"
  /\ deployment.postgres \/ \A s \in Replicas : replica[s].pc = "down"
  /\ Go(r, "waiting")
  /\ UNCHANGED <<deployment, tables, database, lock>>

\* Slip: boot tries the lock and goes on without it.
AcquireSchemaLockTry(r) ==
  /\ replica[r].pc = "waiting"
  /\ lock' = IF deployment.postgres /\ lock = Nobody THEN r ELSE lock
  /\ Go(r, "stores")
  /\ UNCHANGED <<deployment, tables, database>>

AcquireSchemaLock(r) ==
  /\ replica[r].pc = "waiting"
  /\ IF deployment.postgres THEN lock = Nobody /\ lock' = r ELSE UNCHANGED lock
  /\ Go(r, "stores")
  /\ UNCHANGED <<deployment, tables, database>>

\* CREATE TABLE IF NOT EXISTS looks into the catalog ...
LookUpTable(r) ==
  LET site == replica[r].pc IN
  /\ site \in Sites
  /\ replica[r].table = "unseen"
  /\ replica' = [replica EXCEPT ![r].table = IF site \in tables THEN "present" ELSE "missing"]
  /\ UNCHANGED <<deployment, tables, database, lock>>

\* ... and creates what was missing, unless another session just did: that is
\* the duplicate key in pg_type, and the boot fails.
CreateTable(r, next) ==
  LET site == replica[r].pc IN
  /\ replica[r].table # "unseen"
  /\ replica[r].table = "missing" => site \notin tables
  /\ tables' = tables \cup {site}
  /\ replica' = [replica EXCEPT ![r].pc = next, ![r].table = "unseen"]

OpenModuleStores(r) ==
  /\ replica[r].pc = "stores"
  /\ CreateTable(r, "resolve")
  /\ UNCHANGED <<deployment, database, lock>>

\* Slip: the resolved ids are not handed on to the seed.
ResolveDropped(r) ==
  /\ replica[r].pc = "resolve"
  /\ Go(r, "ledger")
  /\ UNCHANGED <<deployment, tables, database, lock>>

\* Slip: rows that nobody recorded are adopted.
ResolveAdopting(r) ==
  /\ replica[r].pc = "resolve"
  /\ replica' = [replica EXCEPT ![r].pc = "ledger",
       ![r].identity = IF ledger # Nothing THEN ledger ELSE "neutral"]
  /\ UNCHANGED <<deployment, tables, database, lock>>

\* resolveBootstrapIdentity: the ledger's ids if their administrator is where
\* the ledger says or gone, else the ids of package seed if no row has them.
ResolveBootstrapIdentity(r) ==
  /\ replica[r].pc = "resolve"
  /\ \/ /\ ledger # Nothing
        /\ users[ledger] # Nothing => users[ledger].tenant = ledger
        /\ replica' = [replica EXCEPT ![r].pc = "ledger", ![r].identity = ledger]
     \/ /\ ledger = Nothing
        /\ "neutral" \notin tenants
        /\ users["neutral"] = Nothing
        /\ replica' = [replica EXCEPT ![r].pc = "ledger", ![r].identity = "neutral"]
  /\ UNCHANGED <<deployment, tables, database, lock>>

\* Slip: the transaction is never committed.
RecordUncommitted(r) ==
  /\ replica[r].pc = "ledger"
  /\ replica[r].table # "unseen"
  /\ replica' = [replica EXCEPT ![r].pc = "tenant", ![r].table = "unseen"]
  /\ UNCHANGED <<deployment, tables, database, lock>>

\* recordBootstrapIdentity: create the ledger, insert unless there is a row,
\* compare, commit.
RecordBootstrapIdentity(r) ==
  /\ replica[r].pc = "ledger"
  /\ CreateTable(r, "tenant")
  /\ ledger \in {Nothing, replica[r].identity}
  /\ ledger' = replica[r].identity
  /\ UNCHANGED <<deployment, tenants, users, branding, lock>>

EnsureTenant(r) ==
  /\ replica[r].pc = "tenant"
  /\ tenants' = tenants \cup {replica[r].identity}
  /\ Go(r, "admin")
  /\ UNCHANGED <<deployment, tables, ledger, users, branding, lock>>

\* Slip: an administrator without a password is taken for finished.
NeedsPasswordIfDiffers(user) ==
  deployment.development /\ user.hash = "operators"

\* Slip (v0.1.0): the password is re-asserted on every boot.
NeedsPasswordAlways(user) == user.hash # "configured"

\* Which passwords ensureAdminUser sets: a missing one, and in development one
\* that is not the configured.
NeedsPassword(user) ==
  user.hash = "none" \/ (deployment.development /\ user.hash = "operators")

\* ensureAdminUser finds the account, or creates it without a password.
EnsureAdminUser(r) ==
  LET i == replica[r].identity IN
  /\ replica[r].pc = "admin"
  /\ \/ users[i] # Nothing /\ UNCHANGED users
     \/ users[i] = Nothing /\ users' = [users EXCEPT ![i] = [tenant |-> i, hash |-> "none"]]
  /\ Go(r, IF NeedsPassword(users'[i]) THEN "password" ELSE "branding")
  /\ UNCHANGED <<deployment, tables, ledger, tenants, branding, lock>>

SetPassword(r) ==
  LET i == replica[r].identity IN
  /\ replica[r].pc = "password"
  /\ users[i] # Nothing
  /\ users' = [users EXCEPT ![i].hash = "configured"]
  /\ Go(r, "branding")
  /\ UNCHANGED <<deployment, tables, ledger, tenants, branding, lock>>

\* seedBranding: only where there is no record yet, and on PostgreSQL not at all.
SeedBranding(r) ==
  /\ replica[r].pc = "branding"
  /\ deployment.seedsBranding => ~deployment.postgres
  /\ branding' = IF deployment.seedsBranding /\ branding = "none" THEN "seeded" ELSE branding
  /\ Go(r, "confirm")
  /\ UNCHANGED <<deployment, tables, ledger, tenants, users, lock>>

\* The seeded administrator is read back.
ConfirmAdmin(r) ==
  /\ replica[r].pc = "confirm"
  /\ users[replica[r].identity] # Nothing
  /\ Go(r, "modules")
  /\ UNCHANGED <<deployment, tables, database, lock>>

BuildModules(r) ==
  /\ replica[r].pc = "modules"
  /\ CreateTable(r, "finish")
  /\ UNCHANGED <<deployment, database, lock>>

\* BuildApp returns and unlocks; Run serves.
Finish(r) ==
  /\ replica[r].pc = "finish"
  /\ FreeLock(r)
  /\ Go(r, "up")
  /\ UNCHANGED <<deployment, tables, database>>

\* The context was cancelled after its last use: the unlock is refused, its
\* session goes back into the pool, and Run shuts down at once.
FinishCancelled(r) ==
  /\ replica[r].pc = "finish"
  /\ Go(r, "draining")
  /\ UNCHANGED <<deployment, tables, database, lock>>

\* Slip: an error return leaves the pool, and with it the lock's session, open.
FailLeaking(r) ==
  /\ Booting(r)
  /\ replica' = [replica EXCEPT ![r] = Down]
  /\ UNCHANGED <<deployment, tables, database, lock>>

\* A step of the boot returns an error or finds a reason to refuse: BuildApp
\* closes the pool and its locked session.
Fail(r) ==
  /\ Booting(r)
  /\ FreeLock(r)
  /\ replica' = [replica EXCEPT ![r] = Down]
  /\ UNCHANGED <<deployment, tables, database>>

\* The shutdown signal ends a serving process.
Signal(r) ==
  /\ replica[r].pc = "up"
  /\ Go(r, "draining")
  /\ UNCHANGED <<deployment, tables, database, lock>>

\* Run returns, after Shutdown or because the listener failed, and closes the pool.
Close(r) ==
  /\ replica[r].pc \in {"up", "draining"}
  /\ FreeLock(r)
  /\ replica' = [replica EXCEPT ![r] = Down]
  /\ UNCHANGED <<deployment, tables, database>>

\* The process dies; PostgreSQL ends its sessions.
Crash(r) ==
  /\ replica[r].pc # "down"
  /\ FreeLock(r)
  /\ replica' = [replica EXCEPT ![r] = Down]
  /\ UNCHANGED <<deployment, tables, database>>

-----------------------------------------------------------------------------
(***************************************************************************)
(* What operators do through a serving process.                            *)
(***************************************************************************)
Serving == \E r \in Replicas : replica[r].pc = "up"

\* The administrator signs in with the password there is and changes it.
ChangePassword ==
  /\ Serving
  /\ users[ledger] # Nothing /\ users[ledger].hash # "none"
  /\ users' = [users EXCEPT ![ledger].hash = "operators"]
  /\ UNCHANGED <<deployment, tables, ledger, tenants, branding, lock, replica>>

DeleteAdmin ==
  /\ Serving
  /\ users[ledger] # Nothing
  /\ users' = [users EXCEPT ![ledger] = Nothing]
  /\ UNCHANGED <<deployment, tables, ledger, tenants, branding, lock, replica>>

EditBranding ==
  /\ Serving
  /\ ~deployment.postgres
  /\ branding' = "edited"
  /\ UNCHANGED <<deployment, tables, ledger, tenants, users, lock, replica>>

BootStep(r) ==
  \/ LookUpTable(r)
  \/ OpenModuleStores(r)
  \/ ResolveBootstrapIdentity(r)
  \/ RecordBootstrapIdentity(r)
  \/ EnsureTenant(r)
  \/ EnsureAdminUser(r)
  \/ SetPassword(r)
  \/ SeedBranding(r)
  \/ ConfirmAdmin(r)
  \/ BuildModules(r)
  \/ Finish(r)
  \/ FinishCancelled(r)

Next ==
  \/ \E r \in Replicas :
       \/ Start(r) \/ AcquireSchemaLock(r) \/ BootStep(r) \/ Fail(r)
       \/ Signal(r) \/ Close(r) \/ Crash(r)
  \/ ChangePassword \/ DeleteAdmin \/ EditBranding

\* Code that can run runs, and a step that cannot succeed returns its error;
\* waiting for the lock is not one of these.  PostgreSQL queues for the lock.
Fairness ==
  \A r \in Replicas :
    /\ SF_vars(AcquireSchemaLock(r))
    /\ WF_vars(BootStep(r) \/ (replica[r].pc # "waiting" /\ Fail(r)))
    /\ WF_vars(replica[r].pc = "draining" /\ Close(r))

Spec == Init /\ [][Next]_vars /\ Fairness

-----------------------------------------------------------------------------
\* "A booting replica creates schema alone": no table a boot found missing
\* appears before it creates it, so none loses the race in the catalog.
SchemaCreatedAlone ==
  \A r \in Replicas : replica[r].table = "missing" => replica[r].pc \notin tables

\* On a database with a history the starter knows, the bootstrap rows are the
\* ledger's and nobody else's at every moment: whichever step a boot dies at,
\* the next boot is not refused and does not seed a second administrator.
SeededIsRecorded ==
  ~Foreign =>
    \A i \in Identities :
      /\ i \in tenants => ledger = i
      /\ users[i] # Nothing => ledger = i /\ users[i].tenant = i

\* A boot that gets past the seed has healed what earlier boots left half done:
\* the tenant exists, and the administrator, unless deleted meanwhile, has a
\* password.
PartialBootHeals ==
  \A r \in Replicas :
    replica[r].pc \in {"branding", "confirm", "modules", "finish"} =>
      /\ ledger \in tenants
      /\ users[ledger] # Nothing => users[ledger].hash # "none"

\* Rows of unknown origin are neither adopted nor changed, and nothing serves
\* them: "booting on top of it would hand an unknown tenant and user
\* administrator rights".
ForeignRowsUntouched ==
  [][Foreign => UNCHANGED database /\ \A r \in Replicas : replica'[r].pc # "up"]_vars

\* Outside development no boot takes back a password an operator chose.
OperatorPasswordKept ==
  [][\A i \in Identities :
       ~deployment.development /\ users[i] # Nothing /\ users[i].hash = "operators" =>
         users'[i] = Nothing \/ users'[i].hash = "operators"]_vars

\* "An operator's UI edits to branding must survive restarts", in every
\* environment.
OperatorBrandingKept == [][branding = "edited" => branding' = "edited"]_vars

\* What an operator chose survives every boot of every replica: the password,
\* outside development, and the branding.
OperatorChangesKept == OperatorPasswordKept /\ OperatorBrandingKept

\* Every boot ends, served or refused: failures, crashes and cancelled contexts
\* of other replicas never leave it waiting for the lock.
BootEnds == \A r \in Replicas : Booting(r) ~> ~Booting(r)
=============================================================================
