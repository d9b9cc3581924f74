----------------------------- MODULE BootProofs -----------------------------
(***************************************************************************)
(* Theorems about Boot, for any number of replicas.                        *)
(***************************************************************************)
EXTENDS Boot, TLAPS

-----------------------------------------------------------------------------
(***************************************************************************)
(* Type correctness.                                                       *)
(***************************************************************************)

LEMMA InitType == Init => TypeOK
  BY BootAssumption DEF Init, TypeOK, NoRows, Sites, Identities, Hashes, Origins, User,
     Process, BootSteps, Down

\* A process that moves to another step keeps what it knows.
LEMMA GoEffect ==
  ASSUME TypeOK, NEW r \in Replicas, NEW step \in BootSteps \cup {"down", "up", "draining"},
         Go(r, step)
  PROVE  /\ replica' \in [Replicas -> Process]
         /\ replica'[r].pc = step
         /\ replica'[r].table = replica[r].table
         /\ replica'[r].identity = replica[r].identity
         /\ \A s \in Replicas \ {r} : replica'[s] = replica[s]
  BY DEF TypeOK, Go, Process

LEMMA DownEffect ==
  ASSUME TypeOK, NEW r \in Replicas, replica' = [replica EXCEPT ![r] = Down]
  PROVE  /\ replica' \in [Replicas -> Process]
         /\ replica'[r].pc = "down"
         /\ replica'[r].table = "unseen"
         /\ replica'[r].identity = Nothing
         /\ \A s \in Replicas \ {r} : replica'[s] = replica[s]
  BY DEF TypeOK, Down, Process

LEMMA CreateTableEffect ==
  ASSUME TypeOK, NEW r \in Replicas, replica[r].pc \in Sites, NEW next \in BootSteps,
         CreateTable(r, next)
  PROVE  /\ tables' = tables \cup {replica[r].pc}
         /\ tables' \subseteq Sites
         /\ replica' \in [Replicas -> Process]
         /\ replica'[r].pc = next
         /\ replica'[r].table = "unseen"
         /\ replica'[r].identity = replica[r].identity
         /\ \A s \in Replicas \ {r} : replica'[s] = replica[s]
  BY DEF TypeOK, CreateTable, Process, Sites

LEMMA NextType == TypeOK /\ [Next]_vars => TypeOK'
  <1> SUFFICES ASSUME TypeOK, [Next]_vars PROVE TypeOK'
    OBVIOUS
  <1> USE BootAssumption
  <1>1. ASSUME NEW r \in Replicas, Start(r) \/ AcquireSchemaLock(r) PROVE TypeOK'
    BY <1>1, GoEffect DEF Start, AcquireSchemaLock, TypeOK, database, BootSteps
  <1>2. ASSUME NEW r \in Replicas, LookUpTable(r) PROVE TypeOK'
    BY <1>2 DEF LookUpTable, TypeOK, database, Process, Sites
  <1>3. ASSUME NEW r \in Replicas, OpenModuleStores(r) PROVE TypeOK'
    BY <1>3, CreateTableEffect DEF OpenModuleStores, TypeOK, database, Sites, BootSteps
  <1>4. ASSUME NEW r \in Replicas, ResolveBootstrapIdentity(r) PROVE TypeOK'
    BY <1>4 DEF ResolveBootstrapIdentity, TypeOK, database, Process, BootSteps, Identities
  <1>5. ASSUME NEW r \in Replicas, RecordBootstrapIdentity(r) PROVE TypeOK'
    BY <1>5, CreateTableEffect DEF RecordBootstrapIdentity, TypeOK, Sites, BootSteps, Process
  <1>6. ASSUME NEW r \in Replicas, EnsureTenant(r) PROVE TypeOK'
    BY <1>6, GoEffect DEF EnsureTenant, TypeOK, BootSteps, Process
  <1>7. ASSUME NEW r \in Replicas, EnsureAdminUser(r) PROVE TypeOK'
    <2> DEFINE next == IF NeedsPassword(users'[replica[r].identity]) THEN "password" ELSE "branding"
    <2>1. replica[r].identity \in Identities
      BY <1>7 DEF EnsureAdminUser, TypeOK, Process
    <2>2. Go(r, next) /\ next \in {"password", "branding"}
      BY <1>7 DEF EnsureAdminUser
    <2>3. users' \in [Identities -> User \cup {Nothing}]
      BY <1>7, <2>1 DEF EnsureAdminUser, TypeOK, User, Hashes
    <2> HIDE DEF next
    <2> QED BY <1>7, <2>2, <2>3, GoEffect DEF EnsureAdminUser, TypeOK, BootSteps
  <1>8. ASSUME NEW r \in Replicas, SetPassword(r) PROVE TypeOK'
    <2>1. replica[r].identity \in Identities
      BY <1>8 DEF SetPassword, TypeOK, Process
    <2>2. users' \in [Identities -> User \cup {Nothing}]
      BY <1>8, <2>1 DEF SetPassword, TypeOK, User, Hashes
    <2> QED BY <1>8, <2>2, GoEffect DEF SetPassword, TypeOK, BootSteps
  <1>9. ASSUME NEW r \in Replicas, SeedBranding(r) \/ ConfirmAdmin(r) PROVE TypeOK'
    BY <1>9, GoEffect DEF SeedBranding, ConfirmAdmin, TypeOK, database, BootSteps
  <1>10. ASSUME NEW r \in Replicas, BuildModules(r) PROVE TypeOK'
    BY <1>10, CreateTableEffect DEF BuildModules, TypeOK, database, Sites, BootSteps
  <1>11. ASSUME NEW r \in Replicas, Finish(r) \/ FinishCancelled(r) \/ Signal(r) PROVE TypeOK'
    BY <1>11, GoEffect DEF Finish, FinishCancelled, Signal, FreeLock, TypeOK, database
  <1>12. ASSUME NEW r \in Replicas, Fail(r) \/ Close(r) \/ Crash(r) PROVE TypeOK'
    BY <1>12, DownEffect DEF Fail, Close, Crash, FreeLock, TypeOK, database
  <1>13. ASSUME ChangePassword \/ DeleteAdmin \/ EditBranding PROVE TypeOK'
    BY <1>13 DEF ChangePassword, DeleteAdmin, EditBranding, TypeOK, User, Hashes
  <1>14. CASE UNCHANGED vars
    BY <1>14 DEF vars, database, TypeOK
  <1> QED BY <1>1, <1>2, <1>3, <1>4, <1>5, <1>6, <1>7, <1>8, <1>9, <1>10, <1>11, <1>12,
             <1>13, <1>14 DEF Next, BootStep

\* Every reachable state has the declared shape; in particular no dead process
\* holds the schema lock and every process past resolve knows its ids.
THEOREM TypeCorrect == Spec => []TypeOK
  BY InitType, NextType, PTL DEF Spec

-----------------------------------------------------------------------------
(***************************************************************************)
(* One process at a time between the lock and the end of its boot.         *)
(***************************************************************************)

Locked == BootSteps \ {"waiting"}

\* On PostgreSQL a boot past the wait holds the lock; on SQLite at most one
\* process is alive.
Alone ==
  /\ \A r \in Replicas : deployment.postgres /\ replica[r].pc \in Locked => lock = r
  /\ \A r, s \in Replicas :
       ~deployment.postgres /\ replica[r].pc # "down" /\ replica[s].pc # "down" => r = s

LEMMA OneBoots ==
  ASSUME Alone, NEW r \in Replicas, NEW s \in Replicas,
         replica[r].pc \in Locked, replica[s].pc \in Locked
  PROVE  r = s
  BY DEF Alone, Locked, BootSteps

\* What the steps between the lock and the end of the boot have in common.
LEMMA InnerStepEffect ==
  ASSUME TypeOK, NEW r \in Replicas, BootStep(r), ~Finish(r), ~FinishCancelled(r)
  PROVE  /\ replica[r].pc \in Locked /\ replica'[r].pc \in Locked
         /\ \A s \in Replicas \ {r} : replica'[s] = replica[s]
         /\ UNCHANGED <<deployment, lock>>
  <1>1. CASE LookUpTable(r)
    BY <1>1 DEF LookUpTable, TypeOK, Process, Locked, BootSteps, Sites
  <1>2. CASE OpenModuleStores(r) \/ RecordBootstrapIdentity(r) \/ BuildModules(r)
    BY <1>2, CreateTableEffect
    DEF OpenModuleStores, RecordBootstrapIdentity, BuildModules, Locked, BootSteps, Sites
  <1>3. CASE ResolveBootstrapIdentity(r)
    BY <1>3 DEF ResolveBootstrapIdentity, TypeOK, Process, Locked, BootSteps
  <1>4. CASE EnsureTenant(r) \/ SetPassword(r) \/ SeedBranding(r) \/ ConfirmAdmin(r)
    BY <1>4, GoEffect
    DEF EnsureTenant, SetPassword, SeedBranding, ConfirmAdmin, Locked, BootSteps
  <1>5. CASE EnsureAdminUser(r)
    <2> DEFINE next == IF NeedsPassword(users'[replica[r].identity]) THEN "password" ELSE "branding"
    <2>1. Go(r, next) /\ next \in {"password", "branding"}
      BY <1>5 DEF EnsureAdminUser
    <2> HIDE DEF next
    <2> QED BY <1>5, <2>1, GoEffect DEF EnsureAdminUser, Locked, BootSteps
  <1> QED BY <1>1, <1>2, <1>3, <1>4, <1>5 DEF BootStep

\* A process leaves its boot, or its life, and takes its lock with it unless the
\* context was cancelled.
LEMMA EndEffect ==
  ASSUME TypeOK, NEW r \in Replicas,
         Finish(r) \/ FinishCancelled(r) \/ Fail(r) \/ Signal(r) \/ Close(r) \/ Crash(r)
  PROVE  /\ replica[r].pc # "down" /\ replica'[r].pc \in {"down", "up", "draining"}
         /\ replica'[r].table \in {"unseen", replica[r].table}
         /\ replica'[r].pc # "down" =>
              /\ replica'[r].identity = replica[r].identity
              /\ replica[r].pc \in {"finish", "up"}
         /\ \A s \in Replicas \ {r} : replica'[s] = replica[s]
         /\ UNCHANGED <<deployment, tables, database>>
         /\ lock' = lock \/ lock = r
  BY GoEffect, DownEffect
  DEF Finish, FinishCancelled, Fail, Signal, Close, Crash, FreeLock, Booting, BootSteps, database

LEMMA OperatorEffect ==
  ASSUME ChangePassword \/ DeleteAdmin \/ EditBranding
  PROVE  UNCHANGED <<deployment, tables, ledger, tenants, lock, replica>> /\ Serving
  BY DEF ChangePassword, DeleteAdmin, EditBranding

LEMMA NextAlone == TypeOK /\ Alone /\ [Next]_vars => Alone'
  <1> SUFFICES ASSUME TypeOK, Alone, [Next]_vars PROVE Alone'
    OBVIOUS
  <1>1. ASSUME NEW r \in Replicas, Start(r) PROVE Alone'
    BY <1>1, GoEffect DEF Start, Alone, Locked, BootSteps
  <1>2. ASSUME NEW r \in Replicas, AcquireSchemaLock(r) PROVE Alone'
    <2>1. /\ replica[r].pc = "waiting" /\ replica'[r].pc = "stores"
          /\ \A s \in Replicas \ {r} : replica'[s] = replica[s]
          /\ UNCHANGED deployment
      BY <1>2, GoEffect DEF AcquireSchemaLock, BootSteps
    <2>2. deployment.postgres => lock = Nobody /\ lock' = r
      BY <1>2 DEF AcquireSchemaLock
    <2>3. ASSUME deployment.postgres, NEW s \in Replicas \ {r} PROVE replica[s].pc \notin Locked
      BY <2>2, <2>3, BootAssumption DEF Alone
    <2> QED BY <2>1, <2>2, <2>3 DEF Alone, Locked, BootSteps
  <1>3. ASSUME NEW r \in Replicas, BootStep(r), ~Finish(r), ~FinishCancelled(r) PROVE Alone'
    BY <1>3, InnerStepEffect DEF Alone, Locked, BootSteps
  <1>4. ASSUME NEW r \in Replicas,
               Finish(r) \/ FinishCancelled(r) \/ Fail(r) \/ Signal(r) \/ Close(r) \/ Crash(r)
        PROVE  Alone'
    BY <1>4, EndEffect DEF Alone, Locked, BootSteps
  <1>5. ASSUME ChangePassword \/ DeleteAdmin \/ EditBranding PROVE Alone'
    BY <1>5, OperatorEffect DEF Alone
  <1>6. CASE UNCHANGED vars
    BY <1>6 DEF vars, Alone
  <1> QED BY <1>1, <1>2, <1>3, <1>4, <1>5, <1>6 DEF Next

\* A boot past the wait has the database to itself: it holds PostgreSQL's lock, or
\* on SQLite no other process lives.
THEOREM AlwaysAlone == Spec => []Alone
  <1>1. Init => Alone
    BY DEF Init, Down, Alone, Locked, BootSteps
  <1> QED BY <1>1, NextAlone, TypeCorrect, PTL DEF Spec

-----------------------------------------------------------------------------
(***************************************************************************)
(* Schema creation.                                                        *)
(***************************************************************************)

\* A process has looked into the catalog only where it is about to create.
LooksWhereItCreates ==
  \A r \in Replicas : replica[r].table # "unseen" => replica[r].pc \in Sites

\* Only a step of the boot adds a table, at its own site, and forgets the look.
LEMMA TablesEffect ==
  ASSUME TypeOK, LooksWhereItCreates, NEW r \in Replicas,
         BootStep(r), ~Finish(r), ~FinishCancelled(r), ~LookUpTable(r)
  PROVE  /\ replica'[r].table = "unseen"
         /\ tables' \in {tables, tables \cup {replica[r].pc}}
  <1>1. CASE OpenModuleStores(r) \/ RecordBootstrapIdentity(r) \/ BuildModules(r)
    BY <1>1, CreateTableEffect
    DEF OpenModuleStores, RecordBootstrapIdentity, BuildModules, BootSteps, Sites
  <1>2. CASE ResolveBootstrapIdentity(r)
    BY <1>2 DEF ResolveBootstrapIdentity, TypeOK, Process, LooksWhereItCreates, Sites
  <1>3. CASE EnsureTenant(r) \/ SetPassword(r) \/ SeedBranding(r) \/ ConfirmAdmin(r)
    BY <1>3, GoEffect
    DEF EnsureTenant, SetPassword, SeedBranding, ConfirmAdmin, LooksWhereItCreates, Sites,
        BootSteps, Process, TypeOK
  <1>4. CASE EnsureAdminUser(r)
    <2> DEFINE next == IF NeedsPassword(users'[replica[r].identity]) THEN "password" ELSE "branding"
    <2>1. Go(r, next) /\ next \in {"password", "branding"}
      BY <1>4 DEF EnsureAdminUser
    <2> HIDE DEF next
    <2> QED BY <1>4, <2>1, GoEffect
            DEF EnsureAdminUser, LooksWhereItCreates, Sites, BootSteps, Process, TypeOK
  <1> QED BY <1>1, <1>2, <1>3, <1>4 DEF BootStep

LEMMA NextSchema ==
  TypeOK /\ Alone /\ LooksWhereItCreates /\ SchemaCreatedAlone /\ [Next]_vars
    => LooksWhereItCreates' /\ SchemaCreatedAlone'
  <1> SUFFICES ASSUME TypeOK, Alone, LooksWhereItCreates, SchemaCreatedAlone, [Next]_vars
               PROVE  LooksWhereItCreates' /\ SchemaCreatedAlone'
    OBVIOUS
  <1>1. ASSUME NEW r \in Replicas, Start(r) \/ AcquireSchemaLock(r)
        PROVE  LooksWhereItCreates' /\ SchemaCreatedAlone'
    BY <1>1, GoEffect
    DEF Start, AcquireSchemaLock, LooksWhereItCreates, SchemaCreatedAlone, BootSteps, Sites
  <1>2. ASSUME NEW r \in Replicas, LookUpTable(r)
        PROVE  LooksWhereItCreates' /\ SchemaCreatedAlone'
    <2>1. /\ replica'[r].pc = replica[r].pc /\ replica[r].pc \in Sites
          /\ replica'[r].table = "missing" => replica[r].pc \notin tables
          /\ \A s \in Replicas \ {r} : replica'[s] = replica[s]
          /\ tables' = tables
      BY <1>2 DEF LookUpTable, TypeOK, Process
    <2> QED BY <2>1 DEF LooksWhereItCreates, SchemaCreatedAlone
  <1>3. ASSUME NEW r \in Replicas, BootStep(r), ~Finish(r), ~FinishCancelled(r), ~LookUpTable(r)
        PROVE  LooksWhereItCreates' /\ SchemaCreatedAlone'
    <2>1. \A s \in Replicas \ {r} : replica'[s] = replica[s]
      BY <1>3, InnerStepEffect
    <2>2. replica[r].pc \in Locked
      BY <1>3, InnerStepEffect
    <2>3. \A s \in Replicas \ {r} : replica[s].table = "unseen"
      BY <2>2, OneBoots DEF LooksWhereItCreates, Locked, BootSteps, Sites
    <2> QED BY <1>3, <2>1, <2>3, TablesEffect DEF LooksWhereItCreates, SchemaCreatedAlone
  <1>4. ASSUME NEW r \in Replicas,
               Finish(r) \/ FinishCancelled(r) \/ Fail(r) \/ Signal(r) \/ Close(r) \/ Crash(r)
        PROVE  LooksWhereItCreates' /\ SchemaCreatedAlone'
    <2>1. replica'[r].table = "unseen"
      <3>1. CASE replica'[r].pc = "down"
        BY <1>4, <3>1, DownEffect, GoEffect
        DEF Finish, FinishCancelled, Fail, Signal, Close, Crash
      <3>2. CASE replica'[r].pc # "down"
        BY <1>4, <3>2, EndEffect DEF LooksWhereItCreates, Sites, TypeOK, Process
      <3> QED BY <3>1, <3>2
    <2> QED BY <1>4, <2>1, EndEffect DEF LooksWhereItCreates, SchemaCreatedAlone
  <1>5. ASSUME ChangePassword \/ DeleteAdmin \/ EditBranding
        PROVE  LooksWhereItCreates' /\ SchemaCreatedAlone'
    BY <1>5, OperatorEffect DEF LooksWhereItCreates, SchemaCreatedAlone
  <1>6. CASE UNCHANGED vars
    BY <1>6 DEF vars, LooksWhereItCreates, SchemaCreatedAlone
  <1> QED BY <1>1, <1>2, <1>3, <1>4, <1>5, <1>6 DEF Next

\* "A booting replica creates schema alone": whatever the number of replicas, no
\* table a boot found missing is created by another before it does so itself.
THEOREM SchemaAlone == Spec => []SchemaCreatedAlone
  <1>1. Init => LooksWhereItCreates /\ SchemaCreatedAlone
    BY DEF Init, Down, LooksWhereItCreates, SchemaCreatedAlone
  <1> QED BY <1>1, NextSchema, TypeCorrect, AlwaysAlone, PTL DEF Spec

-----------------------------------------------------------------------------
(***************************************************************************)
(* The seed and the ledger.                                                *)
(***************************************************************************)

Recorded == {"tenant", "admin", "password", "branding", "confirm", "modules", "finish",
             "up", "draining"}
Seeded == {"branding", "confirm", "modules", "finish"}

\* From the record on, the ids a process works with are the ledger's.
KnowsLedger ==
  \A r \in Replicas :
    /\ replica[r].pc = "ledger" => ledger \in {Nothing, replica[r].identity}
    /\ replica[r].pc \in Recorded => ledger = replica[r].identity

\* The tenant is there from the step that ensures it, the password from the
\* step that sets it.
SeedsInOrder ==
  \A r \in Replicas :
    /\ replica[r].pc \in {"admin", "password"} \cup Seeded => ledger \in tenants
    /\ replica[r].pc \in Seeded =>
         (users[ledger] # Nothing => users[ledger].hash # "none")

\* Outside development only a missing password is about to be set.
SetsOnlyMissing ==
  \A r \in Replicas :
    replica[r].pc = "password" /\ ~deployment.development /\ users[replica[r].identity] # Nothing
      => users[replica[r].identity].hash = "none"

SeedInv == KnowsLedger /\ SeededIsRecorded /\ SeedsInOrder /\ SetsOnlyMissing

\* Steps that leave the bootstrap rows alone and only go on.
LEMMA QuietEffect ==
  ASSUME TypeOK, NEW r \in Replicas,
         \/ LookUpTable(r) \/ OpenModuleStores(r) \/ BuildModules(r)
         \/ ConfirmAdmin(r) \/ SeedBranding(r)
  PROVE  /\ UNCHANGED <<deployment, ledger, tenants, users>>
         /\ replica'[r].identity = replica[r].identity
         /\ \A s \in Replicas \ {r} : replica'[s] = replica[s]
         /\ \/ replica'[r].pc = replica[r].pc
            \/ replica'[r].pc = "resolve"
            \/ replica[r].pc \in Seeded /\ replica'[r].pc \in Seeded
  <1>1. CASE LookUpTable(r)
    BY <1>1 DEF LookUpTable, TypeOK, Process, database
  <1>2. CASE OpenModuleStores(r) \/ BuildModules(r)
    BY <1>2, CreateTableEffect DEF OpenModuleStores, BuildModules, Sites, BootSteps, Seeded, database
  <1>3. CASE ConfirmAdmin(r) \/ SeedBranding(r)
    BY <1>3, GoEffect DEF ConfirmAdmin, SeedBranding, BootSteps, Seeded, database
  <1> QED BY <1>1, <1>2, <1>3

LEMMA NextSeed == TypeOK /\ Alone /\ SeedInv /\ [Next]_vars => SeedInv'
  <1> SUFFICES ASSUME TypeOK, Alone, SeedInv, [Next]_vars PROVE SeedInv'
    OBVIOUS
  <1> USE BootAssumption
  <1>1. ASSUME NEW r \in Replicas, Start(r) \/ AcquireSchemaLock(r) PROVE SeedInv'
    <2>1. /\ UNCHANGED <<deployment, ledger, tenants, users>>
          /\ replica'[r].pc \in {"waiting", "stores"}
          /\ \A s \in Replicas \ {r} : replica'[s] = replica[s]
      BY <1>1, GoEffect DEF Start, AcquireSchemaLock, BootSteps, database
    <2> QED BY <2>1 DEF SeedInv, KnowsLedger, SeededIsRecorded, SeedsInOrder, SetsOnlyMissing,
                        Foreign, Recorded, Seeded
  <1>2. ASSUME NEW r \in Replicas,
               \/ LookUpTable(r) \/ OpenModuleStores(r) \/ BuildModules(r)
               \/ ConfirmAdmin(r) \/ SeedBranding(r)
        PROVE  SeedInv'
    BY <1>2, QuietEffect
    DEF SeedInv, KnowsLedger, SeededIsRecorded, SeedsInOrder, SetsOnlyMissing, Foreign,
        Recorded, Seeded
  <1>3. ASSUME NEW r \in Replicas, ResolveBootstrapIdentity(r) PROVE SeedInv'
    <2>1. /\ UNCHANGED <<deployment, ledger, tenants, users>>
          /\ replica'[r].pc = "ledger"
          /\ ledger \in {Nothing, replica'[r].identity}
          /\ \A s \in Replicas \ {r} : replica'[s] = replica[s]
      BY <1>3 DEF ResolveBootstrapIdentity, TypeOK, Process, database
    <2> QED BY <2>1 DEF SeedInv, KnowsLedger, SeededIsRecorded, SeedsInOrder, SetsOnlyMissing,
                        Foreign, Recorded, Seeded
  <1>4. ASSUME NEW r \in Replicas, RecordBootstrapIdentity(r) PROVE SeedInv'
    <2>1. /\ UNCHANGED <<deployment, tenants, users>>
          /\ replica[r].pc = "ledger" /\ replica'[r].pc = "tenant"
          /\ ledger' = replica[r].identity /\ replica'[r].identity = replica[r].identity
          /\ ledger \in {Nothing, ledger'}
          /\ \A s \in Replicas \ {r} : replica'[s] = replica[s]
      BY <1>4, CreateTableEffect DEF RecordBootstrapIdentity, Sites, BootSteps
    <2>2. \A s \in Replicas \ {r} :
            /\ replica[s].pc # "ledger"
            /\ replica[s].pc \in Recorded => ledger # Nothing
      <3>1. \A s \in Replicas \ {r} : replica[s].pc # "ledger"
        BY <2>1, OneBoots DEF Locked, BootSteps
      <3>2. \A s \in Replicas : replica[s].pc \in Recorded => replica[s].identity # Nothing
        BY DEF TypeOK, Recorded
      <3> QED BY <3>1, <3>2 DEF SeedInv, KnowsLedger
    <2>3. KnowsLedger'
      BY <2>1, <2>2 DEF SeedInv, KnowsLedger, Recorded
    <2>4. SeededIsRecorded'
      BY <2>1 DEF SeedInv, SeededIsRecorded, Foreign, Identities
    <2>5. SeedsInOrder'
      BY <2>1, <2>2 DEF SeedInv, SeedsInOrder, Recorded, Seeded
    <2>6. SetsOnlyMissing'
      BY <2>1 DEF SeedInv, SetsOnlyMissing
    <2> QED BY <2>3, <2>4, <2>5, <2>6 DEF SeedInv
  <1>5. ASSUME NEW r \in Replicas, EnsureTenant(r) PROVE SeedInv'
    <2>1. /\ UNCHANGED <<deployment, ledger, users>>
          /\ replica[r].pc = "tenant" /\ replica'[r].pc = "admin"
          /\ replica'[r].identity = replica[r].identity
          /\ tenants' = tenants \cup {replica[r].identity}
          /\ \A s \in Replicas \ {r} : replica'[s] = replica[s]
      BY <1>5, GoEffect DEF EnsureTenant, BootSteps
    <2>2. ledger = replica[r].identity
      BY <2>1 DEF SeedInv, KnowsLedger, Recorded
    <2> QED BY <2>1, <2>2 DEF SeedInv, KnowsLedger, SeededIsRecorded, SeedsInOrder,
                              SetsOnlyMissing, Foreign, Recorded, Seeded
  <1>6. ASSUME NEW r \in Replicas, EnsureAdminUser(r) PROVE SeedInv'
    <2> DEFINE i == replica[r].identity
    <2>1. /\ UNCHANGED <<deployment, tenants, ledger>>
          /\ replica[r].pc = "admin"
          /\ i \in Identities /\ ledger = i
      BY <1>6 DEF EnsureAdminUser, SeedInv, KnowsLedger, Recorded, TypeOK, Process
    <2>2. /\ users'[i] \in User
          /\ \A j \in Identities \ {i} : users'[j] = users[j]
          /\ users[i] = Nothing => users'[i].tenant = i
          /\ users[i] # Nothing => users'[i] = users[i]
      BY <1>6, <2>1 DEF EnsureAdminUser, TypeOK, User, Hashes
    <2>3. /\ \A s \in Replicas \ {r} : replica'[s] = replica[s]
          /\ replica'[r].identity = i
          /\ replica'[r].pc \in {"password", "branding"}
          /\ replica'[r].pc = "password" <=> NeedsPassword(users'[i])
      <3> DEFINE next == IF NeedsPassword(users'[i]) THEN "password" ELSE "branding"
      <3>1. /\ Go(r, next) /\ next \in {"password", "branding"}
            /\ next = "password" <=> NeedsPassword(users'[i])
        BY <1>6 DEF EnsureAdminUser
      <3> HIDE DEF next
      <3> QED BY <3>1, GoEffect DEF BootSteps
    <2>4. \A s \in Replicas \ {r} : replica[s].pc \notin Locked
      BY <2>1, OneBoots DEF Locked, BootSteps
    <2>5. KnowsLedger'
      BY <2>1, <2>3 DEF SeedInv, KnowsLedger, Recorded
    <2>6. SeededIsRecorded'
      BY <2>1, <2>2, BootAssumption DEF SeedInv, SeededIsRecorded, Foreign
    <2>7. SeedsInOrder'
      BY <2>1, <2>2, <2>3, <2>4
      DEF SeedInv, SeedsInOrder, Seeded, Locked, BootSteps, NeedsPassword
    <2>8. SetsOnlyMissing'
      BY <2>1, <2>2, <2>3, <2>4 DEF SetsOnlyMissing, Locked, BootSteps, NeedsPassword
    <2> QED BY <2>5, <2>6, <2>7, <2>8 DEF SeedInv
  <1>7. ASSUME NEW r \in Replicas, SetPassword(r) PROVE SeedInv'
    <2> DEFINE i == replica[r].identity
    <2>1. /\ UNCHANGED <<deployment, tenants, ledger>>
          /\ replica[r].pc = "password" /\ replica'[r].pc = "branding"
          /\ replica'[r].identity = i
          /\ \A s \in Replicas \ {r} : replica'[s] = replica[s]
      BY <1>7, GoEffect DEF SetPassword, BootSteps
    <2>2. i \in Identities /\ ledger = i
      BY <2>1 DEF SeedInv, KnowsLedger, Recorded, TypeOK, Process
    <2>3. /\ users[i] # Nothing
          /\ users'[i].hash = "configured" /\ users'[i].tenant = users[i].tenant
          /\ \A j \in Identities \ {i} : users'[j] = users[j]
      BY <1>7, <2>2 DEF SetPassword, TypeOK, User
    <2>4. \A s \in Replicas \ {r} : replica[s].pc \notin Locked
      BY <2>1, OneBoots DEF Locked, BootSteps
    <2>5. KnowsLedger'
      BY <2>1 DEF SeedInv, KnowsLedger, Recorded
    <2>6. SeededIsRecorded'
      BY <2>1, <2>2, <2>3 DEF SeedInv, SeededIsRecorded, Foreign
    <2>7. SeedsInOrder'
      BY <2>1, <2>2, <2>3, <2>4 DEF SeedInv, SeedsInOrder, Seeded, Locked, BootSteps
    <2>8. SetsOnlyMissing'
      BY <2>1, <2>4 DEF SetsOnlyMissing, Locked, BootSteps
    <2> QED BY <2>5, <2>6, <2>7, <2>8 DEF SeedInv
  <1>8. ASSUME NEW r \in Replicas,
               Finish(r) \/ FinishCancelled(r) \/ Fail(r) \/ Signal(r) \/ Close(r) \/ Crash(r)
        PROVE  SeedInv'
    <2>1. UNCHANGED <<deployment, ledger, tenants, users>>
      BY <1>8, EndEffect DEF database
    <2> QED BY <1>8, <2>1, EndEffect
            DEF SeedInv, KnowsLedger, SeededIsRecorded, SeedsInOrder, SetsOnlyMissing, Foreign,
                Recorded, Seeded
  <1>9. ASSUME ChangePassword \/ DeleteAdmin \/ EditBranding PROVE SeedInv'
    <2>1. UNCHANGED <<deployment, ledger, tenants, replica>> /\ ledger \in Identities
      BY <1>9, OperatorEffect DEF Serving, SeedInv, KnowsLedger, Recorded, TypeOK, Process
    <2>2. /\ users' \in [Identities -> User \cup {Nothing}]
          /\ \A j \in Identities \ {ledger} : users'[j] = users[j]
          /\ \/ users'[ledger] = users[ledger]
             \/ users'[ledger] = Nothing
             \/ /\ users[ledger] # Nothing /\ users[ledger].hash # "none"
                /\ users'[ledger].hash = "operators"
                /\ users'[ledger].tenant = users[ledger].tenant
      BY <1>9, <2>1 DEF ChangePassword, DeleteAdmin, EditBranding, TypeOK, User, Hashes
    <2>3. KnowsLedger'
      BY <2>1 DEF SeedInv, KnowsLedger
    <2>4. SeededIsRecorded'
      BY <2>1, <2>2 DEF SeedInv, SeededIsRecorded, Foreign
    <2>5. SeedsInOrder'
      BY <2>1, <2>2 DEF SeedInv, SeedsInOrder
    <2>6. SetsOnlyMissing'
      BY <2>1, <2>2 DEF SeedInv, SetsOnlyMissing, KnowsLedger, Recorded
    <2> QED BY <2>3, <2>4, <2>5, <2>6 DEF SeedInv
  <1>10. CASE UNCHANGED vars
    BY <1>10 DEF vars, database, SeedInv, KnowsLedger, SeededIsRecorded, SeedsInOrder,
                 SetsOnlyMissing, Foreign
  <1> QED BY <1>1, <1>2, <1>3, <1>4, <1>5, <1>6, <1>7, <1>8, <1>9, <1>10 DEF Next, BootStep

\* Seed and ledger agree at every moment, whichever step a boot dies at.
THEOREM SeedCorrect == Spec => []SeedInv
  <1>1. Init => SeedInv
    BY DEF Init, NoRows, Down, SeedInv, KnowsLedger, SeededIsRecorded, SeedsInOrder,
           SetsOnlyMissing, Foreign, Recorded, Seeded, Identities
  <1> QED BY <1>1, NextSeed, TypeCorrect, AlwaysAlone, PTL DEF Spec

\* Whichever step boots die at, the bootstrap rows of a known database are the
\* ledger's, so the next boot is neither refused nor seeds a second administrator.
THEOREM CrashesStrandNothing == Spec => []SeededIsRecorded
  BY SeedCorrect, PTL DEF SeedInv

\* A boot that gets past the seed leaves no administrator without a password and
\* no missing tenant, whatever earlier boots left half done.
THEOREM SeedHeals == Spec => []PartialBootHeals
  <1>1. SeedInv => PartialBootHeals
    BY DEF SeedInv, SeedsInOrder, PartialBootHeals, Seeded
  <1> QED BY <1>1, SeedCorrect, PTL

-----------------------------------------------------------------------------
(***************************************************************************)
(* What boots never undo.                                                  *)
(***************************************************************************)

\* Users change in three places only.
LEMMA UsersEffect ==
  ASSUME [Next]_vars, users' # users
  PROVE  \/ \E r \in Replicas : EnsureAdminUser(r) \/ SetPassword(r)
         \/ ChangePassword \/ DeleteAdmin
  <1>1. ASSUME NEW r \in Replicas,
               Start(r) \/ AcquireSchemaLock(r) \/ LookUpTable(r) \/ OpenModuleStores(r)
        PROVE  users' = users
    BY <1>1 DEF Start, AcquireSchemaLock, LookUpTable, OpenModuleStores, database
  <1>2. ASSUME NEW r \in Replicas,
               \/ ResolveBootstrapIdentity(r) \/ RecordBootstrapIdentity(r) \/ EnsureTenant(r)
               \/ SeedBranding(r) \/ ConfirmAdmin(r) \/ BuildModules(r)
        PROVE  users' = users
    BY <1>2 DEF ResolveBootstrapIdentity, RecordBootstrapIdentity, EnsureTenant, SeedBranding,
                ConfirmAdmin, BuildModules, database
  <1>3. ASSUME NEW r \in Replicas,
               Finish(r) \/ FinishCancelled(r) \/ Fail(r) \/ Signal(r) \/ Close(r) \/ Crash(r)
        PROVE  users' = users
    BY <1>3 DEF Finish, FinishCancelled, Fail, Signal, Close, Crash, database
  <1>4. EditBranding \/ UNCHANGED vars => users' = users
    BY DEF EditBranding, vars, database
  <1> QED BY <1>1, <1>2, <1>3, <1>4 DEF Next, BootStep

\* Outside development no boot of any replica takes back a password an operator
\* chose, whether the account was just made, half made or long there.
LEMMA PasswordsKept == Spec => OperatorPasswordKept
  <1> DEFINE Kept(i) ==
        ~deployment.development /\ users[i] # Nothing /\ users[i].hash = "operators" =>
          users'[i] = Nothing \/ users'[i].hash = "operators"
  <1>1. TypeOK /\ SeedInv /\ [Next]_vars => [\A i \in Identities : Kept(i)]_vars
    <2> SUFFICES ASSUME TypeOK, SeedInv, [Next]_vars, users' # users, NEW i \in Identities
                 PROVE  Kept(i)
      OBVIOUS
    <2>1. ASSUME NEW r \in Replicas, EnsureAdminUser(r) PROVE Kept(i)
      BY <2>1 DEF EnsureAdminUser, TypeOK, Process
    <2>2. ASSUME NEW r \in Replicas, SetPassword(r) PROVE Kept(i)
      <3>1. /\ replica[r].pc = "password" /\ users[replica[r].identity] # Nothing
            /\ i # replica[r].identity => users'[i] = users[i]
        BY <2>2 DEF SetPassword, TypeOK
      <3> QED BY <3>1 DEF SeedInv, SetsOnlyMissing
    <2>3. CASE ChangePassword
      BY <2>3 DEF ChangePassword, TypeOK, User
    <2>4. CASE DeleteAdmin
      BY <2>4 DEF DeleteAdmin, TypeOK
    <2> QED BY <2>1, <2>2, <2>3, <2>4, UsersEffect
  <1> QED BY <1>1, TypeCorrect, SeedCorrect, PTL DEF Spec, OperatorPasswordKept

\* Only EditBranding and the seed write the branding, and the seed only where
\* there is none.
LEMMA BrandingKept == Spec => OperatorBrandingKept
  <1>1. [Next]_vars => [branding = "edited" => branding' = "edited"]_vars
    BY DEF Next, BootStep, vars, database, Start, AcquireSchemaLock, LookUpTable,
           OpenModuleStores, ResolveBootstrapIdentity, RecordBootstrapIdentity, EnsureTenant,
           EnsureAdminUser, SetPassword, SeedBranding, ConfirmAdmin, BuildModules, Finish,
           FinishCancelled, Fail, Signal, Close, Crash, ChangePassword, DeleteAdmin, EditBranding
  <1> QED BY <1>1, PTL DEF Spec, OperatorBrandingKept

\* What operators changed through one replica no boot of any other takes back.
THEOREM ChangesKept == Spec => OperatorChangesKept
  BY PasswordsKept, BrandingKept DEF OperatorChangesKept

\* Engine, environment and history of the database are given once.
LEMMA DeploymentFixed == [Next]_vars => deployment' = deployment
  BY DEF Next, BootStep, vars, Start, AcquireSchemaLock, LookUpTable, OpenModuleStores,
         ResolveBootstrapIdentity, RecordBootstrapIdentity, EnsureTenant, EnsureAdminUser,
         SetPassword, SeedBranding, ConfirmAdmin, BuildModules, Finish, FinishCancelled,
         Fail, Signal, Close, Crash, ChangePassword, DeleteAdmin, EditBranding

\* A foreign database stays one that resolve refuses, and no boot gets past it.
Refused ==
  Foreign =>
    /\ \/ ledger # Nothing /\ users[ledger] # Nothing /\ users[ledger].tenant # ledger
       \/ ledger = Nothing /\ ("neutral" \in tenants \/ users["neutral"] # Nothing)
    /\ \A r \in Replicas : replica[r].pc \in {"down", "waiting", "stores", "resolve"}

LEMMA NextRefused ==
  TypeOK /\ Refused /\ [Next]_vars => Refused' /\ (Foreign => UNCHANGED database)
  <1> SUFFICES ASSUME TypeOK, Refused, [Next]_vars
               PROVE  Refused' /\ (Foreign => UNCHANGED database)
    OBVIOUS
  <1>1. ASSUME Foreign, NEW r \in Replicas,
               \/ Start(r) \/ AcquireSchemaLock(r) \/ LookUpTable(r) \/ OpenModuleStores(r)
        PROVE  /\ UNCHANGED <<deployment, database>>
               /\ replica'[r].pc \in {"down", "waiting", "stores", "resolve"}
               /\ \A s \in Replicas \ {r} : replica'[s] = replica[s]
    <2>1. CASE Start(r) \/ AcquireSchemaLock(r)
      BY <2>1, GoEffect DEF Start, AcquireSchemaLock, BootSteps
    <2>2. CASE LookUpTable(r)
      BY <1>1, <2>2 DEF LookUpTable, Refused, TypeOK, Process
    <2>3. CASE OpenModuleStores(r)
      BY <2>3, CreateTableEffect DEF OpenModuleStores, Sites, BootSteps
    <2> QED BY <1>1, <2>1, <2>2, <2>3
  <1>2. ASSUME Foreign, NEW r \in Replicas, BootStep(r)
        PROVE  LookUpTable(r) \/ OpenModuleStores(r)
    <2>1. replica[r].pc \in {"down", "waiting", "stores", "resolve"}
      BY <1>2 DEF Refused
    <2>2. ~ResolveBootstrapIdentity(r)
      BY <1>2 DEF Refused, ResolveBootstrapIdentity
    <2> QED BY <1>2, <2>1, <2>2
            DEF BootStep, RecordBootstrapIdentity, EnsureTenant, EnsureAdminUser, SetPassword,
                SeedBranding, ConfirmAdmin, BuildModules, Finish, FinishCancelled
  <1>3. ASSUME Foreign, NEW r \in Replicas, Fail(r) \/ Signal(r) \/ Close(r) \/ Crash(r)
        PROVE  /\ UNCHANGED <<deployment, database>>
               /\ replica'[r].pc = "down"
               /\ \A s \in Replicas \ {r} : replica'[s] = replica[s]
    BY <1>3, DownEffect DEF Fail, Signal, Close, Crash, Refused
  <1>4. Foreign => ~(ChangePassword \/ DeleteAdmin \/ EditBranding)
    BY DEF ChangePassword, DeleteAdmin, EditBranding, Serving, Refused
  <1>5. ASSUME Foreign
        PROVE  /\ UNCHANGED <<deployment, database>>
               /\ \A r \in Replicas : replica'[r].pc \in {"down", "waiting", "stores", "resolve"}
    <2>1. CASE UNCHANGED vars
      BY <1>5, <2>1 DEF vars, Refused
    <2>2. ASSUME NEW r \in Replicas,
                 /\ UNCHANGED <<deployment, database>>
                 /\ replica'[r].pc \in {"down", "waiting", "stores", "resolve"}
                 /\ \A s \in Replicas \ {r} : replica'[s] = replica[s]
          PROVE  \A s \in Replicas : replica'[s].pc \in {"down", "waiting", "stores", "resolve"}
      BY <1>5, <2>2 DEF Refused
    <2>3. ASSUME NEW r \in Replicas,
                 \/ Start(r) \/ AcquireSchemaLock(r) \/ BootStep(r)
                 \/ Fail(r) \/ Signal(r) \/ Close(r) \/ Crash(r)
          PROVE  /\ UNCHANGED <<deployment, database>>
                 /\ replica'[r].pc \in {"down", "waiting", "stores", "resolve"}
                 /\ \A s \in Replicas \ {r} : replica'[s] = replica[s]
      BY <1>1, <1>2, <1>3, <1>5, <2>3
    <2> QED BY <1>4, <1>5, <2>1, <2>2, <2>3 DEF Next
  <1>6. ~Foreign => ~Foreign'
    BY DeploymentFixed DEF Foreign
  <1> QED BY <1>5, <1>6 DEF Refused, Foreign, database

\* Rows of unknown origin are neither adopted nor changed, and nothing serves
\* them, however often and by however many replicas it is tried.
THEOREM ForeignUntouched == Spec => ForeignRowsUntouched
  <1>1. Init => Refused
    BY BootAssumption DEF Init, NoRows, Down, Refused, Foreign, Identities, User, Hashes
  <1>2. TypeOK /\ Refused /\ [Next]_vars =>
          [Foreign => UNCHANGED database /\ \A r \in Replicas : replica'[r].pc # "up"]_vars
    <2>1. Refused' /\ Foreign' => \A r \in Replicas : replica'[r].pc # "up"
      BY DEF Refused
    <2> QED BY <2>1, DeploymentFixed, NextRefused DEF Foreign
  <1>3. TypeOK /\ Refused /\ [Next]_vars => Refused'
    BY NextRefused
  <1> QED BY <1>1, <1>2, <1>3, TypeCorrect, PTL DEF Spec, ForeignRowsUntouched
=============================================================================
