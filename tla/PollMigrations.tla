--------------------------- MODULE PollMigrations ---------------------------
(***************************************************************************)
(* Opening the poll store: migratePollSchema, the adoption of a database   *)
(* that is older than the migration ledger, and the voter secret           *)
(* (reference/polls/pollmodule).                                           *)
(*                                                                         *)
(* A migration is one transaction; the adoption is not: each of its        *)
(* statements commits by itself.  Nothing keeps a second process from      *)
(* opening the same file meanwhile, so processes overlap between           *)
(* statements, and each can die between any two.                           *)
(***************************************************************************)
EXTENDS Naturals

CONSTANTS
  Processes,
  Secrets,   \* what crypto/rand can return
  NoSecret

Latest == 3           \* the last embedded migration
Versions == 1..Latest
Newer == Latest + 1   \* a migration of a later release

\* What each migration creates: v1 table by table, v2 and v3 as a whole.
Objects == [v \in Versions |->
  CASE v = 1 -> {"polls", "slugIndex", "votes"}
    [] v = 2 -> {"lifecycle"}
    [] v = 3 -> {"indexes"}]

VARIABLES
  objects,    \* tables, columns and indexes in the file
  ledger,     \* the versions in poll_schema_migrations
  malformed,  \* the legacy table lacks a required column
  duplicates, \* two legacy polls share a public slug
  secret,     \* poll_settings, voter_cookie_hmac_v1
  process     \* local variables of NewModule in each process

database == <<objects, ledger, malformed, duplicates, secret>>
vars == <<database, process>>

Down == [pc |-> "down", applied |-> {}, secret |-> NoSecret, foundNewer |-> FALSE]
Steps == {"read", "adopt", "normalize", "record", "migrate", "secret", "insert", "reload"}

ASSUME MigrationsAssumption == NoSecret \notin Secrets

\* Every variable keeps its shape; the map a process keeps of the applied
\* versions is never ahead of the ledger.
TypeOK ==
  /\ objects \subseteq UNION {Objects[v] : v \in Versions}
  /\ ledger \subseteq 1..Newer
  /\ malformed \in BOOLEAN /\ duplicates \in BOOLEAN
  /\ secret \in Secrets \cup {NoSecret}
  /\ process \in [Processes -> [pc: Steps \cup {"down", "up"}, applied: SUBSET ledger,
                                secret: Secrets \cup {NoSecret}, foundNewer: BOOLEAN]]

\* A new file, one an earlier release migrated, or one of v0.1: polls, with or
\* without the votes table, and no ledger.
Init ==
  /\ \/ /\ \E n \in 0..Latest :
             ledger = 1..n /\ objects = UNION {Objects[v] : v \in 1..n}
        /\ malformed = FALSE /\ duplicates = FALSE
     \/ /\ ledger = {}
        /\ objects \in {{"polls"}, {"polls", "votes"}}
        /\ malformed \in BOOLEAN /\ duplicates \in BOOLEAN
  /\ secret = NoSecret
  /\ process = [p \in Processes |-> Down]

-----------------------------------------------------------------------------
At(p, step) == process[p].pc = step
Go(p, step) == process' = [process EXCEPT ![p].pc = step]
LearnApplied(p, versions, step) ==
  process' = [process EXCEPT ![p].pc = step, ![p].applied = @ \cup versions]

Start(p) ==
  /\ At(p, "down")
  /\ process' = [process EXCEPT ![p] = [Down EXCEPT !.pc = "read", !.foundNewer = Newer \in ledger]]
  /\ UNCHANGED database

\* Slip: a newer ledger is taken as it is.
ReadLedgerUnchecked(p) ==
  /\ At(p, "read")
  /\ LearnApplied(p, ledger, "adopt")
  /\ UNCHANGED database

\* appliedMigrations and rejectNewerSchema.
ReadLedger(p) ==
  /\ At(p, "read")
  /\ ledger \subseteq Versions
  /\ LearnApplied(p, ledger, "adopt")
  /\ UNCHANGED database

\* adoptLegacySchema up to its first write: nothing to adopt, or a legacy table
\* of the known shape without duplicate slugs.
InspectLegacySchema(p) ==
  /\ At(p, "adopt")
  /\ \/ /\ 1 \in process[p].applied \/ "polls" \notin objects
        /\ Go(p, "migrate")
     \/ /\ 1 \notin process[p].applied /\ "polls" \in objects
        /\ ~malformed /\ ~duplicates
        /\ Go(p, "normalize")
  /\ UNCHANGED database

\* Slip: the statements of v1 do not say IF NOT EXISTS.
NormalizeOnce(p) ==
  /\ At(p, "normalize")
  /\ \/ /\ "slugIndex" \notin objects /\ ~duplicates
        /\ objects' = objects \cup {"slugIndex"}
        /\ UNCHANGED process
     \/ /\ "slugIndex" \in objects /\ "votes" \notin objects
        /\ objects' = objects \cup {"votes"}
        /\ Go(p, "record")
  /\ UNCHANGED <<ledger, malformed, duplicates, secret>>

\* Slip: the index on the slug is not UNIQUE.
NormalizePlainIndex(p) ==
  /\ At(p, "normalize")
  /\ \/ /\ "slugIndex" \notin objects
        /\ objects' = objects \cup {"slugIndex"}
        /\ UNCHANGED process
     \/ /\ "slugIndex" \in objects
        /\ objects' = objects \cup {"votes"}
        /\ Go(p, "record")
  /\ UNCHANGED <<ledger, malformed, duplicates, secret>>

\* The script of v1 outside a transaction, statement by statement, each IF NOT
\* EXISTS; the unique index cannot be created over duplicates.
Normalize(p) ==
  /\ At(p, "normalize")
  /\ \/ /\ "slugIndex" \notin objects /\ ~duplicates
        /\ objects' = objects \cup {"slugIndex"}
        /\ UNCHANGED process
     \/ /\ "slugIndex" \in objects
        /\ objects' = objects \cup {"votes"}
        /\ Go(p, "record")
  /\ UNCHANGED <<ledger, malformed, duplicates, secret>>

\* Slip: the adoption is noted in memory only.
RecordAdoptionInMemory(p) ==
  /\ At(p, "record")
  /\ LearnApplied(p, {1}, "migrate")
  /\ UNCHANGED database

\* INSERT of version 1, the primary key; a second one is an error.
RecordAdoption(p) ==
  /\ At(p, "record")
  /\ 1 \notin ledger
  /\ ledger' = ledger \cup {1}
  /\ LearnApplied(p, {1}, "migrate")
  /\ UNCHANGED <<objects, malformed, duplicates, secret>>

\* The script of migration v runs: CREATE says IF NOT EXISTS, ALTER TABLE ADD
\* COLUMN does not, and each needs what it builds on.
Applicable(v) ==
  CASE v = 1 -> ~duplicates \/ "slugIndex" \in objects
    [] v = 2 -> {"polls", "votes"} \subseteq objects /\ "lifecycle" \notin objects
    [] v = 3 -> "lifecycle" \in objects

\* The loop's next migration: the first this process has not seen applied.
IsNext(p, v) == v \in Versions \ process[p].applied /\ 1..(v - 1) \subseteq process[p].applied

\* Slip: script and ledger row are committed one after the other, and the
\* process may die between.
MigrateInTwoCommits(p) ==
  /\ At(p, "migrate")
  /\ \E v \in Versions :
       /\ IsNext(p, v)
       /\ Applicable(v)
       /\ v \notin ledger
       /\ objects' = objects \cup Objects[v]
       /\ \/ ledger' = ledger \cup {v} /\ LearnApplied(p, {v}, "migrate")
          \/ UNCHANGED ledger /\ process' = [process EXCEPT ![p] = Down]
  /\ UNCHANGED <<malformed, duplicates, secret>>

\* One migration and its ledger row, in one transaction.
Migrate(p) ==
  /\ At(p, "migrate")
  /\ \E v \in Versions :
       /\ IsNext(p, v)
       /\ Applicable(v)
       /\ v \notin ledger
       /\ objects' = objects \cup Objects[v]
       /\ ledger' = ledger \cup {v}
       /\ LearnApplied(p, {v}, "migrate")
  /\ UNCHANGED <<malformed, duplicates, secret>>

MigrationsDone(p) ==
  /\ At(p, "migrate")
  /\ Versions \subseteq process[p].applied
  /\ Go(p, "secret")
  /\ UNCHANGED database

\* VoterSecret: use the stored one, or make one up.
LoadVoterSecret(p) ==
  /\ At(p, "secret")
  /\ \/ secret # NoSecret /\ process' = [process EXCEPT ![p].pc = "up", ![p].secret = secret]
     \/ /\ secret = NoSecret
        /\ \E s \in Secrets : process' = [process EXCEPT ![p].pc = "insert", ![p].secret = s]
  /\ UNCHANGED database

\* Slip: a secret of one's own is used as soon as it is inserted.
InsertVoterSecretAndGo(p) ==
  /\ At(p, "insert")
  /\ secret' = IF secret = NoSecret THEN process[p].secret ELSE secret
  /\ Go(p, "up")
  /\ UNCHANGED <<objects, ledger, malformed, duplicates>>

\* ON CONFLICT(key) DO NOTHING ...
InsertVoterSecret(p) ==
  /\ At(p, "insert")
  /\ secret' = IF secret = NoSecret THEN process[p].secret ELSE secret
  /\ Go(p, "reload")
  /\ UNCHANGED <<objects, ledger, malformed, duplicates>>

\* ... and whatever is stored then is used.
ReloadVoterSecret(p) ==
  /\ At(p, "reload")
  /\ process' = [process EXCEPT ![p].pc = "up", ![p].secret = secret]
  /\ UNCHANGED database

\* A statement fails, a check refuses the database, the file is locked, the
\* process stops or dies.
Fail(p) ==
  /\ ~At(p, "down")
  /\ process' = [process EXCEPT ![p] = Down]
  /\ UNCHANGED database

-----------------------------------------------------------------------------
(***************************************************************************)
(* Others on the same file.                                                *)
(***************************************************************************)
\* A binary of v0.1 that still runs gives a public slug away twice.
LegacyDuplicate ==
  /\ "polls" \in objects /\ "slugIndex" \notin objects
  /\ duplicates' = TRUE
  /\ UNCHANGED <<objects, ledger, malformed, secret, process>>

\* The operator does what the error says and renames duplicate slugs.
RenameDuplicates ==
  /\ duplicates
  /\ duplicates' = FALSE
  /\ UNCHANGED <<objects, ledger, malformed, secret, process>>

\* A later release migrates the file.
UpgradeBeyond ==
  /\ Versions \subseteq ledger
  /\ ledger' = ledger \cup {Newer}
  /\ UNCHANGED <<objects, malformed, duplicates, secret, process>>

OpenStore(p) ==
  \/ ReadLedger(p)
  \/ InspectLegacySchema(p)
  \/ Normalize(p)
  \/ RecordAdoption(p)
  \/ Migrate(p)
  \/ MigrationsDone(p)
  \/ LoadVoterSecret(p)
  \/ InsertVoterSecret(p)
  \/ ReloadVoterSecret(p)

Next ==
  \/ \E p \in Processes : Start(p) \/ OpenStore(p) \/ Fail(p)
  \/ LegacyDuplicate \/ RenameDuplicates \/ UpgradeBeyond

\* A process that ended is started again, one that can neither go on nor serve
\* returns its error, and none dies at the same statement for ever.
Fairness ==
  \A p \in Processes :
    /\ WF_vars(Start(p))
    /\ WF_vars(~At(p, "up") /\ (OpenStore(p) \/ Fail(p)))
    /\ SF_vars(ReadLedger(p)) /\ SF_vars(InspectLegacySchema(p)) /\ SF_vars(Normalize(p))
    /\ SF_vars(RecordAdoption(p)) /\ SF_vars(Migrate(p))

Spec == Init /\ [][Next]_vars /\ Fairness

-----------------------------------------------------------------------------
\* The ledger tells the truth: migrations are recorded in order, a recorded one
\* is there as a whole, and of an unrecorded one nothing is there that would
\* make it fail when it comes (v1, which tolerates its own objects, aside).
LedgerMatchesSchema ==
  \A v \in Versions :
    /\ v \in ledger => 1..v \subseteq ledger /\ Objects[v] \subseteq objects
    /\ v \notin ledger /\ v > 1 => Objects[v] \cap objects = {}

\* Once the file counts as migrated no two polls share a public slug, even if a
\* binary of v0.1 slips one in behind the check for duplicates.
SlugsUniqueOnceAdopted == 1 \in ledger => ~duplicates

\* A file that was already newer when a process opened it is never written or
\* served by it.
NewerSchemaRefused ==
  \A p \in Processes : process[p].foundNewer => process[p].pc \in {"down", "read"}

\* Processes that serve sign voter cookies with one secret, the stored one, also
\* when two of them generated one at the same time.
OneVoterSecret ==
  \A p \in Processes : At(p, "up") => process[p].secret = secret

\* Deaths and races only delay the upgrade: a file of the known shape whose
\* duplicate slugs are renamed for good ends up migrated, half-finished
\* adoptions included.
UpgradeCompletes == <>[](~malformed /\ ~duplicates) => <>(Versions \subseteq ledger)
=============================================================================
