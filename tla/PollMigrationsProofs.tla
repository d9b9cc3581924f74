------------------------ MODULE PollMigrationsProofs ------------------------
(***************************************************************************)
(* What PollMigrations guarantees for any number of processes and any      *)
(* secrets they can draw, whichever statements they die between.           *)
(***************************************************************************)
EXTENDS PollMigrations, TLAPS

-----------------------------------------------------------------------------
(***************************************************************************)
(* Type correctness.                                                       *)
(***************************************************************************)

AllObjects == {"polls", "slugIndex", "votes", "lifecycle", "indexes"}

\* The objects of each migration, and all of them.
LEMMA ObjectsByVersion ==
  /\ Versions = {1, 2, 3} /\ Newer = 4 /\ 1..Newer = {1, 2, 3, 4}
  /\ Objects[1] = {"polls", "slugIndex", "votes"}
  /\ Objects[2] = {"lifecycle"}
  /\ Objects[3] = {"indexes"}
  /\ UNION {Objects[v] : v \in Versions} = AllObjects
<1>1. Versions = {1, 2, 3} /\ Newer = 4 /\ 1..Newer = {1, 2, 3, 4}
  BY DEF Versions, Latest, Newer
<1>2. /\ Objects[1] = {"polls", "slugIndex", "votes"}
      /\ Objects[2] = {"lifecycle"}
      /\ Objects[3] = {"indexes"}
  BY <1>1 DEF Objects
<1>3. {Objects[v] : v \in Versions} = {Objects[1], Objects[2], Objects[3]}
  BY <1>1
<1>4. QED
  BY <1>1, <1>2, <1>3 DEF AllObjects

\* The local variables of one process.
Local(versions) ==
  [pc: Steps \cup {"down", "up"}, applied: SUBSET versions,
   secret: Secrets \cup {NoSecret}, foundNewer: BOOLEAN]

LEMMA InitType ==
  Init => TypeOK
<1>1. SUFFICES ASSUME Init
               PROVE  TypeOK
  OBVIOUS
<1>2. objects \subseteq AllObjects /\ ledger \subseteq 1..Newer
  <2>1. CASE \E n \in 0..Latest :
               ledger = 1..n /\ objects = UNION {Objects[v] : v \in 1..n}
    <3>1. PICK n \in 0..Latest : ledger = 1..n /\ objects = UNION {Objects[v] : v \in 1..n}
      BY <2>1
    <3>2. 1..n \subseteq Versions /\ 1..n \subseteq 1..Newer
      BY DEF Versions, Latest, Newer
    <3>3. UNION {Objects[v] : v \in 1..n} \subseteq UNION {Objects[v] : v \in Versions}
      BY <3>2
    <3>4. QED
      BY <3>1, <3>2, <3>3, ObjectsByVersion
  <2>2. CASE ledger = {} /\ objects \in {{"polls"}, {"polls", "votes"}}
    BY <2>2 DEF AllObjects
  <2>3. QED
    BY <1>1, <2>1, <2>2 DEF Init
<1>3. Down \in Local(ledger)
  BY DEF Down, Local
<1>4. QED
  BY <1>1, <1>2, <1>3, ObjectsByVersion DEF Init, TypeOK, Local

\* What all but the first and the last step of a process do to the table of
\* processes: p goes on to another step, and nothing else is seen of it but what
\* it has learnt.
Goes(p, pc) ==
  /\ process'[p].pc = pc
  /\ process'[p].foundNewer = process[p].foundNewer
  /\ \A q \in Processes \ {p} : process'[q] = process[q]

LEMMA GoEffect ==
  ASSUME process \in [Processes -> Local(ledger)], NEW p \in Processes,
         NEW pc \in Steps \cup {"down", "up"}, Go(p, pc)
  PROVE  /\ process' \in [Processes -> Local(ledger)]
         /\ Goes(p, pc) /\ process'[p].secret = process[p].secret
BY DEF Go, Goes, Local

LEMMA LearnEffect ==
  ASSUME process \in [Processes -> Local(ledger)], NEW p \in Processes,
         NEW pc \in Steps \cup {"down", "up"}, NEW learnt,
         ledger' = ledger \cup learnt, LearnApplied(p, learnt, pc)
  PROVE  process' \in [Processes -> Local(ledger')] /\ Goes(p, pc)
<1>1. \A q \in Processes : process[q] \in Local(ledger')
  BY DEF Local
<1>2. process \in [Processes -> Local(ledger')]
  BY <1>1
<1>3. process[p].applied \cup learnt \in SUBSET ledger'
  BY DEF Local
<1>4. process' \in [Processes -> Local(ledger')]
  BY <1>2, <1>3 DEF LearnApplied, Local
<1>5. Goes(p, pc)
  BY <1>2 DEF LearnApplied, Goes, Local
<1>6. QED
  BY <1>4, <1>5

LEMMA TakeSecretEffect ==
  ASSUME process \in [Processes -> Local(ledger)], NEW p \in Processes,
         NEW pc \in Steps \cup {"down", "up"}, NEW s \in Secrets \cup {NoSecret},
         process' = [process EXCEPT ![p].pc = pc, ![p].secret = s]
  PROVE  /\ process' \in [Processes -> Local(ledger)]
         /\ Goes(p, pc) /\ process'[p].secret = s
BY DEF Goes, Local

LEMMA RestartEffect ==
  ASSUME process \in [Processes -> Local(ledger)], NEW p \in Processes, Start(p) \/ Fail(p)
  PROVE  /\ process' \in [Processes -> Local(ledger)]
         /\ \A q \in Processes \ {p} : process'[q] = process[q]
         /\ process'[p].pc \in {"read", "down"}
         /\ process'[p].foundNewer => Newer \in ledger
<1> DEFINE newer == Newer \in ledger
           fresh == [Down EXCEPT !.pc = "read", !.foundNewer = newer]
<1>1. newer \in BOOLEAN /\ (newer => Newer \in ledger)
  OBVIOUS
<1>2. Start(p) => process' = [process EXCEPT ![p] = fresh]
  BY DEF Start
<1> HIDE DEF newer
<1>3. fresh \in Local(ledger) /\ fresh.pc = "read" /\ fresh.foundNewer = newer
  BY <1>1 DEF Down, Local, Steps
<1>4. Down \in Local(ledger) /\ Down.pc = "down" /\ Down.foundNewer = FALSE
  BY DEF Down, Local
<1> HIDE DEF fresh
<1>5. PICK x \in {fresh, Down} : process' = [process EXCEPT ![p] = x]
  BY <1>2 DEF Fail
<1>6. x \in Local(ledger) /\ x.pc \in {"read", "down"} /\ (x.foundNewer => Newer \in ledger)
  BY <1>1, <1>3, <1>4
<1>7. process'[p] = x /\ \A q \in Processes \ {p} : process'[q] = process[q]
  BY <1>5
<1>8. QED
  BY <1>5, <1>6, <1>7

\* The variables of the file keep their shape.
DatabaseOK ==
  /\ objects \subseteq AllObjects
  /\ ledger \subseteq 1..Newer
  /\ malformed \in BOOLEAN /\ duplicates \in BOOLEAN
  /\ secret \in Secrets \cup {NoSecret}

LEMMA TypeParts ==
  TypeOK <=> DatabaseOK /\ process \in [Processes -> Local(ledger)]
BY ObjectsByVersion DEF TypeOK, DatabaseOK, Local

LEMMA StepType ==
  ASSUME TypeOK, NEW p \in Processes, Start(p) \/ OpenStore(p) \/ Fail(p)
  PROVE  TypeOK'
<1>1. DatabaseOK /\ process \in [Processes -> Local(ledger)]
  BY TypeParts
<1>2. SUFFICES DatabaseOK' /\ process' \in [Processes -> Local(ledger')]
  BY ObjectsByVersion DEF TypeOK, DatabaseOK, Local
<1>3. {"adopt", "normalize", "record", "migrate", "secret", "insert", "reload", "up"}
        \subseteq Steps \cup {"down", "up"}
  BY DEF Steps
<1>4. CASE Start(p) \/ Fail(p)
  <2>1. UNCHANGED database
    BY <1>4 DEF Start, Fail
  <2>2. QED
    BY <1>1, <1>4, <2>1, RestartEffect DEF DatabaseOK, database
<1>5. CASE ReadLedger(p)
  <2>1. LearnApplied(p, ledger, "adopt") /\ UNCHANGED database
    BY <1>5 DEF ReadLedger
  <2>2. ledger' = ledger \cup ledger
    BY <2>1 DEF database
  <2>3. QED
    BY <1>1, <1>3, <2>1, <2>2, LearnEffect DEF DatabaseOK, database
<1>6. CASE InspectLegacySchema(p) \/ MigrationsDone(p)
  <2>1. UNCHANGED database /\ \E pc \in {"migrate", "normalize", "secret"} : Go(p, pc)
    BY <1>6 DEF InspectLegacySchema, MigrationsDone
  <2>2. process' \in [Processes -> Local(ledger)]
    BY <1>1, <1>3, <2>1, GoEffect
  <2>3. QED
    BY <1>1, <2>1, <2>2 DEF DatabaseOK, database
<1>7. CASE LoadVoterSecret(p) \/ ReloadVoterSecret(p)
  <2>1. UNCHANGED database
    BY <1>7 DEF LoadVoterSecret, ReloadVoterSecret
  <2>2. \E pc \in {"up", "insert"}, s \in Secrets \cup {NoSecret} :
          process' = [process EXCEPT ![p].pc = pc, ![p].secret = s]
    <3>1. CASE process' = [process EXCEPT ![p].pc = "up", ![p].secret = secret]
      BY <1>1, <3>1 DEF DatabaseOK
    <3>2. CASE \E s \in Secrets : process' = [process EXCEPT ![p].pc = "insert", ![p].secret = s]
      BY <3>2
    <3>3. QED
      BY <1>7, <3>1, <3>2 DEF LoadVoterSecret, ReloadVoterSecret
  <2>3. process' \in [Processes -> Local(ledger)]
    BY <1>1, <1>3, <2>2, TakeSecretEffect
  <2>4. QED
    BY <1>1, <2>1, <2>3 DEF DatabaseOK, database
<1>8. CASE Normalize(p)
  <2>1. DatabaseOK' /\ ledger' = ledger
    BY <1>1, <1>8 DEF Normalize, DatabaseOK, AllObjects
  <2>2. process' = process \/ Go(p, "record")
    BY <1>8 DEF Normalize
  <2>3. process' \in [Processes -> Local(ledger)]
    BY <1>1, <1>3, <2>2, GoEffect
  <2>4. QED
    BY <2>1, <2>3
<1>9. CASE RecordAdoption(p)
  <2>1. DatabaseOK' /\ ledger' = ledger \cup {1} /\ LearnApplied(p, {1}, "migrate")
    BY <1>1, <1>9, ObjectsByVersion DEF RecordAdoption, DatabaseOK
  <2>2. QED
    BY <1>1, <1>3, <2>1, LearnEffect
<1>10. CASE Migrate(p)
  <2>1. PICK v \in Versions : /\ objects' = objects \cup Objects[v]
                              /\ ledger' = ledger \cup {v}
                              /\ LearnApplied(p, {v}, "migrate")
    BY <1>10 DEF Migrate
  <2>2. Objects[v] \subseteq AllObjects /\ v \in 1..Newer
    BY ObjectsByVersion DEF AllObjects
  <2>3. DatabaseOK'
    BY <1>1, <1>10, <2>1, <2>2 DEF Migrate, DatabaseOK
  <2>4. process' \in [Processes -> Local(ledger')]
    BY <1>1, <1>3, <2>1, LearnEffect
  <2>5. QED
    BY <2>3, <2>4
<1>11. CASE InsertVoterSecret(p)
  <2>1. DatabaseOK' /\ ledger' = ledger /\ Go(p, "reload")
    BY <1>1, <1>11 DEF InsertVoterSecret, DatabaseOK, Local
  <2>2. QED
    BY <1>1, <1>3, <2>1, GoEffect
<1>12. QED
  BY <1>4, <1>5, <1>6, <1>7, <1>8, <1>9, <1>10, <1>11 DEF OpenStore

\* Where each statement takes its process.
LEMMA OpenStoreEffect ==
  ASSUME process \in [Processes -> Local(ledger)], NEW p \in Processes
  PROVE  /\ ReadLedger(p) => Goes(p, "adopt")
         /\ InspectLegacySchema(p) => Goes(p, "migrate") \/ Goes(p, "normalize")
         /\ Normalize(p) => process' = process \/ Goes(p, "record")
         /\ RecordAdoption(p) \/ Migrate(p) => Goes(p, "migrate")
         /\ MigrationsDone(p) => Goes(p, "secret")
         /\ LoadVoterSecret(p) \/ ReloadVoterSecret(p) => Goes(p, "up") \/ Goes(p, "insert")
         /\ InsertVoterSecret(p) => Goes(p, "reload")
<1>1. \A pc : Go(p, pc) => Goes(p, pc)
  BY DEF Go, Goes, Local
<1>2. \A pc, learnt : LearnApplied(p, learnt, pc) => Goes(p, pc)
  BY DEF LearnApplied, Goes, Local
<1>3. \A pc, s : process' = [process EXCEPT ![p].pc = pc, ![p].secret = s] => Goes(p, pc)
  BY DEF Goes, Local
<1>4. QED
  BY <1>1, <1>2, <1>3 DEF ReadLedger, InspectLegacySchema, Normalize, RecordAdoption, Migrate,
       MigrationsDone, LoadVoterSecret, ReloadVoterSecret, InsertVoterSecret

LEMMA NextType ==
  TypeOK /\ [Next]_vars => TypeOK'
<1>1. SUFFICES ASSUME TypeOK, [Next]_vars
               PROVE  TypeOK'
  OBVIOUS
<1>2. DatabaseOK /\ process \in [Processes -> Local(ledger)]
  BY <1>1, TypeParts
<1>3. CASE LegacyDuplicate \/ RenameDuplicates \/ UNCHANGED vars
  BY <1>1, <1>3 DEF LegacyDuplicate, RenameDuplicates, vars, database, TypeOK
<1>4. CASE UpgradeBeyond
  <2>1. ledger' = ledger \cup {Newer} /\ process' = process
    BY <1>4 DEF UpgradeBeyond
  <2>2. \A p \in Processes : process'[p] \in Local(ledger')
    BY <1>2, <2>1 DEF Local
  <2>3. process' \in [Processes -> Local(ledger')]
    BY <1>2, <2>1, <2>2
  <2>4. DatabaseOK'
    BY <1>2, <1>4, <2>1, ObjectsByVersion DEF UpgradeBeyond, DatabaseOK
  <2>5. QED
    BY <2>3, <2>4, ObjectsByVersion DEF TypeOK, DatabaseOK, Local
<1>5. QED
  BY <1>1, <1>3, <1>4, StepType DEF Next

\* File and processes keep their shapes, and no process believes a migration
\* applied that the ledger does not have.
THEOREM TypeCorrect ==
  Spec => []TypeOK
BY InitType, NextType, PTL DEF Spec

-----------------------------------------------------------------------------
(***************************************************************************)
(* The ledger and the schema.                                              *)
(***************************************************************************)

\* What a process in the middle of an adoption has behind it, and what lets no
\* duplicate slug in again.
AdoptionOnItsWay ==
  /\ "slugIndex" \in objects => ~duplicates
  /\ \A p \in Processes :
       /\ At(p, "normalize") => "polls" \in objects
       /\ At(p, "record") => Objects[1] \subseteq objects

\* LedgerMatchesSchema, version by version.
Truthful(versions, objs) ==
  /\ 1 \in versions => {"polls", "slugIndex", "votes"} \subseteq objs
  /\ 2 \in versions => 1 \in versions /\ "lifecycle" \in objs
  /\ 3 \in versions => 1 \in versions /\ 2 \in versions /\ "indexes" \in objs
  /\ 2 \notin versions => "lifecycle" \notin objs
  /\ 3 \notin versions => "indexes" \notin objs

LEMMA LedgerByVersion ==
  /\ LedgerMatchesSchema <=> Truthful(ledger, objects)
  /\ LedgerMatchesSchema' <=> Truthful(ledger', objects')
<1>1. 1..1 = {1} /\ 1..2 = {1, 2} /\ 1..3 = {1, 2, 3}
  OBVIOUS
<1>2. QED
  BY <1>1, ObjectsByVersion DEF LedgerMatchesSchema, Truthful

LEMMA InitSchema ==
  Init => LedgerMatchesSchema /\ AdoptionOnItsWay
<1>1. SUFFICES ASSUME Init
               PROVE  LedgerMatchesSchema /\ AdoptionOnItsWay
  OBVIOUS
<1>2. \A p \in Processes : ~At(p, "normalize") /\ ~At(p, "record")
  BY <1>1 DEF Init, At, Down
<1>3. CASE /\ \E n \in 0..Latest : ledger = 1..n /\ objects = UNION {Objects[v] : v \in 1..n}
           /\ duplicates = FALSE
  <2>1. PICK n \in 0..Latest : ledger = 1..n /\ objects = UNION {Objects[v] : v \in 1..n}
    BY <1>3
  <2>2. n = 0 \/ n = 1 \/ n = 2 \/ n = 3
    BY DEF Latest
  <2>3. 1..0 = {} /\ 1..1 = {1} /\ 1..2 = {1, 2} /\ 1..3 = {1, 2, 3}
    OBVIOUS
  <2>4. LedgerMatchesSchema
    BY <2>1, <2>2, <2>3, LedgerByVersion, ObjectsByVersion DEF Truthful
  <2>5. QED
    BY <1>2, <1>3, <2>4 DEF AdoptionOnItsWay
<1>4. CASE ledger = {} /\ objects \in {{"polls"}, {"polls", "votes"}}
  BY <1>2, <1>4, LedgerByVersion DEF AdoptionOnItsWay, Truthful
<1>5. QED
  BY <1>1, <1>3, <1>4 DEF Init

\* Objects and ledger entries stay; what a step does to pc is seen by its process.
LEMMA NextSchema ==
  ASSUME TypeOK, LedgerMatchesSchema, AdoptionOnItsWay, [Next]_vars
  PROVE  LedgerMatchesSchema' /\ AdoptionOnItsWay'
<1>1. /\ process \in [Processes -> Local(ledger)]
      /\ \A p \in Processes : process[p].applied \subseteq ledger
  BY TypeParts DEF Local
<1>2. CASE UNCHANGED <<objects, ledger, duplicates, process>>
  BY <1>2 DEF LedgerMatchesSchema, AdoptionOnItsWay, At
<1>3. ASSUME NEW p \in Processes, UNCHANGED <<objects, ledger, duplicates>>,
             \A q \in Processes \ {p} : process'[q] = process[q],
             process'[p].pc = "normalize" => "polls" \in objects,
             process'[p].pc # "record"
      PROVE  LedgerMatchesSchema' /\ AdoptionOnItsWay'
  BY <1>3 DEF LedgerMatchesSchema, AdoptionOnItsWay, At
<1>4. ASSUME NEW p \in Processes,
             Start(p) \/ ReadLedger(p) \/ MigrationsDone(p) \/ LoadVoterSecret(p)
               \/ InsertVoterSecret(p) \/ ReloadVoterSecret(p) \/ Fail(p)
      PROVE  LedgerMatchesSchema' /\ AdoptionOnItsWay'
  <2>1. UNCHANGED <<objects, ledger, duplicates>>
    BY <1>4 DEF Start, ReadLedger, MigrationsDone, LoadVoterSecret, InsertVoterSecret,
                ReloadVoterSecret, Fail, database
  <2>2. /\ process'[p].pc # "normalize" /\ process'[p].pc # "record"
        /\ \A q \in Processes \ {p} : process'[q] = process[q]
    <3>1. CASE Start(p) \/ Fail(p)
      BY <1>1, <3>1, RestartEffect
    <3>2. CASE ~(Start(p) \/ Fail(p))
      <4>1. \E pc \in {"adopt", "secret", "insert", "reload", "up"} : Goes(p, pc)
        BY <1>1, <1>4, <3>2, OpenStoreEffect
      <4>2. QED
        BY <4>1 DEF Goes
    <3>3. QED
      BY <3>1, <3>2
  <2>3. QED
    BY <1>3, <2>1, <2>2
<1>5. ASSUME NEW p \in Processes, InspectLegacySchema(p)
      PROVE  LedgerMatchesSchema' /\ AdoptionOnItsWay'
  <2>1. UNCHANGED <<objects, ledger, duplicates>>
    BY <1>5 DEF InspectLegacySchema, database
  <2>2. PICK pc \in {"migrate", "normalize"} : Go(p, pc) /\ (pc = "normalize" => "polls" \in objects)
    BY <1>5 DEF InspectLegacySchema
  <2>3. process'[p].pc = pc /\ \A q \in Processes \ {p} : process'[q] = process[q]
    BY <1>1, <2>2 DEF Go, Local
  <2>4. QED
    BY <1>3, <2>1, <2>2, <2>3
<1>6. ASSUME NEW p \in Processes, Normalize(p)
      PROVE  LedgerMatchesSchema' /\ AdoptionOnItsWay'
  <2>1. "polls" \in objects /\ UNCHANGED <<ledger, duplicates>>
    BY <1>6 DEF Normalize, AdoptionOnItsWay
  <2>2. /\ objects \subseteq objects'
        /\ "lifecycle" \in objects' => "lifecycle" \in objects
        /\ "indexes" \in objects' => "indexes" \in objects
        /\ "slugIndex" \in objects' => ~duplicates
    BY <1>6 DEF Normalize, AdoptionOnItsWay
  <2>3. LedgerMatchesSchema'
    BY <2>1, <2>2, LedgerByVersion DEF Truthful
  <2>4. \A q \in Processes \ {p} : process'[q] = process[q]
    BY <1>1, <1>6 DEF Normalize, Go
  <2>5. process'[p].pc = "record" => Objects[1] \subseteq objects'
    <3>1. CASE process' = process
      BY <1>6, <3>1 DEF Normalize, At
    <3>2. CASE process' # process
      BY <1>6, <2>1, <3>2, ObjectsByVersion DEF Normalize
    <3>3. QED
      BY <3>1, <3>2
  <2>6. QED
    BY <2>1, <2>2, <2>3, <2>4, <2>5 DEF AdoptionOnItsWay, At
<1>7. ASSUME NEW p \in Processes, RecordAdoption(p)
      PROVE  LedgerMatchesSchema' /\ AdoptionOnItsWay'
  <2>1. /\ UNCHANGED <<objects, duplicates>> /\ ledger' = ledger \cup {1}
        /\ Objects[1] \subseteq objects
    BY <1>7 DEF RecordAdoption, AdoptionOnItsWay
  <2>2. LedgerMatchesSchema'
    BY <2>1, LedgerByVersion, ObjectsByVersion DEF Truthful
  <2>3. process'[p].pc = "migrate" /\ \A q \in Processes \ {p} : process'[q] = process[q]
    BY <1>1, <1>7 DEF RecordAdoption, LearnApplied, Local
  <2>4. QED
    BY <2>1, <2>2, <2>3 DEF AdoptionOnItsWay, At
<1>8. ASSUME NEW p \in Processes, Migrate(p)
      PROVE  LedgerMatchesSchema' /\ AdoptionOnItsWay'
  <2>1. PICK v \in Versions : /\ IsNext(p, v)
                              /\ Applicable(v)
                              /\ objects' = objects \cup Objects[v]
                              /\ ledger' = ledger \cup {v}
                              /\ LearnApplied(p, {v}, "migrate")
    BY <1>8 DEF Migrate
  <2>2. 1..(v - 1) \subseteq ledger /\ duplicates' = duplicates
    BY <1>1, <1>8, <2>1 DEF IsNext, Migrate
  <2>3. process'[p].pc = "migrate" /\ \A q \in Processes \ {p} : process'[q] = process[q]
    BY <1>1, <2>1 DEF LearnApplied, Local
  <2>4. v = 1 \/ (v = 2 /\ 1 \in ledger) \/ (v = 3 /\ {1, 2} \subseteq ledger)
    <3>1. v = 1 \/ (v = 2 /\ 1..1 \subseteq ledger) \/ (v = 3 /\ 1..2 \subseteq ledger)
      BY <2>2, ObjectsByVersion
    <3>2. QED
      BY <3>1
  <2>5. LedgerMatchesSchema'
    BY <2>1, <2>4, LedgerByVersion, ObjectsByVersion DEF Truthful
  <2>6. "slugIndex" \in objects' => ~duplicates
    <3>1. CASE v = 1
      BY <2>1, <3>1 DEF Applicable, AdoptionOnItsWay
    <3>2. CASE v # 1
      BY <2>1, <2>4, <3>2, ObjectsByVersion DEF AdoptionOnItsWay
    <3>3. QED
      BY <3>1, <3>2
  <2>7. QED
    BY <2>1, <2>2, <2>3, <2>5, <2>6 DEF AdoptionOnItsWay, At
<1>9. CASE LegacyDuplicate \/ RenameDuplicates
  BY <1>9 DEF LegacyDuplicate, RenameDuplicates, LedgerMatchesSchema, AdoptionOnItsWay, At
<1>10. CASE UpgradeBeyond
  <2>1. UNCHANGED <<objects, duplicates, process>> /\ ledger' = ledger \cup {4}
    BY <1>10, ObjectsByVersion DEF UpgradeBeyond
  <2>2. LedgerMatchesSchema'
    BY <2>1, LedgerByVersion DEF Truthful
  <2>3. QED
    BY <2>1, <2>2 DEF AdoptionOnItsWay, At
<1>11. CASE UNCHANGED vars
  BY <1>2, <1>11 DEF vars, database
<1>12. QED
  BY <1>4, <1>5, <1>6, <1>7, <1>8, <1>9, <1>10, <1>11 DEF Next, OpenStore

\* The ledger tells the truth about the file, whichever statements processes die
\* between and however their adoptions and migrations interleave.
THEOREM LedgerTruthful ==
  Spec => []LedgerMatchesSchema
<1>1. Init => LedgerMatchesSchema /\ AdoptionOnItsWay
  BY InitSchema
<1>2. TypeOK /\ LedgerMatchesSchema /\ AdoptionOnItsWay /\ [Next]_vars
        => LedgerMatchesSchema' /\ AdoptionOnItsWay'
  BY NextSchema
<1>3. QED
  BY <1>1, <1>2, TypeCorrect, PTL DEF Spec

\* No duplicate slug gets into an adopted file, not even between the check for
\* duplicates and the index that forbids them.
THEOREM SlugsStayUnique ==
  Spec => []SlugsUniqueOnceAdopted
<1>1. Init => LedgerMatchesSchema /\ AdoptionOnItsWay
  BY InitSchema
<1>2. TypeOK /\ LedgerMatchesSchema /\ AdoptionOnItsWay /\ [Next]_vars
        => LedgerMatchesSchema' /\ AdoptionOnItsWay'
  BY NextSchema
<1>3. LedgerMatchesSchema /\ AdoptionOnItsWay => SlugsUniqueOnceAdopted
  BY LedgerByVersion DEF Truthful, AdoptionOnItsWay, SlugsUniqueOnceAdopted
<1>4. QED
  BY <1>1, <1>2, <1>3, TypeCorrect, PTL DEF Spec

-----------------------------------------------------------------------------
(***************************************************************************)
(* Newer files, and the voter secret.                                      *)
(***************************************************************************)

\* A process that found the file newer is looking at a ledger that still is.
NewerStaysNewer ==
  \A p \in Processes :
    process[p].foundNewer => Newer \in ledger /\ process[p].pc \in {"down", "read"}

\* Once a process has read the secret back there is one, and it never changes.
SecretSettled ==
  \A p \in Processes :
    /\ At(p, "insert") => process[p].secret \in Secrets
    /\ At(p, "reload") => secret # NoSecret
    /\ At(p, "up") => secret # NoSecret /\ process[p].secret = secret

LEMMA NextNewer ==
  TypeOK /\ NewerStaysNewer /\ [Next]_vars => NewerStaysNewer'
<1>1. SUFFICES ASSUME TypeOK, NewerStaysNewer, [Next]_vars
               PROVE  NewerStaysNewer'
  OBVIOUS
<1>2. process \in [Processes -> Local(ledger)] /\ Newer \notin Versions
  BY <1>1, TypeParts, ObjectsByVersion
<1>3. ledger \subseteq ledger'
  BY <1>1 DEF Next, OpenStore, Start, ReadLedger, InspectLegacySchema, Normalize, RecordAdoption,
              Migrate, MigrationsDone, LoadVoterSecret, InsertVoterSecret, ReloadVoterSecret, Fail,
              LegacyDuplicate, RenameDuplicates, UpgradeBeyond, vars, database
<1>4. ASSUME NEW p \in Processes, Start(p) \/ Fail(p)
      PROVE  NewerStaysNewer'
  BY <1>1, <1>2, <1>3, <1>4, RestartEffect DEF NewerStaysNewer
<1>5. ASSUME NEW p \in Processes, OpenStore(p)
      PROVE  NewerStaysNewer'
  <2>1. PICK pc : Goes(p, pc) \/ process' = process
    BY <1>2, <1>5, OpenStoreEffect DEF OpenStore
  <2>2. ~process[p].foundNewer
    <3>1. CASE ReadLedger(p)
      BY <1>1, <1>2, <3>1 DEF ReadLedger, NewerStaysNewer
    <3>2. CASE ~At(p, "down") /\ ~At(p, "read")
      BY <1>1, <3>2 DEF NewerStaysNewer, At
    <3>3. QED
      BY <1>5, <3>1, <3>2 DEF OpenStore, InspectLegacySchema, Normalize, RecordAdoption, Migrate,
              MigrationsDone, LoadVoterSecret, InsertVoterSecret, ReloadVoterSecret, At
  <2>3. QED
    BY <1>1, <1>3, <2>1, <2>2 DEF NewerStaysNewer, Goes
<1>6. CASE LegacyDuplicate \/ RenameDuplicates \/ UpgradeBeyond \/ UNCHANGED vars
  BY <1>1, <1>3, <1>6 DEF LegacyDuplicate, RenameDuplicates, UpgradeBeyond, vars, NewerStaysNewer
<1>7. QED
  BY <1>1, <1>4, <1>5, <1>6 DEF Next

\* A file a later release migrated before a process opened it is neither written
\* nor served by that process, whatever else happens to the file meanwhile.
THEOREM NewerRefused ==
  Spec => []NewerSchemaRefused
<1>1. Init => NewerStaysNewer
  <2>1. Down.foundNewer = FALSE
    BY DEF Down
  <2>2. Init => \A p \in Processes : process[p] = Down
    BY DEF Init
  <2>3. QED
    BY <2>1, <2>2 DEF NewerStaysNewer
<1>2. NewerStaysNewer => NewerSchemaRefused
  BY DEF NewerStaysNewer, NewerSchemaRefused
<1>3. QED
  BY <1>1, <1>2, NextNewer, TypeCorrect, PTL DEF Spec

LEMMA NextSecret ==
  TypeOK /\ SecretSettled /\ [Next]_vars => SecretSettled'
<1>1. SUFFICES ASSUME TypeOK, SecretSettled, [Next]_vars
               PROVE  SecretSettled'
  OBVIOUS
<1>2. process \in [Processes -> Local(ledger)]
  BY <1>1, TypeParts
<1>3. ASSUME NEW p \in Processes, UNCHANGED secret,
             \A q \in Processes \ {p} : process'[q] = process[q],
             process'[p].pc \notin {"insert", "reload", "up"}
      PROVE  SecretSettled'
  BY <1>1, <1>3 DEF SecretSettled, At
<1>4. ASSUME NEW p \in Processes,
             \/ Start(p) \/ Fail(p) \/ ReadLedger(p) \/ InspectLegacySchema(p) \/ Normalize(p)
             \/ RecordAdoption(p) \/ Migrate(p) \/ MigrationsDone(p)
      PROVE  SecretSettled'
  <2>1. UNCHANGED secret
    BY <1>4 DEF Start, Fail, ReadLedger, InspectLegacySchema, Normalize, RecordAdoption, Migrate,
              MigrationsDone, database
  <2>2. CASE Start(p) \/ Fail(p)
    BY <1>2, <1>3, <2>1, <2>2, RestartEffect
  <2>3. CASE process' = process
    BY <1>1, <2>1, <2>3 DEF SecretSettled, At
  <2>4. CASE process' # process /\ ~(Start(p) \/ Fail(p))
    <3>1. PICK pc \in {"adopt", "normalize", "record", "migrate", "secret"} : Goes(p, pc)
      BY <1>2, <1>4, <2>4, OpenStoreEffect
    <3>2. QED
      BY <1>3, <2>1, <3>1 DEF Goes
  <2>5. QED
    BY <2>2, <2>3, <2>4
<1>5. ASSUME NEW p \in Processes, LoadVoterSecret(p) \/ ReloadVoterSecret(p)
      PROVE  SecretSettled'
  <2>1. UNCHANGED secret
    BY <1>5 DEF LoadVoterSecret, ReloadVoterSecret, database
  <2>2. PICK pc \in {"up", "insert"}, s \in Secrets \cup {NoSecret} :
          /\ process' = [process EXCEPT ![p].pc = pc, ![p].secret = s]
          /\ pc = "up" => s = secret /\ secret # NoSecret
          /\ pc = "insert" => s \in Secrets
    <3>1. CASE LoadVoterSecret(p) /\ secret = NoSecret
      BY <3>1 DEF LoadVoterSecret
    <3>2. CASE ~(LoadVoterSecret(p) /\ secret = NoSecret)
      <4>1. secret # NoSecret
        BY <1>1, <1>5, <3>2 DEF ReloadVoterSecret, SecretSettled
      <4>2. process' = [process EXCEPT ![p].pc = "up", ![p].secret = secret]
        BY <1>5, <4>1 DEF LoadVoterSecret, ReloadVoterSecret
      <4>3. secret \in Secrets \cup {NoSecret}
        BY <1>1 DEF TypeOK
      <4>4. QED
        BY <4>1, <4>2, <4>3
    <3>3. QED
      BY <3>1, <3>2
  <2>3. Goes(p, pc) /\ process'[p].secret = s
    <3>1. pc \in Steps \cup {"down", "up"}
      BY DEF Steps
    <3>2. QED
      BY <1>2, <2>2, <3>1, TakeSecretEffect
  <2>4. QED
    BY <1>1, <2>1, <2>2, <2>3 DEF SecretSettled, At, Goes
<1>6. ASSUME NEW p \in Processes, InsertVoterSecret(p)
      PROVE  SecretSettled'
  <2>1. /\ secret' # NoSecret
        /\ secret # NoSecret => secret' = secret
    BY <1>1, <1>6, MigrationsAssumption DEF InsertVoterSecret, SecretSettled
  <2>2. Goes(p, "reload")
    BY <1>2, <1>6, OpenStoreEffect
  <2>3. QED
    BY <1>1, <2>1, <2>2 DEF SecretSettled, At, Goes
<1>7. CASE LegacyDuplicate \/ RenameDuplicates \/ UpgradeBeyond \/ UNCHANGED vars
  BY <1>1, <1>7 DEF LegacyDuplicate, RenameDuplicates, UpgradeBeyond, vars, database,
                    SecretSettled, At
<1>8. QED
  BY <1>1, <1>4, <1>5, <1>6, <1>7 DEF Next, OpenStore

\* However many processes draw a secret at the same moment, those that serve
\* sign with one, the stored one.
THEOREM SecretsAgree ==
  Spec => []OneVoterSecret
<1>1. Init => SecretSettled
  <2>1. Down.pc = "down"
    BY DEF Down
  <2>2. Init => \A p \in Processes : process[p] = Down
    BY DEF Init
  <2>3. QED
    BY <2>1, <2>2 DEF SecretSettled, At
<1>2. SecretSettled => OneVoterSecret
  BY DEF SecretSettled, OneVoterSecret
<1>3. QED
  BY <1>1, <1>2, NextSecret, TypeCorrect, PTL DEF Spec
=============================================================================
