SPECIFICATION Spec
CONSTANTS
  NoSecret = NoSecret
  Processes = {p1, p2}
  Secrets = {s1, s2}
INVARIANTS
  TypeOK
  LedgerMatchesSchema
  SlugsUniqueOnceAdopted
  NewerSchemaRefused
  OneVoterSecret
PROPERTIES
  UpgradeCompletes
