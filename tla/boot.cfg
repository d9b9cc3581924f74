SPECIFICATION Spec
CONSTANTS
  Nobody = Nobody
  Nothing = Nothing
  Replicas = {r1, r2, r3}
INVARIANTS
  TypeOK
  SchemaCreatedAlone
  SeededIsRecorded
  PartialBootHeals
PROPERTIES
  ForeignRowsUntouched
  OperatorChangesKept
  BootEnds
