SPECIFICATION FairSpec
CONSTANTS
  f0 = f0
  f1 = f1
  f2 = f2
  edited = edited
  Runners = {r1, r2, r3}
  Files <- AllFiles
  Releases <- ThreeReleases
  MaxFailures = 1
INVARIANTS
  TypeOK
  SchemaIsRecorded
  StartedOnOwnSchema
PROPERTIES
  ImplementsLedger
  AgreeingRunnersStart
CHECK_DEADLOCK FALSE
