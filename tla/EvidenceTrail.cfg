SPECIFICATION Spec
CONSTANTS
  BundleIds = {k1}
  EvidenceIds = {v1, v2}
  Contents = {c1, c2}
  Scope = scope
  RunIds = {r1}
  MaxRecords = 2
  MaxEntries = 1
  MaxDamage = 2
INVARIANTS
  TypeOK
  LedgerRefutesRewrittenBundle
PROPERTIES
  DamageIsReported
  SaveAndLoadKeepsErrors
CHECK_DEADLOCK FALSE
