SPECIFICATION Spec
CONSTANTS
  Holders = {h1, h2}
  EntryIds = {e1, e2}
  RunIds = {r1}
  Bodies = {b1}
  MaxEntries = 3
  MaxDamage = 1
INVARIANTS
  TypeOK
  IntactLedgerReportsOnlyRepeats
  EntryCommitsToHistory
  LatestHashIdentifiesLedger
PROPERTIES
  DamageIsReported
  RoundTripKeepsErrors
CHECK_DEADLOCK FALSE
