SPECIFICATION Spec
CONSTANTS
  Digests = {d1}
  MaxEpoch = 1
  MaxCounter = 6
  MaxGen = 4
  MaxSeq = 16
  MaxRecords = 12
  MaxLineage = 3
  NoDigest = NoDigest
  None = None
CHECK_DEADLOCK FALSE
INVARIANTS StoreAgrees AdmittedFits ReportsAreTrue
PROPERTY ImplementsLedger
