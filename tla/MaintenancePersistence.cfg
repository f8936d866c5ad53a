SPECIFICATION Spec
CONSTANTS
  Digests = {d1}
  MaxEpoch = 1
  MaxCounter = 4
  MaxGen = 3
  MaxSeq = 10
  MaxRecords = 7
  MaxLineage = 3
  NoDigest = NoDigest
  None = None
CHECK_DEADLOCK FALSE
INVARIANTS StoreGoesOn ReportsAreTrue
PROPERTY ImplementsLedger
