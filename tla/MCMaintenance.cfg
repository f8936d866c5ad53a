\* Two manifests and epochs, three generations, four transactions or confirmations;
\* times up to the longest deadline and one later.  Both models may stop.
SPECIFICATION MCSpec
CONSTANTS
  Manifests = {m1, m2}
  MaxEpoch = 1
  Null = Null
  None = None
  MaxCounter = 4
  MaxGen = 3
  MaxLineage = 3
  PairingMs = 1
  OfferMs = 2
  IdleMs = 1
  IntakeMs = 2
  ChunkSize = 2
  MaxTime = 3
  MemberLists <- MCMembers
  Nonces = {n1, n2, n3, n4}
  ConfirmationSeconds = 1
  Foreign = Foreign
  MaxScenarioTime = 2
CHECK_DEADLOCK FALSE
INVARIANTS StoresCanGoOn OnlyCertainShown
PROPERTIES ConfirmedOnce LateIsRefused BothImplementLedger
