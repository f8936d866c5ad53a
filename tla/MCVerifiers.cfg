\* Two or three objects of a kind and up to three mutations; three entries of a log; two
\* objects of four properties; three rows of a list.  Every part may stop.
SPECIFICATION MCSpec
CONSTANTS
  RunId = "run"
  CanonicalPaths <- Paths
  Limits <- SizeLimits
  MaxPredicates = 4
  MaxChildren = 2
  MaxDepth = 3
  Scenarios = {"links", "passes", "times", "consents", "export"}
  Base <- BaseOf
  Values <- ValuesOf
  Removable <- RemovableOf
  MaxMutations <- MutationsOf
  Logs <- MCLogs
  Millis = 1
  Nodes = {n1, n2}
  PropertyNames = {1, 2}
  Kinds = {"Object", "Array"}
  MaxProps = 4
  FieldValues = {1, 2}
  Rests = {"x", "y"}
  MaxRows = 3
SYMMETRY Interchangeable
INVARIANTS GraphIsForest GraphIsBound LogIsOneChain DigestIsOfTheValue
CHECK_DEADLOCK FALSE
