\* One change of a package with an opaque member.
SPECIFICATION Spec
CONSTANTS
  RunId = "run"
  CanonicalPaths <- Paths
  Limits <- SizeLimits
  MaxPredicates = 4
  MaxChildren = 2
  MaxDepth = 3
  Scenarios = {"package"}
  Base <- BaseOf
  Values <- ValuesOf
  Removable <- RemovableOf
  MaxMutations <- MutationsOf
INVARIANT ReferencesMatchMembers
CHECK_DEADLOCK FALSE
