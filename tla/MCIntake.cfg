\* A source over its limit of two blocks; archives of three members; two records; texts
\* nested one deeper than the limit of four; three documents of which two fit; three
\* changes of a snapshot; six calls of the gate.  Every part may stop.
SPECIFICATION MCSpec
CONSTANTS
  Files = {f1, f2}
  MaxBytes = 2
  Buffer = 3
  MaxLength = 4
  MaxChanges = 3
  Nothing = Nothing
  Archives <- MCArchives
  Fold <- MCFold
  MaxEntries = 3
  MaxEntry = 2
  MaxExpanded = 3
  Ratio = 2
  MaxRecords = 2
  Ids = {1, 2}
  Maximum = 4
  Documents <- SmallDocuments
  MaxLineBytes = 2
  MaxDepth = 2
  MaxDocuments = 3
  MaxSourceBytes = 3
  MaxChunk = 2
  MaxCalls = 6
SYMMETRY FileSymmetry
INVARIANTS ArchiveIsAccounted OnlyJudgedIsShown TextReadersAgree AssessmentIsBacked
PROPERTIES SourceIsOneVersion PreviewIsWhole
CHECK_DEADLOCK FALSE
