\* A buffer of two units behind a pipe of one, and a flood of four; one byte to each limit
\* of the probe and two written to each stream.  Every part stops when it ends.
CONSTANTS
  Limit = 2
  PipeSize = 1
  Flood = 4
  ConsoleHelper = TRUE
  ByteLimit = 1
  MaxBytes = 2
  Cancels = TRUE
SPECIFICATION MCSpec
INVARIANTS PassIsReal SummaryIsReal
PROPERTIES EverythingEnds
CHECK_DEADLOCK FALSE
