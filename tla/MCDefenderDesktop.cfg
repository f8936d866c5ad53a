\* Two texts, the window's own pipe failures, no synchronous emit failure: the
\* texts of one check are far below the bounds of emit (65536 and 262144 bytes).
CONSTANTS
  Answers = {phrase, other}
  Phrase = phrase
  NoAnswer = null
  Unresolved = unresolved
  EmitMayFail = FALSE
  MaxClicks = 4
SPECIFICATION Spec
\* Everything stops when the owner has exited; OwnerSettles shows that it does.
CHECK_DEADLOCK FALSE
INVARIANTS ConsentDecides OutcomeIsTrue
PROPERTIES LostWindowNeverRuns EveryoneEnds
