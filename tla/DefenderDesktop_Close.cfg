\* The documented deferral of closing, against the window's own state lagging behind.
CONSTANTS
  Answers = {phrase, other}
  Phrase = phrase
  NoAnswer = null
  Unresolved = unresolved
  EmitMayFail = FALSE
  MaxClicks = 3
SPECIFICATION Spec
\* Everything stops when the owner has exited; OwnerSettles shows that it does.
CHECK_DEADLOCK FALSE
PROPERTY CloseIsDeferred
