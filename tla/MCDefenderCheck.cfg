\* One command; each executor call has its own controller process.  Everything may
\* stop in the end, so deadlock is not checked.
CONSTANTS
  Answers = {phrase, other}
  Phrase = phrase
  NoAnswer = null
  Untyped = untyped
  Controllers <- MCControllers
  Nobody = nobody
SPECIFICATION Spec
CHECK_DEADLOCK FALSE
INVARIANT CommandIsTrue
PROPERTIES IsOneShot EverythingEnds
