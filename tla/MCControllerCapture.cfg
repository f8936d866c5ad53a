\* Two units fit on stdout, one on stderr; the child can overrun both.
\* Every behaviour ends in a settled promise, which stutters (Stopped).
CONSTANTS
  Limit = 2
  ErrLimit = 1
  MaxSent = 3
SPECIFICATION CapSpec
INVARIANTS AcceptedIsWhole SettledIsOver
PROPERTY CaptureSettles
