\* One controller to prepare and two that race to use the workspace.  The system
\* stops when every process has exited, so deadlock is not checked.
CONSTANTS
  Controllers = {c1, c2, c3}
  Nobody = nobody
SPECIFICATION CtrlSpec
CHECK_DEADLOCK FALSE
INVARIANTS SingleElevation RemovalIsSafe RemovedIsTrue ConfirmedIsReal
PROPERTY OrphansEnd
