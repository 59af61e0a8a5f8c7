\* Three calls of three processes, fairly scheduled, any of which may die at any
\* point except inside another one's read-and-probe; pids are reused.  No symmetry,
\* for the temporal properties.
CONSTANTS
  Calls = {c1, c2, c3}
  Pids = {c1, c2, c3}
  PidOf <- CallIsProcess
  None = None
  StealAttempts = 2
  ExitInProbe = FALSE
SPECIFICATION FairSpec
PROPERTIES ImplementsMutex DeadLockReclaimed
CHECK_DEADLOCK FALSE
