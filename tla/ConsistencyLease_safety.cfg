\* Two requests, two rows, two workers, one of which may be lost; the lease
\* outlives the task limit.
CONSTANTS
  c1 = c1  c2 = c2
  w1 = w1  w2 = w2
  a1 = a1  a2 = a2
  Check = {c1, c2}
  Worker = {w1, w2}
  Requester = {a1, a2}
  NoWorker = NoWorker
  Lease = 2
  HardLimit = 1
  MaxRetries = 1
  MaxCrashes = 1
  Faults = {"worker_lost", "hard_limit", "setup_error", "unrecorded_failure", "api_crash"}
SPECIFICATION Spec
SYMMETRY Interchangeable
INVARIANTS ActiveKeyMarksActive OneCaller NeverSuperseded
PROPERTIES TerminalIsFinal ImplementsSlot
CHECK_DEADLOCK FALSE
