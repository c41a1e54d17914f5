\* Workers may be lost, the broker may keep a message whose dispatch was reported as failed, an
\* error may follow the durable result, and the lease is no longer than the task limit, so that
\* live workers are superseded: the lease and its wakeups still end every review.
CONSTANTS
  c1 = c1  c2 = c2
  w1 = w1  w2 = w2
  a1 = a1  a2 = a2
  Check = {c1, c2}
  Worker = {w1, w2}
  Requester = {a1}
  NoWorker = NoWorker
  Lease = 1
  HardLimit = 1
  MaxRetries = 1
  MaxCrashes = 2
  Faults = {"worker_lost", "ambiguous_dispatch", "late_error"}
SPECIFICATION RecoverySpec
INVARIANTS SignalKept FindingsFromLease
PROPERTIES FailureNotOverwritten EventuallySettles
CHECK_DEADLOCK FALSE
