\* Lost workers: tasks start again, a second chord joins the first, stores and calls fail.
CONSTANTS
  l1 = l1  l2 = l2  p1 = p1  a1 = a1  m1 = m1  k1 = k1  k2 = k2
  Line = {l1}
  Scene = {}
  Avatar = {}
  Score = {}
  Chord = {k1, k2}
  MaxRetries = 1
  MaxCrashes = 2
  MaxRepeats = 1
  Video = FALSE
  Faults = {"worker_lost", "fanout_lost", "transient", "store_error", "unheard", "expand_error"}
SPECIFICATION FairSpec
INVARIANTS OneGenerator PaidOnce
PROPERTIES SettlesUnlessAbandoned
CHECK_DEADLOCK FALSE
