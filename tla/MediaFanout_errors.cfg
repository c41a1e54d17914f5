\* One delivery of fan_out; workers, providers, moderation, stores, fan_out and ffmpeg fail.
CONSTANTS
  l1 = l1  l2 = l2  p1 = p1  a1 = a1  m1 = m1  k1 = k1  k2 = k2
  Line = {l1, l2}
  Scene = {p1}
  Avatar = {}
  Score = {m1}
  Chord = {k1}
  MaxRetries = 1
  MaxCrashes = 1
  MaxRepeats = 1
  Video = TRUE
  Faults = {"worker_lost", "transient", "permanent", "blocked", "store_error", "expand_error",
            "assembly_error", "no_score", "score_error"}
SPECIFICATION FairSpec
INVARIANTS OnlyOrphansMissing 
CHECK_DEADLOCK FALSE
