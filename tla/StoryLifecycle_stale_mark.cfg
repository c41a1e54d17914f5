CONSTANTS
  v1 = v1  v2 = v2  v3 = v3  n1 = n1  r1 = r1
  Version = {v1, v2, v3}
  First = v1
  Note = {n1}
  Regen = {r1}
  Review = {}
  Mixes <- MCMixes
  MaxRetries = 1
  MaxFaults = 0
SPECIFICATION Spec
PROPERTIES StaleBranchHarmless
CHECK_DEADLOCK FALSE
