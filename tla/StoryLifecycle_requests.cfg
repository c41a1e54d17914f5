\* A note and a regenerate request, or either of them and an administrator who reviews the story:
\* three versions, one retry of every task, one lost worker or lost dispatch.
CONSTANTS
  v1 = v1  v2 = v2  v3 = v3  n1 = n1  r1 = r1  a1 = a1
  Version = {v1, v2, v3}
  First = v1
  Note = {n1}
  Regen = {r1}
  Review = {a1}
  Mixes <- MCMixes
  MaxRetries = 1
  MaxFaults = 1
SPECIFICATION FairSpec
INVARIANTS CurrentIsNewest NoteForksOnce ReadyIsCurrent
PROPERTIES EventuallySettles NoteAnswered
CHECK_DEADLOCK FALSE
