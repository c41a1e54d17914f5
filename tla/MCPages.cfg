\* A page open, and one thing behind its back: a fault, a decision or a save made elsewhere, a
\* regeneration; two requests in flight.
SPECIFICATION PagesSpec
CONSTANTS
  Stories = {s1, s2}
  Runs = {r1}
  Stages = 2
  u1 = u1
  u2 = u2
  Users = {u1, u2}
  Me = u1
  models = models
  flags = flags
  Keys = {models, flags}
  FormKeys = {models}
  Models = models
  Entries = {e1}
  MaxClicks = 2
  MoreClicks = 3
  MaxReads = 2
  MaxEvents = 1
  Latest = 2
  MaxFiles = 2
  MaxTries = 2
  MaxFaults = 1
INVARIANTS ShownAsSaved AuditTells RowsTold RightFile NeverStuck
PROPERTIES RunFollowed ClickAnswered
CHECK_DEADLOCK FALSE
