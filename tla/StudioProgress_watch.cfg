SPECIFICATION FairSpec
CONSTANTS
  Last = 2
  Units = 1
  MaxClicks = 1
  Lossy = {1}
  MaxReads = 1
  MaxFaults = 1
INVARIANTS
  OverlayFresh
PROPERTIES
  EventuallyCurrent
  RespeakAnswered
CHECK_DEADLOCK FALSE
