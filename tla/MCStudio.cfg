\* Forks: two of this page and one of another, with one lost answer or failed read.  Player:
\* two swaps of the mix and three moves over three lines.  Preview: three lines in two scenes, a
\* mix and a title card that may be missing, five clicks between frames.  Analysis: two
\* rows, one of which may come from another tab, two lists in flight and one fault.
SPECIFICATION StudioSpec
CONSTANTS
  Scopes = {"line", "scene"}
  MaxVersions = 3
  MaxElsewhere = 1
  MaxFaults = 1
  MaxMix = 3
  Moves = 3
  Lines = 3
  MaxJobs = 2
  MaxTries = 2
  MaxReads = 2
  MixLength = 3
  SceneStart = {0, 2}
  MaxCard = 2
  Offset = 1
  MaxMoves = 5
INVARIANTS RightTimeline OneBranchPerView CarriedOver FrameInCut
PROPERTIES PlayEnds EventuallyShown
CHECK_DEADLOCK FALSE
