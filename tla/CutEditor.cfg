\* Two cuts, two moves of a control, one other click, two requests in flight and one fault.
SPECIFICATION FairEditorSpec
CONSTANTS
  Cut = {c1, c2}
  Manifest <- MCManifest
  Blank <- MCBlank
  MaxRetries = 0
  MaxTasks = 1
  MaxFaults = 1
  MaxChanges = 2
  MaxClicks = 1
  MaxFlight = 2
INVARIANTS ExportHonest ExportedAsShown
PROPERTIES EventuallySaved ExportFollowed
CHECK_DEADLOCK FALSE
