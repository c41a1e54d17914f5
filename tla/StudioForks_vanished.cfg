\* Any fork but a branch takes the Time Machine away from a ready story.
SPECIFICATION Spec
CONSTANTS
  Scopes = {"line", "scene"}
  MaxVersions = 3
  MaxElsewhere = 0
  MaxFaults = 0
INVARIANTS TimeMachineShown
