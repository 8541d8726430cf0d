SPECIFICATION Spec
CONSTANTS
  None = None
  MaxFailures = 3
  PlayerMayFail = FALSE
  MaxSirens = 1
INVARIANTS
  StoppedMeansSilent
