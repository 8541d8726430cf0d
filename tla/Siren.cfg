SPECIFICATION FairSpec
CONSTANTS
  None = None
  MaxFailures = 3
  PlayerMayFail = TRUE
  MaxSirens = 2
INVARIANTS
  TypeOK
  OneLoop
  StopsSpawning
  GivesUp
PROPERTIES
  KeepsSounding
  FallsSilent
