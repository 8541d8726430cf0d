SPECIFICATION Spec
CONSTANTS
  None = None
  Configs <- TwoConfigs
  WarningInterval = 2
  Signals <- BothSignals
  Ops <- Op
  QueueCap = 1
  HintCap = 2
INVARIANTS
  TypeOK
  TimersMatchState
  SirenOnlyInAlarm
  WarningsPaced
  ArmedMeansLocked
  SettledWhenSelecting
