SPECIFICATION Spec
CONSTANTS
  None = None
  Configs <- OneConfig
  WarningInterval = 1
  Signals <- OnlyRemote
  Ops <- DisarmOps
  QueueCap = 1
  HintCap = 2
PROPERTIES
  UnlockIsGenuine
