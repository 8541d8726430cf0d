SPECIFICATION FairSpec
CONSTANTS
  None = None
  Configs <- ShortOrNone
  WarningInterval = 1
  Signals <- OnlyActivity
  Ops <- PromiseOps
  QueueCap = 1
  HintCap = 1
PROPERTIES
  KeepsPromise
  CountdownEnds
  DisarmHonoured
  UnlockHonoured
