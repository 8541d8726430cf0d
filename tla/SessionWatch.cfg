SPECIFICATION FairSpec
CONSTANTS
  None = None
  Sessions <- TwoSessions
  BusMayDie = TRUE
  MayMove = TRUE
  QueueCap = 1
  LagCap = 2
INVARIANTS
  TypeOK
  InformedWhenSteady
PROPERTIES
  KeepsReports
  GenuineWhenNotMoved
  FollowsSession
  UnlockReported
