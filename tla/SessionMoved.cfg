SPECIFICATION Spec
CONSTANTS
  None = None
  Sessions <- TwoSessions
  BusMayDie = FALSE
  MayMove = TRUE
  QueueCap = 1
  LagCap = 2
PROPERTIES
  GenuineReports
