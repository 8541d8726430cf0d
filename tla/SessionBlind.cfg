SPECIFICATION Spec
CONSTANTS
  None = None
  Sessions <- OneSession
  BusMayDie = TRUE
  MayMove = FALSE
  QueueCap = 1
  LagCap = 2
INVARIANTS
  InformedAfterFallback
