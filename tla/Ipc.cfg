SPECIFICATION FairSpec
CONSTANTS
  None = None
  Clients <- TwoClients
  Topics <- StateOnly
  Asks <- Habits
  QueueCap = 1
  InboxCap = 1
  MaxVersion = 2
INVARIANTS
  TypeOK
  OnePromise
PROPERTIES
  KeepsService
  NeverBackwards
  SubscriberCatchesUp
  OthersNotStalled
