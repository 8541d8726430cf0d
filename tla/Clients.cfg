SPECIFICATION FairSpec
CONSTANTS
  None = None
  Account <- TwoAccounts
  GroupsOf <- TheirGroups
  OwnGroup = "users"
  SocketGroup = "alertu"
  Umask <- GroupWide
  Foreign <- TmpDir
  Client <- AllClients
  AccountOf <- AllMembers
  Reconnects <- OnlyMain
  Defaults <- NewDefaults
  KeyTexts <- NoKeyOrOne
  MaxPicks = 1
  MaxEdits = 1
  FirstFile <- OldFile
  CtlFile <- OtherFile
  Press <- ShutterKey
  MaxRuns = 1
  MaxEnds = 1
INVARIANTS
  TypeOK
  ExactlyTheGroup
  AtMostOnce
PROPERTIES
  SavedIsTrue
  CallsEnd
CHECK_DEADLOCK FALSE
