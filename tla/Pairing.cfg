SPECIFICATION FairSpec
CONSTANTS
  None = None
  Nodes <- ThreeNodes
  Device <- TwoDevices
  NameOf <- RemoteNamed
  KeyOf <- Keys
  Pointers <- NoPointer
  Matches <- Itself
  Unknown <- Misspelt
  MaxMoves = 2
  Plugged <- BothPlugged
  FirstConfig <- Unpaired
  MaxClicks = 1
  MaxDeaths = 1
INVARIANTS
  TypeOK
  ReadersMatch
  PairedRemoteHeard
  NothingReplayed
CHECK_DEADLOCK FALSE
PROPERTIES
  OldEditsSurvive
  PairingEnds
  ReadersFollow
