SPECIFICATION Spec
CONSTANTS
  None = None
  Nodes <- ThreeNodes
  Device <- TwoDevices
  NameOf <- RemoteNamed
  KeyOf <- Keys
  Pointers <- NoPointer
  Matches <- Itself
  Unknown <- Misspelt
  MaxMoves = 2
  Plugged <- BothPlugged
  FirstConfig <- Unpaired
  MaxClicks = 1
  MaxDeaths = 0
INVARIANT PairedIsWritten
CHECK_DEADLOCK FALSE
