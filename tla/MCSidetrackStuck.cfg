SPECIFICATION FairSpec
CONSTANTS
  remote = remote
  Tools <- MCTools
  RemoteTools <- MCTools
  Keep = 1
  Trigger = 1
  MaxContext = 4
  MaxChain = 0
  MaxMessages = 1
  MaxLevels = 1
PROPERTIES ReviewNeverStalls
CHECK_DEADLOCK FALSE
