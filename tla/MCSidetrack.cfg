SPECIFICATION FairSpec
CONSTANTS
  remote = remote
  Tools <- MCTools
  RemoteTools <- MCTools
  Keep = 1
  Trigger = 1
  MaxContext = 4
  MaxChain = 1
  MaxMessages = 2
  MaxLevels = 2
INVARIANTS Remembered ScratchKept
PROPERTIES ReviewEnds
CHECK_DEADLOCK FALSE
