SPECIFICATION Spec
CONSTANTS
  r1 = r1
  a1 = a1
  b1 = b1
  e1 = e1
  None = None
  Calls <- MCCalls
  RemoteCalls <- MCRemote
  Events <- MCEvents
  ActionOf <- MCActionOf
  BareEnter = TRUE
  Cap = 1
  MaxLines = 1
  MaxPerReply = 2
INVARIANTS NoCallLost
