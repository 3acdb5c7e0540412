SPECIFICATION FairSpec
INVARIANTS CallsAccounted BodyOnlyWhenCalled KeyboardAsScripted
PROPERTIES RunEnds
CONSTANTS
  Commands <- MCCommands
  Delayed <- MCDelayed
  ChatReplies <- MCChatReplies
  TaskReplies <- MCTaskReplies
  MAX_GOSUB_DEPTH = 2
  MAX_RUN_DEPTH = 2
  MaxCalls = 2
  MaxEvents = 1
  MaxStops = 1
