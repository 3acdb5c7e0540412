SPECIFICATION SubconSpec
CONSTANTS
  Peer = {p1}
  Name = {"rag_search", "check_presence", "web_search", "set_hue_light"}
  Internal = {"web_search"}
  ReadOnly = {"rag_search", "check_presence", "web_search"}
  Offers <- MCOffers
  MAX_CONNECTIONS = 1
  Task = {"weather"}
  Cap <- MCCap
  Gap <- MCGap
  Needs <- MCNeeds
  WINDOW = 1
  MIN_AWAY = 1
  NOTE_MAX_AGE = 1
  NOTE_KEEP = 1
  Profile = {"ron", "guest"}
  Replies <- MCReplies
  MAX_CALLS_PER_REPLY = 2
  max_tool_rounds = 1
  MaxJob = 12
  MaxCycles = 2
  MaxOutside = 1
  MaxClock = 2
  MaxCalls = 2
INVARIANTS
  CallbackFits
  CallsOnce
  AnswerUnderWay
  AllowanceKept
  NotesKept
  AbortedIsCut
CHECK_DEADLOCK FALSE
