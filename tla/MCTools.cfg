CONSTANTS
  ron = ron
  bt = bt
  home = home
  work = work
  tea = tea
  eve = eve
  day = day
  shared = shared
  None = None
  Nobody = Nobody
  PING = 1
  DEAD = 2
  MaxDrops = 2
  Labels = {tea}
  MaxSeconds = 1
  MaxCalls = 2
  UserNames = {home}
  Profiles = {home, work}
  Persons = {ron}
  Backends = {bt}
  Actions = {"scene"}
  Household <- MCHousehold
  Lights = {1, 2}
  Levels = {1, 2}
  Scenes = {eve, day}
  Fades <- MCFades
  HueProfiles = {home, shared}
  Shared = shared
  Shelf <- MCShelf
  MailProfiles = {home, shared}
  NoMailProfile = none
  MaxMails <- MCMails
  a = a
  b = b
  notes = notes
  logs = logs
  v1 = v1
  Sources = {a, b}
  CollectionOf <- MCCollectionOf
  Conversations = logs
  Texts = {v1, v2}
  Thin = thin
  Absent = absent
  Chunks = 2
  MaxTroubles = 2
SPECIFICATION FairSpec
INVARIANTS ReportsHonest BeliefCurrent AnnouncedOnce MailKept SyncMatches
PROPERTIES ExpiryReported ProfileKept PowerKeepsLevels
CHECK_DEADLOCK FALSE
