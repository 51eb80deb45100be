SPECIFICATION FairSpec
CONSTANTS
  c1 = c1  c2 = c2  c3 = c3
  Clients = {c1, c2, c3}
  Tracker = Tracker
  TrackerPort = TrackerPort
  NoPort = NoPort
  MaxClients = 3
  Backlog = 2
  ListenFirst = TRUE
  SleepSuffices = TRUE
  Prompt = TRUE
  ShortReads = FALSE
  MaxTries = 3
INVARIANTS ClientsKnowTracker ManagerSurvives ConfiguredIsServed
PROPERTY AllConfigured
CHECK_DEADLOCK FALSE
