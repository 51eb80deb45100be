SPECIFICATION Spec
CONSTANTS
  c1 = c1  c2 = c2  c3 = c3
  Clients = {c1, c2}
  Tracker = Tracker
  TrackerPort = TrackerPort
  NoPort = NoPort
  MaxClients = 3
  Backlog = 2
  ListenFirst = FALSE
  SleepSuffices = TRUE
  Prompt = TRUE
  ShortReads = FALSE
  MaxTries = 2
INVARIANT ClientsKnowTracker
CHECK_DEADLOCK FALSE
