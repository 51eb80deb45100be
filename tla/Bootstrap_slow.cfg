SPECIFICATION Spec
CONSTANTS
  c1 = c1  c2 = c2  c3 = c3
  Clients = {c1, c2, c3}
  Tracker = Tracker
  TrackerPort = TrackerPort
  NoPort = NoPort
  MaxClients = 3
  Backlog = 2
  ListenFirst = FALSE
  SleepSuffices = FALSE
  Prompt = FALSE
  ShortReads = TRUE
  MaxTries = 3
SYMMETRY ClientSymmetry
INVARIANTS TypeOK UpIsCounted OneServingOnePort
CHECK_DEADLOCK FALSE
