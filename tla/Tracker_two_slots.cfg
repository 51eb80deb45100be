SPECIFICATION FairSpec
CONSTANTS
  a = a  b = b  c = c  f = f  g = g
  Nodes = {a, b, c}
  Files = {f, g}
  NoFile = NoFile
  NoPort = NoPort
  MaxFiles = 2
  Task <- TwoTasks
  Share <- OneOfEach
  Start <- StartAtOnce
  FdLimit = 3
  Lossy = FALSE
INVARIANTS TableWellFormed SharerIsAnswered
PROPERTY InterestIsRecorded
CHECK_DEADLOCK FALSE
