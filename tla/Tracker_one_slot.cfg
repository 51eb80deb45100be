SPECIFICATION Spec
CONSTANTS
  a = a  b = b  c = c  f = f  g = g
  Nodes = {a, b, c}
  Files = {f, g}
  NoFile = NoFile
  NoPort = NoPort
  MaxFiles = 1
  Task <- TwoTasks
  Share <- AllShare
  Start <- StartLater
  FdLimit = 3
  Lossy = TRUE
INVARIANTS TypeOK RegistrySound ViewsAgreeWithTable AnswersAreCurrent
PROPERTY TableOnlyGrows
CHECK_DEADLOCK FALSE
