SPECIFICATION Spec
CONSTANTS
  a = a
  b = b
  d = d
  r1 = r1
  r2 = r2
  Clients <- AllClients
  Listening <- Live
  Neighbors <- Names
  Data <- Records
  Content <- Holds
  Wanted <- Wants
  Garbage = Garbage
  NotSaved = NotSaved
  Byte = 2
  BufBytes = 1
  NameBytes = 2
  DatagramBytes = 8
  Cell <- Cells
  MaxRecords = 3
  MaxAttempts = 3
  InterestPeriod = 3
  MaxSessions = 2
  MaxLoss = 1
INVARIANTS TypeOK IntactUnlessOverlapped
PROPERTIES EachImplementsTransfer SessionsEnd RequestsServed
CHECK_DEADLOCK FALSE
