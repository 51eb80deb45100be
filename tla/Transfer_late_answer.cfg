SPECIFICATION Spec
CONSTANTS
  p = p  q = q  r = r
  Peers = {p}
  Listening = {p}
  Data <- Records
  Content <- AllHold
  Wanted <- FourRecords
  Garbage = Garbage
  NotSaved = NotSaved
  MaxRecords = 7
  CountRange = 8
  MaxAttempts = 8
  InterestPeriod = 3
  LateAnswers = TRUE
  MaxLoss = 0
INVARIANT SavedIntact
CHECK_DEADLOCK FALSE
