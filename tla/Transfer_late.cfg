SPECIFICATION Spec
CONSTANTS
  p = p  q = q  r = r
  Peers = {p, q}
  Listening = {p, q}
  Data <- Records
  Content <- AllHold
  Wanted <- FourRecords
  Garbage = Garbage
  NotSaved = NotSaved
  MaxRecords = 7
  CountRange = 8
  MaxAttempts = 8
  InterestPeriod = 3
  LateAnswers = TRUE
  MaxLoss = 2
INVARIANTS TypeOK AnswersOnlyLag
PROPERTY SavedIsFinal
CHECK_DEADLOCK FALSE
