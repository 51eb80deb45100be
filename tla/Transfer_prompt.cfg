SPECIFICATION FairSpec
CONSTANTS
  p = p  q = q  r = r
  Peers = {p, q, r}
  Listening = {p, q}
  Data <- Records
  Content <- AllHold
  Wanted <- FiveRecords
  Garbage = Garbage
  NotSaved = NotSaved
  MaxRecords = 7
  CountRange = 8
  MaxAttempts = 8
  InterestPeriod = 3
  LateAnswers = FALSE
  MaxLoss = 3
PROPERTIES Delivers SessionsEnd EventuallySaved
CHECK_DEADLOCK FALSE
