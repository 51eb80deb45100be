SPECIFICATION Spec
CONSTANTS
  Second = 3
  Millisecond = 1
  MAXVALUE = 100
  Timeouts = {1, 3, 7}
  Results <- CallbackResults
  MaxTimers = 3
  MaxSeconds = 3
INVARIANTS TypeOK WaitIsExact
PROPERTY ImplementsTimerSet
CHECK_DEADLOCK FALSE
