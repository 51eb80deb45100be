SPECIFICATION Spec
CONSTANTS
  Second = 2
  Millisecond = 1
  MAXVALUE = 100
  Timeouts = {1, 2, 3}
  StartTime = 2
  Latency = 1
  MaxSession = 4
  MaxRequests = 3
  MaxTicks = 3
INVARIANTS TypeOK NotBeforeStart TicksLostToWork WakesForTimer
PROPERTIES RequestsServed TicksGoOn
CHECK_DEADLOCK FALSE
