SPECIFICATION GatesSpec
CONSTANTS
  c1 = c1
  c2 = c2
  c3 = c3
  Subjects = {"limiter"}
  Callers <- MCCallers
  FailureThreshold = 2
  ResetTimeout = 2
  MaxClock = 5
  MaxFailures = 4
  Waiters <- MCOneWaiter
  Burst = 1
  TokenTicks = 3
  MaxTicks = 14
INVARIANT RateIsRespected
CHECK_DEADLOCK FALSE
