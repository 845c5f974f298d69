SPECIFICATION GatesSpec
CONSTANTS
  c1 = c1
  c2 = c2
  c3 = c3
  Subjects = {"breaker", "limiter"}
  Callers <- MCCallers
  FailureThreshold = 2
  ResetTimeout = 2
  MaxClock = 5
  MaxFailures = 4
  Waiters <- MCWaiters
  Burst = 1
  TokenTicks = 3
  MaxTicks = 10
INVARIANTS CountMatchesState HalfOpenIsCooled PaidGrantsKeepRate SleepersAtMostDouble
PROPERTIES NoAdmissionWhileCooling ImplementsContract
CHECK_DEADLOCK FALSE
