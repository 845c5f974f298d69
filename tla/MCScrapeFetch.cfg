SPECIFICATION FairSpec
CONSTANTS
  c1 = c1
  c2 = c2
  nobody = nobody
  Callers <- MCCallers
  Nobody = nobody
  Policies <- MCPolicies
  TTL = 1
  RobotsTimeout = 1
  Attempts = 2
  Burst = 1
  TokenTicks = 2
  MaxClock = 3
INVARIANTS TypeOK GrantsAtMostDouble
PROPERTIES RobotsPolicyIsKept EveryFetchReturns
CHECK_DEADLOCK FALSE
