SPECIFICATION SharedFairSpec
CONSTANTS
  g1 = g1
  g2 = g2
  Callers <- MCCallers
  FailureThreshold = 2
  ResetTimeout = 1
  MaxClock = 2
  MaxFailures <- MCMaxFailures
  AttemptsConfigs <- MCAttemptsConfigs
  MaxConnsPerHost = 1
  MaxCalls = 2
  Askers <- MCCallers
  Nobody = Nobody
  MaxRotations = 2
  MaxQueries = 2
  Goroutines <- MCCallers
  Symbols = {"A"}
  Calls <- MCCalls
  Listed = "XNAS"
  MaxScrapes = 1
  Subjects = {"do", "crumb", "scrape"}
INVARIANTS EachAttemptCountsOnce NoConnectionLeak GivesUpOnlyAtTheEnd OneBootstrap LookupsAreShared OneLookupOneMarket
PROPERTIES EveryCallReturns EveryQueryReturns
CHECK_DEADLOCK FALSE
