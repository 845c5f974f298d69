SPECIFICATION CommandsSpec
CONSTANTS
  Symbols = 5
  Attempts = 2
  Window = 2
  FailurePercent = 50
  ResetTimeout = 1
  HalfOpenProbes = 2
  Publishers <- MCBusPublisher
  MaxChunks = 2
  MaxClock = 4
  w1 = w1
  w2 = w2
  Workers <- MCWorkers
  Helpers <- MCHelpers
  Endpoints <- MCEndpoints
  Strategies <- MCStrategies
  SampleSize = 1
  Probes = 2
  MaxRequests = 2
  MaxRounds = 1
  TickerList <- MCTickerList
  Commands <- MCCommands
  Tier <- MCTier
  WorkerLimits = {1, 2}
  BatchRetries = 2
  Registries <- MCRegistries
  MaxRuns = 2
  MaxDay = 1
  Subjects = {"pull"}
PROPERTY FailuresAreRetried
CHECK_DEADLOCK FALSE
