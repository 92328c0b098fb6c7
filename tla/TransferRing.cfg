SPECIFICATION FairSpec
CONSTANTS
  N = 5
  MaxSegs = 3
  Scenarios <- MCScenarios
INVARIANT OneRing
INVARIANT ContextsInStep
INVARIANT ShortsNoted
PROPERTY NothingOverwritten
PROPERTY IsQueue
PROPERTY TransfersComplete
CHECK_DEADLOCK FALSE
