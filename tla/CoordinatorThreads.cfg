SPECIFICATION FairSpec
CONSTANTS
  o1 = o1
  o2 = o2
  d1 = d1
  d2 = d2
  d3 = d3
  c1 = c1
  c2 = c2
  Drivers = {o1}
  Dispatchers = {d1, d2}
  Owner <- MCOwner
  SyncCalls = {d2}
  Clients = {c1}
  ThreadLimit = 2
  ThreadsCanFail = TRUE
  MaxNeeded = 3
  MaxRequests = 1
  None = None
CHECK_DEADLOCK FALSE
INVARIANTS ThreadsEnough
PROPERTIES ShutdownReported
