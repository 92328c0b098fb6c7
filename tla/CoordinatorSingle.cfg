SPECIFICATION Spec
CONSTANTS
  o1 = o1
  o2 = o2
  d1 = d1
  d2 = d2
  d3 = d3
  c1 = c1
  c2 = c2
  Drivers = {o1, o2}
  Dispatchers = {d1, d2, d3}
  Owner <- MCOwner
  SyncCalls = {}
  Clients = {c1, c2}
  ThreadLimit = 1
  ThreadsCanFail = FALSE
  MaxNeeded = 1
  MaxRequests = 2
  None = None
CHECK_DEADLOCK FALSE
INVARIANTS StatesKept
PROPERTIES ObserverIsLast
