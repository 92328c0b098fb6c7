SPECIFICATION Spec
CONSTANTS
  Threads = {t1}
  Clients = {c1, c2}
  Runtime = {}
  Tasks = {k1}
  Waits = {}
  Reads = {}
  Unsynchronized = FALSE
  AllowSyncCalls = FALSE
  BatchSize = 2
  MaxTime = 0
  LateDelayed = FALSE
  WaitsCanFail = FALSE
  None = None
CHECK_DEADLOCK FALSE
INVARIANTS ShutdownFindsIdle
