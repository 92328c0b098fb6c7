SPECIFICATION FairSpec
CONSTANTS
  Threads = {t1}
  Clients = {c1}
  Runtime = {c1}
  Tasks = {k1}
  Waits = {w1}
  Reads = {r1}
  Unsynchronized = FALSE
  AllowSyncCalls = FALSE
  BatchSize = 2
  MaxTime = 1
  LateDelayed = FALSE
  WaitsCanFail = FALSE
  None = None
CHECK_DEADLOCK FALSE
PROPERTIES ShutdownCompletes QueuedCallbacksRun
