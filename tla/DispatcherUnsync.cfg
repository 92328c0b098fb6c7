SPECIFICATION Spec
CONSTANTS
  Threads = {t1, t2}
  Clients = {c1}
  Runtime = {c1}
  Tasks = {k1}
  Waits = {w1}
  Reads = {r1}
  Unsynchronized = TRUE
  AllowSyncCalls = FALSE
  BatchSize = 1
  MaxTime = 0
  LateDelayed = FALSE
  WaitsCanFail = FALSE
  None = None
CHECK_DEADLOCK FALSE
INVARIANTS CancellationsRunAlone
PROPERTIES ImplementsContract
