SPECIFICATION Spec
CONSTANTS
  Threads = {t1, t2}
  Clients = {c2}
  Runtime = {}
  Tasks = {k1, k2}
  Waits = {}
  Reads = {r1}
  Unsynchronized = FALSE
  AllowSyncCalls = FALSE
  BatchSize = 2
  MaxTime = 2
  LateDelayed = TRUE
  WaitsCanFail = FALSE
  None = None
SYMMETRY Symmetry
CHECK_DEADLOCK FALSE
INVARIANTS TasksCancellable DelayedTasksWatched
