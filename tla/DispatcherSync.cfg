SPECIFICATION Spec
CONSTANTS
  Threads = {t1, t2}
  Clients = {c1, c2}
  Runtime = {c1}
  Tasks = {k1}
  Waits = {w1}
  Reads = {r1}
  Unsynchronized = FALSE
  AllowSyncCalls = FALSE
  BatchSize = 2
  MaxTime = 1
  LateDelayed = FALSE
  WaitsCanFail = TRUE
  None = None
SYMMETRY Symmetry
CHECK_DEADLOCK FALSE
INVARIANTS CallbacksSerialized RequestsConserved NoLostWakeup IdleIsBroadcast ShutdownIsFinal
