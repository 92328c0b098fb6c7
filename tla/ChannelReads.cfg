SPECIFICATION Spec
CONSTANTS
  t1 = t1
  t2 = t2
  c1 = c1
  c2 = c2
  c3 = c3
  Threads = {t1}
  Clients = {c1, c2}
  Runtime = {c1}
  SyncEnds = {0}
  WaitEnds = {0, 1}
  Callers = {}
  NumTxids = 1
  MaxMsgs = 1
  None = None
CHECK_DEADLOCK FALSE
INVARIANTS NoLostRead AssertionsHold PeerClosedIsLast
