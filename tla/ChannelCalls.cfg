SPECIFICATION Spec
CONSTANTS
  t1 = t1
  t2 = t2
  c1 = c1
  c2 = c2
  c3 = c3
  Threads = {}
  Clients = {c1, c2, c3}
  Runtime = {c1}
  SyncEnds = {}
  WaitEnds = {1}
  Callers = {0}
  NumTxids = 2
  MaxMsgs = 1
  None = None
INVARIANTS WaitersListed CallsMatched
SYMMETRY MCSymmetry
CHECK_DEADLOCK FALSE
