SPECIFICATION FairSpec
CONSTANTS
  Node = {1, 2, 3}
  MaxBuffers = 2
  Scenarios <- Collections
CHECK_DEADLOCK FALSE
INVARIANTS  NoneOverlooked BuffersSuffice TrackersExact
PROPERTIES Isolated WaitsAnswered Reclaimed
