SPECIFICATION FairSpec
CONSTANTS
  sys = sys
  sysp = sysp
  bus = bus
  busp = busp
  child = child
  leaf = leaf
  h1 = h1
  h2 = h2
  Device = {sys, sysp, bus, busp, child, leaf}
  Sys = sys
  Parent <- MCParent
  Proxy <- MCProxy
  HostOf <- MCHostOf
  Host = {h1, h2}
  NoHost = NoHost
  InStorage = {child}
  Scenarios <- DeviceTree
CHECK_DEADLOCK FALSE
INVARIANTS AssertionsHold NoChildLeftBehind OneHookAtATime SuspendAfterChildren
PROPERTIES EverythingSettles AllSuspended StopAnswered
