SPECIFICATION SwarmFairSpec
CONSTANTS
  Jobs = {j1, j2}
  Swarms = {s1}
  MaxDevices = 2
  MaxPolls = 2
  Twins = {t1}
  NoTwin = NoTwin
  NoFile = NoFile
  Empty = Empty
  Torn = Torn
  DiskFaults = TRUE
  BlockingPanics = TRUE
INVARIANTS
  VerdictIsTrue
  CompletedIsBroadcast
  OneEventPerTask
  
  DurableUnlessShared
PROPERTIES
  SwarmEnds
  EveryCaptureReported
  
