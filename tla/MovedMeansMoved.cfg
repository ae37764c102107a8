SPECIFICATION Spec
CONSTANTS
  AddrBits = 4
  Routers = {"a", "b"}
  InitRouters <- SomeRouters
  Settings <- SomeSettings
  HandWritten <- SomeProfiles
  BadNames <- RejectedNames
  BadAddresses = {99}
  Modes <- SomeModes
  MaxRuns = 3
  MaxFaults = 1
INVARIANT MovedMeansMoved
CHECK_DEADLOCK FALSE
