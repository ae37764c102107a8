SPECIFICATION Spec
CONSTANTS
  AddrBits = 4
  Procs = {p1, p2}
  Commands <- SomeCommands
  MACs = {"m1", "m2"}
  InitNets <- SomeNets
  InitBinds <- SomeBinds
  MaxRuns = 2
  MaxFaults = 1
  MaxOthers = 1
SYMMETRY Symmetry
INVARIANTS PoolServable AvailableExact
PROPERTIES GuardedKeepsBinds DryRunAgrees
CHECK_DEADLOCK FALSE
