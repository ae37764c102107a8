SPECIFICATION Spec
CONSTANTS
  Procs = {p1}
  Commands <- Operator
  InitDomain <- Lab
  MaxRuns = 4
  MaxFaults = 1
INVARIANT TypeOK
INVARIANT OneBindPerMAC
INVARIANT SuccessIsComplete
INVARIANT ImportConverges
PROPERTY NamesGoFirst
PROPERTY OthersNamesKept
CHECK_DEADLOCK FALSE
