SPECIFICATION Spec
CONSTANTS
  Procs = {p1}
  Commands <- ReplacedCard
  InitDomain <- Lab
  MaxRuns = 2
  MaxFaults = 0
INVARIANT ImportIdempotent
CHECK_DEADLOCK FALSE
