SPECIFICATION Spec
CONSTANTS
  Procs = {p1, p2}
  Commands <- SomeCommands
  Caps <- SomeCaps
  InitIfaces <- SomeIfaces
  InitRadios <- SomeRadios
  MaxRuns = 2
  MaxFaults = 1
  MaxRoams = 1
SYMMETRY Symmetry
INVARIANTS PartialIsInterface Offered
PROPERTIES CutOffOnlyUnseen OthersFieldsKept
CHECK_DEADLOCK FALSE
