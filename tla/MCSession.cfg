SPECIFICATION Spec
CONSTANTS
  Calls = {c1, c2, c3}
  Closers = {}
  MaxConcurrent = 2
  Keepalive = FALSE
  NoCall = NoCall
SYMMETRY Symmetry
INVARIANTS TypeOK SlotsAccounted MutexHeldByLogin GenerationNamesSession DenialsAreFinal EffectOfOutcome
PROPERTIES LoginOnlyWithoutSession RemoteCallSpec
CHECK_DEADLOCK FALSE
