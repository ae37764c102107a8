SPECIFICATION FairSpec
CONSTANTS
  Calls = {c1, c2}
  Closers = {x1}
  MaxConcurrent = 1
  Keepalive = TRUE
  NoCall = NoCall
INVARIANTS CloseMeansStopped
PROPERTIES LiveSessionNotDiscarded CallsReturn CloseReturns
CHECK_DEADLOCK FALSE
