SPECIFICATION Spec
CONSTANTS
  Procs = {p1, p2}
  Commands <- Shared
  InitDomain <- NoDomain
  MaxRuns = 4
  MaxFaults = 1
INVARIANT OneAnswerPerName
PROPERTY DomainSurvives
PROPERTY DomainFirst
CHECK_DEADLOCK FALSE
