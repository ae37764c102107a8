SPECIFICATION Spec
CONSTANTS
  AddrBits = 4
  Number <- Numbers
  NameFor <- Names
  InitTexts <- NoTexts
  InitDumps <- BracedDumps
  InitBinds <- SomeBinds
  Edits <- SomeEdits
  RouterNet <- Lan
INVARIANT NoneLostSilently
CHECK_DEADLOCK FALSE
