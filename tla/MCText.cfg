SPECIFICATION Spec
CONSTANTS
  AddrBits = 4
  Number <- Numbers
  NameFor <- Names
  InitTexts <- SomeTexts
  InitDumps <- SomeDumps
  InitBinds <- SomeBinds
  Edits <- SomeEdits
  RouterNet <- Lan
INVARIANTS ReadBackIsPut DeclarationsInSync
PROPERTIES AnswersKept
CHECK_DEADLOCK FALSE
