SPECIFICATION Spec
CONSTANTS
  Projects <- ProjectsUsed
  Checking <- CheckingUsed
  Generating <- GeneratingUsed
  Doing <- DoingUsed
  DoingGo <- DoingGoUsed
  Compiling <- CompilingUsed
  Ordering <- OrderingUsed
  CallsOf <- CallsOfUsed
  OwnersOf <- OwnersOfUsed
  Worlds <- WorldsUsed
INVARIANTS OnceEach CycleVerdict BoundAsChecked ResultsHandled RunsAsWritten
CHECK_DEADLOCK FALSE
