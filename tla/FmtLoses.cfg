CONSTANTS
  Sources <- SourcesUsed
  Reading <- ReadingUsed
  ServerReading <- ServerReadingUsed
  Printing <- PrintingUsed
  Meaning <- MeaningUsed
  Patient = TRUE
  MaxOpen = 1
SPECIFICATION Spec
CHECK_DEADLOCK FALSE
INVARIANTS FormatLosesNothing
