CONSTANTS
  Sources <- SourcesUsed
  Reading <- ReadingUsed
  ServerReading <- ServerReadingUsed
  Printing <- PrintingUsed
  Meaning <- MeaningUsed
  Patient = TRUE
  MaxOpen = 1
SPECIFICATION FairSpec
CHECK_DEADLOCK FALSE
INVARIANTS ReadsAsMeant Settled 
PROPERTIES  FormatAnswered
