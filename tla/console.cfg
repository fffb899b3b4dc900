SPECIFICATION FairSpec
CONSTANTS
  Depth = 1
  UnmaskAtBoot = TRUE
  Slice = 1
  Period = 2
  Seconds = 1
INVARIANTS
  LinesComplete
  TickLineComplete
PROPERTY
  PrintkReturns
