SPECIFICATION FairSpec
CONSTANTS
  NR_TASKS = 4
  Priority = 3
  Word = 8
  Pages = 3
  NTasks = 3
  UnmaskAtBoot = TRUE
  MaxNest = 3
INVARIANTS
  TypeOK
  TickFindsSlice
  OthersSuspended
  EndedBeforeSwitch
  IndInv
PROPERTIES
  ImplementsRoundRobin
  ReturnsWhenPrompt
  OneFrameWhenPrompt
  NoStarvation
CHECK_DEADLOCK FALSE
