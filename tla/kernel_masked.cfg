SPECIFICATION FairSpec
CONSTANTS
  NR_TASKS = 4
  Priority = 3
  Word = 8
  Pages = 3
  NTasks = 3
  UnmaskAtBoot = FALSE
  MaxNest = 3
PROPERTY EveryTaskRuns
CHECK_DEADLOCK FALSE
