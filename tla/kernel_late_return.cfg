SPECIFICATION Spec
CONSTANTS
  NR_TASKS = 4
  Priority = 3
  Word = 8
  Pages = 3
  NTasks = 3
  UnmaskAtBoot = TRUE
  MaxNest = 3
INVARIANT ReturnsToInterrupted
CHECK_DEADLOCK FALSE
