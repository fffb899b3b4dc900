SPECIFICATION Spec
CONSTANTS
  NTasks = 3
  CFrame = 96
  PAGE_SIZE = 4096
INVARIANTS
  FindsItsState
  SuspendedIsKept
