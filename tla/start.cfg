SPECIFICATION FairSpec
CONSTANTS
  N = 3
  MaxTasks = 16
  Failures = {"queue", "task"}
  Atomic = FALSE
INVARIANT BarrierHolds
PROPERTY CreatedEnterLoop
CHECK_DEADLOCK FALSE
