SPECIFICATION SchedulerSpec
CONSTANTS
  Repos = {r1, r2}
  NoRepo = NoRepo
  Intervals = {1, 2}
  BaseTick = 3
  Window = 1
  MaxSync = 2
  MaxFailures = 5
  QueueCap = 1
  Flaky = {r1}
  Manual = {r2}
INVARIANTS SchedulerTypeOK BoundedWait NoEarlySuspension
