\* One call followed, other calls around it; two incarnations of up to two runs.
CONSTANTS
  Call = {c1}
  Waiter <- MCWaiter
  MaxStarts = 2
  MaxRuns = 2
  MaxOthers = 2
SPECIFICATION TasksSpec
CHECK_DEADLOCK FALSE
INVARIANTS
  TasksOK
  CompletedWithLastOutput
  OneRunAtATime
PROPERTIES
  OutcomeIsFinal
  EndedJobsLetGo
  OutcomeReachesParent
