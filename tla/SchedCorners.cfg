\* Each of these properties fails; leave one of them in to see how.
SPECIFICATION Spec
CONSTANTS
  j1 = j1  j2 = j2  often = often  late = late  manual = manual
  NoJob = NoJob  NoConf = NoConf  Unscheduled = Unscheduled
  Job = {j1}
  Expr = {often, manual}
  Times <- WithManual
  Cycle = 4
  ReloadEvery = 2
  StartAt <- OddTime
  MayWait = TRUE
  MaxRuns = 2
  MaxEdits = 1
  MaxExits = 0
INVARIANTS ManualHasNoNextRun EditsAppliedAtOnce
PROPERTIES DisabledNeverFires
