SPECIFICATION Spec
CONSTANTS
  j1 = j1  j2 = j2  often = often  late = late  manual = manual
  NoJob = NoJob  NoConf = NoConf  Unscheduled = Unscheduled
  Job = {j1, j2}
  Expr = {often, late}
  Times <- TwoExprs
  Cycle = 4
  ReloadEvery = 2
  StartAt <- OddTime
  MayWait = FALSE
  MaxRuns = 2
  MaxEdits = 0
  MaxExits = 0
INVARIANTS NoOverlap
