SPECIFICATION Spec
CONSTANTS
  j1 = j1  j2 = j2  often = often  late = late  manual = manual
  NoJob = NoJob  NoConf = NoConf  Unscheduled = Unscheduled
  Job = {j1}
  Expr = {often, late}
  Times <- TwoExprs
  Cycle = 4
  ReloadEvery = 2
  StartAt <- AnyTime
  MayWait = TRUE
  MaxRuns = 2
  MaxEdits = 2
  MaxExits = 1
INVARIANTS IInv NextRunIsNext EditsApplied NoOverlap
