SPECIFICATION Spec
CONSTANTS
  j1 = j1  j2 = j2  often = often  late = late  manual = manual
  NoJob = NoJob  NoConf = NoConf  Unscheduled = Unscheduled
  Job = {j1}
  Expr = {often, late}
  Times <- Alternating
  Cycle = 4
  ReloadEvery = 3
  StartAt <- OddTime
  MayWait = TRUE
  MaxRuns = 2
  MaxEdits = 0
  MaxExits = 0
PROPERTIES DueRunsFire
