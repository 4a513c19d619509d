SPECIFICATION Spec
CONSTANTS
  Clock <- MCClock
  DayLists <- MCDayLists
  Doms <- MCDoms
  Crons <- MCCrons
  Counts <- MCCounts
  Durations <- MCDurations
  Tier = {"daily", "weekly"}
  Days <- MCDays
  Taken <- MCTaken
  NoJob = NoJob
  MaxEdits = 2
  File = {a, top}
  Top = top
  Sub = a
  Gone = Gone
  Policies <- MCPolicies
  MaxRuns = 2
  MaxDay = 1
INVARIANTS ScheduledAsChosen PrunedAsDescribed PasswordsSuffice SuccessIsInPlace RestoredWhole
CHECK_DEADLOCK FALSE
