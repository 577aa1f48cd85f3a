\* Two function slots and one command slot; both segments can fill up, and the
\* two kinds of job compete for id 1.
CONSTANTS
  MaxFuncTasks = 2
  MaxCmdTasks = 1
  MaxIds = 3
  RepsInfinite = 3
  FuncJobs <- MCFuncJobs
  CmdJobs <- MCCmdJobs
  StartTimes = {}
  Periods = {1}
  RepCounts = {0}
  MaxTime = 1
  MaxSets = 1
SPECIFICATION Spec
INVARIANTS TypeOK IdMapConsistent RepsAccounted NoOverrun
PROPERTIES DueServed FreedWhenDone SetTimeKeepsDelays
