\* Commands whose ids differ from those of the function tasks.
CONSTANTS
  MaxFuncTasks = 1
  MaxCmdTasks = 2
  MaxIds = 3
  RepsInfinite = 3
  FuncJobs = {}
  CmdJobs <- MCCmdJobs
  BootJobs <- MCBootJobs
  StartTimes = {}
  Periods = {1}
  RepCounts = {0}
  MaxTime = 1
  MaxSets = 1
  MaxBoots = 1
SPECIFICATION PSpec
INVARIANTS FlashMirrorsTable AccountedAcrossResets
