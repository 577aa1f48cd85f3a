\* A command scheduled after a reset and before the time command.
CONSTANTS
  MaxFuncTasks = 1
  MaxCmdTasks = 2
  MaxIds = 3
  RepsInfinite = 3
  FuncJobs = {}
  CmdJobs <- MCCmdJobs
  BootJobs <- MCBootJobs
  StartTimes = {}
  Periods = {1}
  RepCounts = {0, 2}
  MaxTime = 1
  MaxSets = 2
  MaxBoots = 1
SPECIFICATION PSpec
PROPERTY KeptUntilLoaded
