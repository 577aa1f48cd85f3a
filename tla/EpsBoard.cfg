\* RestartAt and Wrap are as far apart that the counter can be set beyond.
CONSTANTS
  Channels = {1, 2}
  RestartAt = 5
  Wrap = 8
  MaxTime = 3
  MaxBoardCommands = 3
SPECIFICATION BoardSpec
INVARIANTS TimedEnds OnForAReason
PROPERTIES SparesTimed RestartsAgain
