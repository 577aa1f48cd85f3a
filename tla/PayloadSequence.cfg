\* Two orders of different length, either way round, and two harms.
CONSTANTS
  Reps = 3
  Cells = 2
  MaxOrders = 2
  MaxHarms = 2
  None = None
CHECK_DEADLOCK FALSE
SPECIFICATION Spec
PROPERTIES CapturesDisplayed ArgsAsOrdered CleanPowerOff Completes
