\* rxbufs[0] holds one read and a part, i2cbufs[1] two commands and a half.
CONSTANTS
  Cells = 3
  InSize = 7
  RxSize = 4
  MaxCommands = 3
  MaxResets = 1
  None = None
CHECK_DEADLOCK FALSE
SPECIFICATION Spec
INVARIANT TakenInOrder
PROPERTIES ImplementsMailbox PromptIsTaken
