SPECIFICATION Spec
CONSTANTS
    Shapes <- MCShapes
    MaxRequests = 2
    MaxHarm = 1
    MaxQueue = 2
INVARIANTS ExecutedAsAsked AnswersInOrder
PROPERTIES Answered TimesAgree
CHECK_DEADLOCK FALSE
