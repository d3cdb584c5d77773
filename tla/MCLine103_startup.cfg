SPECIFICATION Spec
CONSTANTS
    Lines <- MCLines
    MaxRepetitions = 1
    MaxQueue = 3
    AutoInit = TRUE
INVARIANTS EachOnce
PROPERTIES LateAnswers StartUp
CHECK_DEADLOCK FALSE
