SPECIFICATION Spec
CONSTANTS
    Lines <- MCLines
    MaxRepetitions = 1
    SingleCharAckUsed = TRUE
    Broadcast = 255
    NoAsdu = NoAsdu
    NoCall = NoCall
    MaxQueue = 2
    Late = FALSE
INVARIANTS AtMostOnce NothingLost ConfirmedIsActed FcbInStep
CHECK_DEADLOCK FALSE
PROPERTIES AllSettled
