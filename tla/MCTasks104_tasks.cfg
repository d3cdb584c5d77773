SPECIFICATION Spec
CONSTANTS
    Settings <- MCSettings
    Cap = 1
    MaxLate = 1
INVARIANTS
    SilenceEndsIt
    AckInTime
PROPERTIES
    NobodyWaitsForEver
CHECK_DEADLOCK FALSE
