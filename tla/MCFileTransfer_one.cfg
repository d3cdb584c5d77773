SPECIFICATION Spec
CONSTANTS
    Master = {m1}
    Name <- MCName
    Nof <- MCNof
    Content <- MCContent
    SectionSize = 1
    MaxSections = 3
    MaxSegment = 1
    Unencodable = {}
    None = None
    QuietAbort = TRUE
    PromptSelect = TRUE
    Lossy = TRUE
    MaxRequests = 4
    MaxFaults = 2
INVARIANTS FileIntact NoPanic
PROPERTIES TransferEnds
CHECK_DEADLOCK FALSE
