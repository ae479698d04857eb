SPECIFICATION FairTerminalSpec
CONSTANTS
    Capacity = 2
    InCapacity = 1
    OutCapacity = 1
    InputSize = 2
    MaxInput = 2
    MaxOutput = 5
INVARIANTS
    ExitAfterOutput
PROPERTIES
    EndsOnDisconnect
    EndTogether
CHECK_DEADLOCK FALSE
