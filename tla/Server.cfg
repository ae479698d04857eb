SPECIFICATION FairSpec
CONSTANTS
    Command = {c1}
    Agent = {a1}
INVARIANTS
    StatusAfterOutput
    NothingForgotten
PROPERTIES
    QuitCompletes
CHECK_DEADLOCK FALSE
