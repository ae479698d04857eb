SPECIFICATION FairSpec
CONSTANTS
    Join = {j1, j2, j3}
    None = None
    MaxMessages = 2
INVARIANTS
    NoCrossTalk
    EndAnnounced
PROPERTIES
    EndsWithConnection
CHECK_DEADLOCK FALSE
