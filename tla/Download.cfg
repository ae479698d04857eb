SPECIFICATION FairSpec
CONSTANTS
    Inst = {i1, i2}
    Request = {r1, r2}
    Entry = {e1, e2}
    Capacity = 2
    None = None
INVARIANTS
    PlainDownloadsComplete
    NoTempLeft
PROPERTIES
    RequestAnswered
CHECK_DEADLOCK FALSE
