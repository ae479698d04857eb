SPECIFICATION FairSpec
CONSTANTS
    Channel = {c1, c2}
    Request = {r1, r2}
    None = None
INVARIANTS
    NoneAwaitedFromEnded
    EntryMatchesHandler
PROPERTIES
    ReconnectKept
    WaitEndsWithChannel
CHECK_DEADLOCK FALSE
