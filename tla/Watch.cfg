SPECIFICATION FairSpec
CONSTANTS
    Channel = {c1, c2}
    Entry = {e1, e2, e3}
    Capacity = 2
    MaxRaw = 1
    None = None
INVARIANTS
    WatcherRegistered
    OnlyLateJoinersOrphaned
PROPERTIES
    EndReachesChannels
    IdleWatcherStops
CHECK_DEADLOCK FALSE
