SPECIFICATION FairSpec
CONSTANTS
    Channel = {c1, c2}
    Proc = {p1, p2}
    None = None
INVARIANTS
    JoinFindsProcess
    NoMissedExit
    OneInitPerProcess
    DeadProcessFailed
    NoEvictionWithoutStop
PROPERTIES
    RegistryNeverOverwritten
    InitWaiterReleased
    ExitReachesClients
    JoinAnswered
    IdleProcessStopped
CHECK_DEADLOCK FALSE
