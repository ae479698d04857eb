SPECIFICATION Spec
CONSTANTS
    Channel = {c1, c2, c3}
    None = None
    MaxRequests = 3
    MaxReapers = 3
    MaxInst = 2
SYMMETRY Symmetry
INVARIANTS
    OwnerLive
    UnownedAttended
    LockProtectsUnowned
CHECK_DEADLOCK FALSE
