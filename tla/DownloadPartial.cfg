SPECIFICATION Spec
CONSTANTS
    Inst = {i1}
    Request = {r1, r2}
    Entry = {e1, e2}
    Capacity = 2
    None = None
INVARIANTS
    DoneMeansComplete
CHECK_DEADLOCK FALSE
