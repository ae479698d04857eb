SPECIFICATION Spec
CONSTANTS
    Channel = {c1, c2, c3}
    Proc = {p1, p2}
    None = None
SYMMETRY Symmetry
PROPERTY IdleStopSparesClients
CHECK_DEADLOCK FALSE
