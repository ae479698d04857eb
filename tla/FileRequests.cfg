SPECIFICATION FileSpec
CONSTANTS
    a = a
    b = b
    r1 = r1
    Path = {a, b}
    Request = {r1, r2, r3}
    Op <- MCOp
    None = None
INVARIANTS
    OneCreator
    EmptyIsAccountedFor
PROPERTIES
    GuardedOverwritesExpected
CHECK_DEADLOCK FALSE
