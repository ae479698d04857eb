SPECIFICATION Spec
CONSTANTS
    Channel = {c1, c2, c3}
    Prompt = {q1}
    None = None
    MaxMsg = 3
SYMMETRY Symmetry
INVARIANTS
    CaughtUp
    AnswerKept
    UnseenKept
PROPERTIES
    StreamSpec
CHECK_DEADLOCK FALSE
