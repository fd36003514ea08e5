SPECIFICATION Spec
CONSTANTS
    Turns = {t1, t2}
    Cancels = {c1}
    MAX_TOOL_ROUNDS = 1
    CHAIN = 2
CHECK_DEADLOCK FALSE
INVARIANT DroppedTurnResumes
