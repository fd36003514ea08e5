SPECIFICATION Spec
CONSTANTS
    Turns = {t1, t2}
    Cancels = {c1}
    MAX_TOOL_ROUNDS = 2
    CHAIN = 2
CHECK_DEADLOCK FALSE
SYMMETRY TurnSymmetry
INVARIANT TypeOK
INVARIANT BusyHasOwner
INVARIANT OnlyStoppedTurnsCancel
INVARIANT AuditedBeforeSent
INVARIANT TurnLogIsWhole
