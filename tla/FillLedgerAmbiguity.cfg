SPECIFICATION Spec
CONSTANTS
    Rows <- MCRows
    MaxRows = 3
CHECK_DEADLOCK FALSE
INVARIANT AmbiguityIsReported
