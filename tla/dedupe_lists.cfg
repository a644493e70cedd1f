SPECIFICATION Spec
CONSTANTS
    Keys = {"a", "b", "c"}
    Inputs <- AllInputs
    MaxBytes = 3
INVARIANTS
    FirstsKept
    CollisionsComplete
    NothingLost
CHECK_DEADLOCK FALSE
