CONSTANTS
    Operations = 8
SPECIFICATION Spec
INVARIANTS PairedHandshake CallbackFirst
PROPERTIES WaitReturnsUnlessEarly CleanUpEnds
CHECK_DEADLOCK FALSE
