CONSTANTS
    Operations = 4
SPECIFICATION Spec
PROPERTIES WaitReturns
CHECK_DEADLOCK FALSE
