CONSTANTS
    Elem = {a, b, c, d}
    MaxSize = 4
    RandMax = 3
SPECIFICATION Spec
INVARIANTS TypeOK SameElements OrderTellsDraws
CHECK_DEADLOCK FALSE
