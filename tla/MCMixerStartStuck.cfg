CONSTANTS
    Mixers = {m1, m2}
    MaxRestarts = 1
SPECIFICATION Spec
PROPERTIES ReadyLeadsToRound
CHECK_DEADLOCK FALSE
