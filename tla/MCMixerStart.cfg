CONSTANTS
    Mixers = {m1, m2}
    MaxRestarts = 1
SPECIFICATION Spec
INVARIANTS TypeOK BarrierHolds KeysArePut
PROPERTIES EveryoneStarts
CHECK_DEADLOCK FALSE
