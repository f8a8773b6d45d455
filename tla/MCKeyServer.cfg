CONSTANTS
    Sessions = {s1, s2}
    Users = {u1, u2}
    MaxDrops = 1
    Garbage = Garbage
SPECIFICATION Spec
INVARIANTS TypeOK NoStaleMail KeyEarned
PROPERTIES RightCodeGetsKeys EverySessionEnds
CHECK_DEADLOCK FALSE
