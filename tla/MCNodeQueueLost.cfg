CONSTANTS
    h1 = h1
    h2 = h2
    a = a
    b = b
    c = c
    d = d
    Garbage = Garbage
    Handlers = {h1, h2}
    Msg = {a, b, c, d}
    Arrivals <- TwoFeeds
SPECIFICATION Spec
INVARIANTS AnsweredIsKept
CHECK_DEADLOCK FALSE
