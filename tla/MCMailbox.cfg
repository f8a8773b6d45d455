CONSTANTS
    h1 = h1
    h2 = h2
    a = a
    b = b
    d = d
    Garbage = Garbage
    Handlers = {h1, h2}
    Msg = {a, b, d}
    Arrivals <- TwoFeeds
    Clients = {c1}
SPECIFICATION MailboxSpec
INVARIANTS MailboxTypeOK FifoUnlessRaced OneFeedInOrder CleanDumpIsSnapshot
PROPERTIES AnsweredIsStored EveryClientGetsMail
CHECK_DEADLOCK FALSE
