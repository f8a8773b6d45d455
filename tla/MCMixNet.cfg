CONSTANTS
    Mixers = {m1, m2}
    Mailbox = mailbox
    Clients = {c1, c2}
    MaxCrashes = 1
    None = None
SPECIFICATION Spec
INVARIANTS NothingDuplicated SealedForHolder PeeledInOrder
PROPERTIES ImplementsDelivery LossHasCause CalmDelivers
CHECK_DEADLOCK FALSE
