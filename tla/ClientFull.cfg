SPECIFICATION Spec
CONSTANTS
    None = None
    Senders = {s1}
    QueueCapacity = 2
    MaxRequests = 2
    MaxLinkLosses = 1
    MaxStops = 1
INVARIANTS
    TypeOK
    TransmitInOrder
    TimesOutSent
CHECK_DEADLOCK FALSE
