SPECIFICATION FairQuietSpec
CONSTANTS
    None = None
    Senders = {s1, s2}
    QueueCapacity = 2
    MaxRequests = 3
    MaxLinkLosses = 0
    MaxStops = 0
INVARIANTS
    OneAtATime
    PumpNeverStuck
    SettledOnce
PROPERTIES
    ImplementsChannel
    EventuallySettled
    EnqueueReturns
CHECK_DEADLOCK FALSE
