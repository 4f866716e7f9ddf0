SPECIFICATION FairQuietSpec
CONSTANTS
    None = None
    Clients = {a, b}
    Senders = {s1}
    QueueCapacity = 2
    RequestRoom = 3
    TimerRoom = 1
    TimeoutSet = TRUE
    MaxRequests = 3
    MaxSends = 3
    MaxConnects = 2
    MaxStops = 0
INVARIANTS
    PumpNeverStuck
PROPERTIES
    ImplementsChannel
    EventuallyAnswered
CHECK_DEADLOCK FALSE
