SPECIFICATION Spec
CONSTANTS
    None = None
    Clients = {a}
    Senders = {s1}
    QueueCapacity = 0
    RequestRoom = 3
    TimerRoom = 2
    TimeoutSet = TRUE
    MaxRequests = 2
    MaxSends = 2
    MaxConnects = 1
    MaxStops = 1
INVARIANTS
    TypeOK
    TransmitInOrder
CHECK_DEADLOCK FALSE
