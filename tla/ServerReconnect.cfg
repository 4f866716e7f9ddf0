SPECIFICATION Spec
CONSTANTS
    None = None
    Clients = {a}
    Senders = {s1}
    QueueCapacity = 0
    RequestRoom = 3
    TimerRoom = 2
    TimeoutSet = FALSE
    MaxRequests = 2
    MaxSends = 2
    MaxConnects = 2
    MaxStops = 0
INVARIANTS
    TransmitInOrder
    WakeupPending
CHECK_DEADLOCK FALSE
