SPECIFICATION FairSpec
CONSTANTS
    Publisher = {p1, p2}
    TryPublisher = {p2}
    Subscriber = {s1}
    Closer = Closer
    PoolSize = 1
    QueueSize = 1
    Orderly = TRUE
    None = None
CHECK_DEADLOCK FALSE
PROPERTY CloseReturns
