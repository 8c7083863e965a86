SPECIFICATION Spec
CONSTANTS
    Publisher = {p1}
    TryPublisher = {}
    Subscriber = {s1}
    Closer = Closer
    PoolSize = 1
    QueueSize = 1
    Orderly = FALSE
    None = None
CHECK_DEADLOCK FALSE
INVARIANT StopWaitsForStarted
