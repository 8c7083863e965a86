SPECIFICATION Spec
CONSTANTS
    Publisher = {p1}
    TryPublisher = {}
    Subscriber = {s1, s2}
    Closer = Closer
    PoolSize = 2
    QueueSize = 1
    Orderly = TRUE
    None = None
SYMMETRY Symmetric
CHECK_DEADLOCK FALSE
INVARIANTS ReachesAll StoppedForGood
