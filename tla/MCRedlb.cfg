SPECIFICATION FairSpec
CONSTANTS
    l1 = l1
    l2 = l2
    l3 = l3
    s = s
    i = i
    x = x
    Lease = {l1, l2, l3}
    Request <- Requests
    Nothing = Nothing
    Ttl = 3
    Watcher = w
    Caller = {c}
    NoLease = NoLease
    MaxFaults = 1
INVARIANTS StopDeletes SurvivesMisses
PROPERTIES LiveStaysIndexed Converges
