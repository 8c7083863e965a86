SPECIFICATION FairSpec
CONSTANTS
    Locker = {l1, l2}
    TTL = 1
    Retries = 1
    MaxResend = 1
    NoKey = NoKey
INVARIANT LeaseOwned
PROPERTIES CallsReturn LockPassesOn
