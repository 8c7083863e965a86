SPECIFICATION FairSpec
CONSTANTS
    Proc = {p1, p2, p3}
    Key = {k1}
    Entry = {e1, e2, e3, e4}
    NoEntry = NoEntry
    NoProc = NoProc
    NoKey = NoKey
INVARIANTS MutualExclusion RefExact DrainReady
PROPERTIES ImplementsKeyLock ImplementsFairly DoneReturns
