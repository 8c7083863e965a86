SPECIFICATION MLFairSpec
CONSTANTS
    Proc = {p1, p2}
    Key = {1, 2, 3}
    Entry = {1, 2, 3, 4, 5}
    NoEntry = 0
    NoProc = NoProc
    NoKey = NoKey
    Calls <- MCCalls
ACTION_CONSTRAINT FirstFit
INVARIANTS AllOrNothing AscendingWaits
PROPERTY LockerReturns
