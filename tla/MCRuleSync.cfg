SPECIFICATION FairSpec
CONSTANTS
    i1 = i1
    c1 = c1
    c2 = c2
    r1 = r1
    r2 = r2
    r3 = r3
    r4 = r4
    a = a
    b = b
    None = None
    Instance = {i1}
    Caller = {c1, c2}
    At <- OneHome
    Rule = {r1, r2, r3, r4}
    FieldOf <- Fields
    Garbled = {r4}
    Broken = {r2}
    MaxCalls = 2
    MaxFaults = 1
CHECK_DEADLOCK FALSE
INVARIANTS WholeSnapshot UntouchedStaysInForce
PROPERTY Converges
