SPECIFICATION RLSpec
CONSTANTS
    i1 = i1
    c1 = c1
    r1 = r1
    r2 = r2
    r3 = r3
    a = a
    b = b
    None = None
    Instance = {i1}
    Caller = {c1}
    At <- OneCaller
    Rule = {r1, r2, r3}
    FieldOf <- Fields
    NameOf <- Fields
    TotalOf <- Totals
    Garbled = {}
    Broken = {}
    Brief = {r2}
    FailClosed = TRUE
    MaxCalls = 1
    MaxFaults = 1
    Request = {q1, q2}
SYMMETRY Symmetric
CHECK_DEADLOCK FALSE
INVARIANTS WindowLimit VerdictIsStrictest
