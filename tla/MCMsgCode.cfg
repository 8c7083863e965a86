SPECIFICATION Spec
CONSTANTS
    s1 = s1
    s2 = s2
    Sender = {s1, s2}
    Verifier = {v}
    CodeTtl = 1
    CvTtls = {0, 2}
    DayLen = 2
    NoCode = NoCode
    MaxNow = 3
    MaxSends = 2
    MaxBreaks = 1
SYMMETRY Symmetry
CHECK_DEADLOCK FALSE
INVARIANTS VerifySound NewestStands CountsCover CountersGo
