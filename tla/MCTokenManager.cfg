SPECIFICATION Spec
CONSTANTS
    Client = {c1, c2}
    User = {u1}
    Id = {i1, i2, i3}
    Options <- MCOptions
    Retries = 1
    None = None
    MaxNow = 3
CONSTRAINT InTime
SYMMETRY Symmetric
INVARIANTS SessionsExact RefreshOnce VerifySound
PROPERTIES DeadStaysDead RevokeExact
