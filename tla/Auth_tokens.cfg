SPECIFICATION Spec
CONSTANTS
    Cmd = {u1, u2}
    Phone = {p1}
    Legero = legero
    Null = Null
    Req = {r1, r2}
    Token = {t1, t2, t3}
    Inactive <- NoUsers
    AccessTTL = 0
    RefreshTTL = 0
    MaxClock = 1
    MaxLogins = 1
CHECK_DEADLOCK FALSE
SYMMETRY Interchangeable
INVARIANT TypeOK
INVARIANT HeldTokenIsGood
INVARIANT UserHasAccess
INVARIANT CreationIsWhole
PROPERTY ImplementsTokenLines
