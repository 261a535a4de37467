SPECIFICATION Spec
CONSTANTS
    w1 = w1
    Nobody = Nobody
    Conn = {c1}
    Legacy = {c1}
    Publisher = {p1, p2}
    Capacity = 2
    MaxMessages = 3
    MaxItems = 2
    WorkspaceOf <- OneWorkspace
    Workspace = {w1, w2}
    MayStick = {}
    ErrCapacity = 2
CHECK_DEADLOCK FALSE
SYMMETRY Publishers
INVARIANT TypeOK
INVARIANT NoGap
INVARIANT NoPanic
INVARIANT RegisteredIsOpen
