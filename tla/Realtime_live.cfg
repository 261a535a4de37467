SPECIFICATION FairSpec
CONSTANTS
    w1 = w1
    Nobody = Nobody
    Conn = {c1}
    Legacy = {c1}
    Publisher = {p1}
    Capacity = 1
    MaxMessages = 3
    MaxItems = 1
    WorkspaceOf <- OneWorkspace
    Workspace = {w1}
    MayStick = {c1}
    ErrCapacity = 2
CHECK_DEADLOCK FALSE
PROPERTY PublishAlwaysReturns
PROPERTY FailedConnectionsEnd
PROPERTY EveryEventArrives
