SPECIFICATION Spec
CONSTANTS
    Rice = rice
    NoStaple = noStaple
    noodle = noodle
    pork = pork
    StapleType <- Staples
    MeatType <- Meats
    Req = {r1, r2}
    Form <- Noodle
    Ops <- AllOps
    Modes <- BothModes
    MaxOrders = 2
    MaxBatch = 2
    MaxVersion = 2
    MaxClock = 0
    TicksPerDay = 1
    Nil = Nil
    Untouched = Untouched
SYMMETRY Requests
INVARIANT TypeOK
PROPERTY ImplementsLedger
