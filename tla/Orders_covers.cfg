SPECIFICATION ClearsAloneSpec
CONSTANTS
    Rice = rice
    NoStaple = noStaple
    noodle = noodle
    pork = pork
    StapleType <- Staples
    MeatType <- Meats
    Req = {r1, r2}
    Form <- Plain
    Ops <- NumberOps
    Modes <- BothModes
    MaxOrders = 3
    MaxBatch = 2
    MaxVersion = 1
    MaxClock = 1
    TicksPerDay = 1
    Nil = Nil
    Untouched = Untouched
SYMMETRY Requests
INVARIANT CounterCoversOrders
INVARIANT ClearDateKeyIsBarrier
PROPERTY NumbersFollowCounter
