SPECIFICATION Spec
CONSTANTS
    Rice = rice
    NoStaple = noStaple
    noodle = noodle
    pork = pork
    StapleType <- Staples
    MeatType <- Meats
    Req = {r1, r2}
    Form <- Plain
    Ops <- ClearOps
    Modes <- BothModes
    MaxOrders = 2
    MaxBatch = 1
    MaxVersion = 1
    MaxClock = 0
    TicksPerDay = 1
    Nil = Nil
    Untouched = Untouched
INVARIANT CounterCoversOrders
