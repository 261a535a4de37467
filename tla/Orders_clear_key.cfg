SPECIFICATION Spec
CONSTANTS
    Rice = rice
    NoStaple = noStaple
    noodle = noodle
    pork = pork
    StapleType <- Staples
    MeatType <- Meats
    Req = {r1, r2}
    Form <- Plain
    Ops <- ClearOps
    Modes <- BeforeToday
    MaxOrders = 2
    MaxBatch = 1
    MaxVersion = 1
    MaxClock = 1
    TicksPerDay = 1
    Nil = Nil
    Untouched = Untouched
INVARIANT ClearDateKeyIsBarrier
