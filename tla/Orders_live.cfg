SPECIFICATION FairSpecAfterRace
CONSTANTS
    Rice = rice
    NoStaple = noStaple
    noodle = noodle
    pork = pork
    StapleType <- Staples
    MeatType <- Meats
    Req = {r1, r2}
    Form <- Plain
    Ops <- LiveOps
    Modes <- AllMode
    MaxOrders = 4
    MaxBatch = 1
    MaxVersion = 2
    MaxClock = 0
    TicksPerDay = 1
    Nil = Nil
    Untouched = Untouched
PROPERTY CallsFinish
