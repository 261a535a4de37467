SPECIFICATION Spec
CONSTANTS
    Rice = rice
    NoStaple = noStaple
    noodle = noodle
    pork = pork
    StapleType <- Staples
    MeatType <- Meats
    Req = {r1, r2}
    Form <- PlainAndFull
    Ops <- EditOps
    Modes <- NoModes
    MaxOrders = 1
    MaxBatch = 1
    MaxVersion = 3
    MaxClock = 1
    TicksPerDay = 1
    Nil = Nil
    Untouched = Untouched
SYMMETRY Requests
INVARIANT PublishedVersionIsCurrent
INVARIANT PublishedIsCommitted
INVARIANT OrdersConsistent
INVARIANT VersionedWriteLosesNothing
PROPERTY VersionAdvances
