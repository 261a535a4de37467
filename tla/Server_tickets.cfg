SPECIFICATION ServerSpec
CONSTANTS
    Caller = {c1, c2}
    Ticket = {t1, t2}
    Null = Null
    TTL = 2
    MaxTime = 2
    Untimed = Untimed
    MaxQueries = 1
INVARIANT TypeOK
INVARIANT OpenedOnce
INVARIANT RefusedForCause
INVARIANT DatabaseOutlivesHandlers
INVARIANT TimingMatchesRequest
PROPERTY RunReturns
