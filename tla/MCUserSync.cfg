\* Four threads sharing a semaphore initialised to 2, and three more
\* meeting at a barrier of 3.
CONSTANTS
    Thr = {1, 2, 3, 4, 5, 6, 7}
    InitVal = 2
    Broadcasters = {}
    BarrierClients = {5, 6, 7}
    BarrierN = 3
SPECIFICATION LibSpec
INVARIANT TypeOK
INVARIANT LockExclusive
INVARIANT SemaphoreBound
INVARIANT BarrierExact
PROPERTY BarrierReleasesAll
