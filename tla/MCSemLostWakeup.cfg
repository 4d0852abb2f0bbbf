\* Two threads on a semaphore initialised to 1: a semUp between condWait's
\* releaseLock and its sleepChan is lost.
CONSTANTS
    Thr = {1, 2}
    InitVal = 1
    Broadcasters = {}
    BarrierClients = {}
    BarrierN = 0
SPECIFICATION LibSpec
INVARIANT SleeperHasDebt
