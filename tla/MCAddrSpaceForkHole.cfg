\* The same process and discipline: fork() after thread_join().
CONSTANTS
    NDesc = 3
    PG = 2
    PDE = 2
    MaxPages = 6
    MemPages = 5
    KptInit = 0
    PTPerFrame = 2
    InitPages = 1
    SbrkArgs = {1, 2}
    NestedThreads = FALSE
    ThreadSbrk = FALSE
    MaxKids = 2
SPECIFICATION Spec
INVARIANT NoCopyHole
