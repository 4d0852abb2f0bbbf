\* A main process with up to three threads at a time, created by the main
\* thread only; only the main thread grows the heap; ten user pages in five
\* page-table regions and nine frames, so allocation fails part way; one
\* page-table block on the kpt free list before frames are cut up.
CONSTANTS
    NDesc = 4
    PG = 2
    PDE = 2
    MaxPages = 10
    MemPages = 9
    KptInit = 1
    PTPerFrame = 2
    InitPages = 1
    SbrkArgs = {1, 2}
    NestedThreads = FALSE
    ThreadSbrk = FALSE
    MaxKids = 2
SPECIFICATION Spec
INVARIANT TypeOK
INVARIANT FramesConserved
INVARIANT BlocksConserved
