\* Memory runs short while the heap grows across a page-table boundary:
\* the next thread_create, whose stack page lands in a fresh page-table
\* region, needs a page table that neither the kpt free list nor a frame
\* can supply.
CONSTANTS
    NDesc = 3
    PG = 2
    PDE = 2
    MaxPages = 6
    MemPages = 5
    KptInit = 0
    PTPerFrame = 2
    InitPages = 1
    SbrkArgs = {1, 2}
    NestedThreads = FALSE
    ThreadSbrk = FALSE
    MaxKids = 2
SPECIFICATION Spec
INVARIANT NoOomPanic
