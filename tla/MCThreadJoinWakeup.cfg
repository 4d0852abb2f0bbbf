\* Threads: a thread created by a thread leaves through exit() while the
\* main thread sleeps in thread_join() for it.
CONSTANTS
    NPROC = 4
    MaxPid = 5
    MaxTicks = 1
    IntWidth = 8
    KillPids = {}
    TicketArgs = {2}
    SleepArgs = {1}
    AllocCanFail = FALSE
    JoinBeforeExit = TRUE
    TicksChan = TicksChan
SPECIFICATION Spec
INVARIANT NoMissedWakeup
