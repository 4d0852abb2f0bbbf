\* Threads: a main process whose threads create threads, join, exit and
\* timed sleep; no allocation failures; pids 1 to 4 (init, the main
\* thread, a thread and the thread it creates, or a forked child).
CONSTANTS
    NPROC = 4
    MaxPid = 4
    MaxTicks = 1
    IntWidth = 8
    KillPids = {}
    TicketArgs = {2}
    SleepArgs = {1}
    AllocCanFail = FALSE
    JoinBeforeExit = TRUE
    TicksChan = TicksChan
SPECIFICATION Spec
INVARIANT AddressSpaceLive
PROPERTY JoinedThreadReaped
