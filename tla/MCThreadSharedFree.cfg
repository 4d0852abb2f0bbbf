\* Threads: the main thread exits while a thread still runs.
CONSTANTS
    MaxTicks = 2
    IntWidth = 8
    TicketArgs = {2}
    SleepArgs = {1}
    TicksChan = TicksChan
    NPROC = 3
    MaxPid = 5
    KillPids = {2}
    AllocCanFail = FALSE
    JoinBeforeExit = FALSE
SPECIFICATION Spec
INVARIANT AddressSpaceLive
