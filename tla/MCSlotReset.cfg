\* Freed slots: fork and thread_create may run out of memory, kill() is
\* called with pid 0, and threads are joined and their slots reused.
CONSTANTS
    NPROC = 3
    MaxPid = 5
    MaxTicks = 1
    IntWidth = 8
    KillPids = {0}
    TicketArgs = {2}
    SleepArgs = {1}
    AllocCanFail = TRUE
    JoinBeforeExit = TRUE
    TicksChan = TicksChan
SPECIFICATION Spec
INVARIANT UnusedSlotReset
