\* Process lifecycle without threads: init plus up to three more
\* descriptors over the run, memory exhaustion possible.
CONSTANTS
    NPROC = 3
    MaxPid = 4
    MaxTicks = 2
    IntWidth = 8
    KillPids = {2, 3}
    TicketArgs = {2}
    SleepArgs = {1}
    AllocCanFail = TRUE
    JoinBeforeExit = FALSE
    TicksChan = TicksChan
SPECIFICATION ProcSpec
INVARIANT TypeOK
INVARIANT ParentLinkValid
INVARIANT NoMissedWakeup
INVARIANT TimerSleepersPending
PROPERTY OrphanZombieReaped
PROPERTY KilledProcessExits
PROPERTY ImplementsProcTree
