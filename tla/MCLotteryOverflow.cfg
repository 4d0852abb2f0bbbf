\* Ticket counts near the top of the int range: 64 = 2^(IntWidth-2) stands
\* for settickets(pid, 1 << 30) in the 32-bit kernel.
CONSTANTS
    IntWidth = 8
    N = 2
    TicketVals = {1, 64}
    BoostVals = {0, 1}
SPECIFICATION Spec
INVARIANT NoIdleWhileRunnable
