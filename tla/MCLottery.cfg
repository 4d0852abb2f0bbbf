CONSTANTS
    IntWidth = 8
    N = 3
    TicketVals = {1, 2, 3}
    BoostVals = {0, 1, 2}
SPECIFICATION Spec
INVARIANT TypeOK
INVARIANT LotteryMatchesReference
INVARIANT RandDrawsEveryTicket
