----------------------------- MODULE MCLottery -----------------------------
(***************************************************************************)
(* Model of the lottery scheduling round of scheduler() in src/proc.c over *)
(* every process table of N slots with ticket counts from TicketVals and   *)
(* boost credits from BoostVals.  One step is one round: draw a winning    *)
(* ticket, pick the winner with hold_lottery(), consume one boost credit   *)
(* of the winner; the winner is then preempted back to RUNNABLE.           *)
(***************************************************************************)
EXTENDS Lottery

CONSTANTS N,           \* NPROC, the slots of the table
          TicketVals,  \* ticket counts settickets() may have installed
          BoostVals    \* boost credits the timer wakeup may have granted

Slot == 1..N

VARIABLES runnable, tickets, boostsleft, winner
vars == <<runnable, tickets, boostsleft, winner>>

Total == TotalTickets(runnable, tickets, boostsleft)

Init ==
    /\ runnable \in SUBSET Slot
    /\ tickets \in [Slot -> TicketVals]
    /\ boostsleft \in [Slot -> BoostVals]
    /\ winner = 0

\* Mutant: the winner's credit is consumed without checking boostsleft > 0.
RoundUnguarded ==
    /\ Total > 0
    /\ \E d \in Draws(Total) :
         LET w == HoldLottery(N, runnable, tickets, boostsleft, Total, d)
         IN /\ winner' = w
            /\ boostsleft' = IF w # 0 THEN [boostsleft EXCEPT ![w] = @ - 1]
                             ELSE boostsleft
    /\ UNCHANGED <<runnable, tickets>>

\* scheduler(): compute the total, and when it is positive hold the lottery;
\* the winner runs (runticks++ is not observed here) and consumes one boost.
Round ==
    /\ Total > 0
    /\ \E d \in Draws(Total) :
         LET w == HoldLottery(N, runnable, tickets, boostsleft, Total, d)
         IN /\ winner' = w
            /\ boostsleft' = IF w # 0 /\ boostsleft[w] > 0
                             THEN [boostsleft EXCEPT ![w] = @ - 1]
                             ELSE boostsleft
    /\ UNCHANGED <<runnable, tickets>>

\* scheduler(): a round whose total is not positive selects nobody.
Idle ==
    /\ Total <= 0
    /\ winner' = 0
    /\ UNCHANGED <<runnable, tickets, boostsleft>>

Next == Round \/ Idle

Spec == Init /\ [][Next]_vars

-----------------------------------------------------------------------------
TypeOK ==
    /\ runnable \subseteq Slot
    /\ tickets \in [Slot -> TicketVals]
    /\ boostsleft \in [Slot -> BoostVals]
    /\ winner \in Slot \cup {0}

\* Reference lottery, in unbounded arithmetic: the runnable slots lay their
\* effective tickets end to end in slot order; draw d belongs to the slot
\* whose interval [before, before + eff) contains it.
RefEff(p) == IF boostsleft[p] > 0 THEN 2 * tickets[p] ELSE tickets[p]
RefBefore(p) == FoldFunctionOnSet(+, 0, [q \in runnable |-> RefEff(q)],
                                  {q \in runnable : q < p})
RefWinner(d) ==
    IF \E p \in runnable : RefBefore(p) <= d /\ d < RefBefore(p) + RefEff(p)
    THEN CHOOSE p \in runnable : RefBefore(p) <= d /\ d < RefBefore(p) + RefEff(p)
    ELSE 0

\* hold_lottery() and the total of scheduler() agree with the reference
\* lottery on every winning ticket rand() % total can yield: every draw has a
\* runnable winner and each runnable slot wins exactly as many of the total
\* draws as its effective tickets, which is the ticket-proportionality the
\* scheduler promises.
LotteryMatchesReference ==
    Total > 0 =>
      /\ \A d \in Draws(Total) :
           HoldLottery(N, runnable, tickets, boostsleft, Total, d) = RefWinner(d)
      /\ \A p \in runnable :
           Cardinality({d \in Draws(Total) :
                HoldLottery(N, runnable, tickets, boostsleft, Total, d) = p})
             = RefEff(p)

\* The values of one period of rand() from the boot seed.
RandCycle == RandReached(IntWidth - 1)

\* The fairness the scheduler relies on: within RAND_MAX + 1 rounds rand()
\* returns every value of [0, RAND_MAX], so every seed sys_srand() can
\* install lies on the same cycle, and rand() % total yields every winning
\* ticket of the round's total: a descriptor that stays RUNNABLE with
\* tickets wins a round within one period.
RandDrawsEveryTicket ==
    Total > 0 =>
        /\ RandCycle = 0..RandMax
        /\ {x % Total : x \in RandCycle} = Draws(Total)

\* Whenever some descriptor is RUNNABLE, a scheduling round selects one: the
\* CPU never idles while work is runnable.
NoIdleWhileRunnable == runnable # {} => Total > 0

=============================================================================
