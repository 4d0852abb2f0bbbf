------------------------------ MODULE Lottery ------------------------------
(***************************************************************************)
(* The lottery draw of the scheduler in src/proc.c: the effective tickets  *)
(* of a descriptor, the per-round ticket total computed by scheduler()     *)
(* and the winner walk of hold_lottery().  Pure operators over a process   *)
(* table given as a set of RUNNABLE slots 1..N and the functions tickets   *)
(* and boostsleft.  C int arithmetic is kept at a width IntWidth: every    *)
(* sum and the doubling wrap in two's complement as the ARM build does.    *)
(* rand(), the linear congruential generator behind the draw, is kept at  *)
(* IntWidth - 1 bits like RAND_MAX.                                        *)
(***************************************************************************)
EXTENDS Integers, FiniteSets, Functions

CONSTANT IntWidth   \* bits of a C int (32 in the kernel; smaller for TLC)

ASSUME IntWidth \in Nat /\ IntWidth >= 4

IntMin == -(2^(IntWidth - 1))
IntMax == 2^(IntWidth - 1) - 1

\* Two's-complement wrap of a mathematical integer into a C int.
Wrap(x) == ((x - IntMin) % (2^IntWidth)) + IntMin

\* Mutant: the boost no longer doubles the tickets.
EffUnboosted(tickets, boostsleft, p) == tickets[p]

\* proc.c: int eff = p->tickets; if (p->boostsleft > 0) eff *= 2;
Eff(tickets, boostsleft, p) ==
    IF boostsleft[p] > 0 THEN Wrap(tickets[p] * 2) ELSE tickets[p]

\* scheduler(): total += eff over the RUNNABLE slots, wrapping on overflow.
TotalTickets(runnable, tickets, boostsleft) ==
    Wrap(FoldFunctionOnSet(+, 0,
            [p \in runnable |-> Eff(tickets, boostsleft, p)], runnable))

\* hold_lottery(): walk the table in slot order from slot i with the running
\* sum current; the first RUNNABLE slot whose sum exceeds the winning ticket
\* wins.  0 stands for "no winner" (the NULL return).
RECURSIVE LotteryWalk(_, _, _, _, _, _, _)
LotteryWalk(N, runnable, tickets, boostsleft, draw, i, current) ==
    IF i > N THEN 0
    ELSE IF i \notin runnable
         THEN LotteryWalk(N, runnable, tickets, boostsleft, draw, i + 1, current)
         ELSE LET c == Wrap(current + Eff(tickets, boostsleft, i))
              IN IF c > draw THEN i
                 ELSE LotteryWalk(N, runnable, tickets, boostsleft, draw, i + 1, c)

\* hold_lottery(total): no winner for a non-positive total, otherwise the
\* walk for the winning ticket draw = rand() % total.
HoldLottery(N, runnable, tickets, boostsleft, total, draw) ==
    IF total <= 0 THEN 0
    ELSE LotteryWalk(N, runnable, tickets, boostsleft, draw, 1, 0)

\* The winning tickets rand() % total can produce.  The rounds draw from
\* the LCG below in sequence; since it runs through every value of
\* [0, RAND_MAX] once per period, every residue comes up.
Draws(total) == IF total <= 0 THEN {} ELSE 0..(total - 1)

\* RAND_MAX is 0x7fffffff, INT_MAX of the build; rand() keeps the low
\* IntWidth - 1 bits, which the width-reduced generator keeps exactly.
RandMax == IntMax
RandMod == RandMax + 1

\* Mutant: the increment 12345 is dropped.
RandNoIncrement(seed) == (seed * (1103515245 % RandMod)) % RandMod

\* rand(): rseed = (rseed * 1103515245 + 12345) & RAND_MAX.  The mask makes
\* the uint wrap of the product irrelevant, so the constants are reduced
\* modulo RandMod first.
Rand(seed) == (seed * (1103515245 % RandMod) + (12345 % RandMod)) % RandMod

\* rand() called 2^j times in a row, as a function of the seed.
RECURSIVE RandPow(_)
RandPow(j) ==
    IF j = 0 THEN [seed \in 0..RandMax |-> Rand(seed)]
    ELSE LET f == RandPow(j - 1) IN [seed \in 0..RandMax |-> f[f[seed]]]

\* The values the first 2^j calls of rand() return from rseed = 0, its value
\* at boot (proc.c:12).
RECURSIVE RandReached(_)
RandReached(j) ==
    IF j = 0 THEN {Rand(0)}
    ELSE LET r == RandReached(j - 1) IN r \cup {RandPow(j - 1)[x] : x \in r}

=============================================================================
