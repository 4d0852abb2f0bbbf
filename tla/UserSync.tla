------------------------------ MODULE UserSync ------------------------------
(***************************************************************************)
(* The user-space synchronisation library of src/usr/ulib.c (the xchg spin *)
(* lock, condition variables and semaphores) over the channel system calls *)
(* of src/sysproc.c (sleepChan, sigOneChan, sigChan), used by the threads  *)
(* of one process, together with the kernel barrier of src/barrier.c.    *)
(*                                                                         *)
(* A semaphore client runs the loop semDown(&s); <critical section>;       *)
(* semUp(&s) on one semaphore s made by semInit(&s, InitVal); a barrier   *)
(* client calls barrier_check() once after barrier_init(BarrierN).  Each  *)
(* user step that touches shared memory (the lock word through xchg, or   *)
(* ctr under the lock) is one action; each system call is one atomic      *)
(* action, since the kernel runs it under its locks on the single CPU.    *)
(* The spin of acquireLock on a held lock changes nothing and is a        *)
(* stuttering step.  upc is where the thread is in the library code.      *)
(***************************************************************************)
EXTENDS Integers, FiniteSets, FiniteSetsExt

CONSTANTS Thr,          \* the threads of the process (thread slots, in
                        \* ptable order)
          InitVal,      \* initVal of semInit
          Broadcasters, \* semaphore clients that also call broadcast(&s.cv)
          BarrierClients, \* threads that call barrier_check() instead
          BarrierN      \* n of barrier_init(n)

ASSUME /\ Thr \subseteq Nat /\ Thr # {}
       /\ InitVal \in Nat
       /\ Broadcasters \subseteq Thr \ BarrierClients
       /\ BarrierClients \subseteq Thr
       /\ BarrierN \in Nat

\* Semaphore clients.
SemClients == Thr \ BarrierClients

\* getChannel() hands out nextchan++, starting at 3 (sysproc.c:25); semInit
\* is the first call, so the condition variable's channel is 3.
FirstChan == 3
NoChan == 0
\* The channel &bar: a kernel address, which no getChannel() value equals.
BarChan == -1

\* Program points of the library code a thread can be at.
UPCs == {"idle", "down_acq", "down_dec", "cw_rel", "cw_sleep", "cw_acq",
         "down_rel", "cs", "up_inc", "up_sig", "up_rel", "bc",
         "bar_wait", "past"}
\* Points at which the thread holds s.l.
Holding == {"down_dec", "cw_rel", "down_rel", "up_inc", "up_sig", "up_rel"}

VARIABLES
    lockvar,    \* s.l.lockvar
    ctr,        \* s.ctr
    cv,         \* s.cv.var
    nextchan,   \* nextchan of sysproc.c
    kstate,     \* p->state of each thread: "RUNNABLE" or "SLEEPING"
    kchan,      \* p->chan of each thread
    upc,        \* where each thread is in the library code
    panicked,   \* the kernel has stopped in panic()
    count, barN \* bar.count, bar.N of barrier.c

vars == <<lockvar, ctr, cv, nextchan, kstate, kchan, upc, panicked,
          count, barN>>

\* A thread executes user code only while the kernel may schedule it.
Running(t) == kstate[t] = "RUNNABLE" /\ ~panicked

\* Threads asleep on channel c.
Sleepers(c) == {t \in Thr : kstate[t] = "SLEEPING" /\ kchan[t] = c}

\* sys_getChannel() as the first call of the process makes it: under
\* ptable.lock, ch = nextchan++ returns nextchan's initial value.
GetChannel == FirstChan

\* initiateLock(&s->l): the lock word starts free.
InitiateLock == lockvar = 0

\* initiateCondVar(&s->cv): cv->var = getChannel(), which returns nextchan
\* and increments it; a negative channel (never returned before nextchan
\* wraps) would leave the condition variable uninitiated.
InitiateCondVar == cv = GetChannel /\ nextchan = GetChannel + 1

\* semInit(&s, InitVal): initiateLock, initiateCondVar, ctr; the threads
\* start RUNNABLE in user code.
SemInit ==
    /\ InitiateLock
    /\ InitiateCondVar
    /\ ctr = InitVal
    /\ kstate = [t \in Thr |-> "RUNNABLE"]
    /\ kchan = [t \in Thr |-> NoChan]
    /\ upc = [t \in Thr |-> "idle"]
    /\ panicked = FALSE

\* barrier_init(BarrierN), made before the clients start.
BarrierInit ==
    /\ count = 0
    /\ barN = BarrierN

Init == SemInit /\ BarrierInit

\* Move thread t from program point a to program point b.
Goto(t, a, b) == upc[t] = a /\ upc' = [upc EXCEPT ![t] = b]

-----------------------------------------------------------------------------
(* acquireLock / releaseLock                                               *)

\* while(xchg(&l->lockvar, 1) != 0) ;  -- the xchg that returns 0.
AcquireLock(t, a, b) == Goto(t, a, b) /\ lockvar = 0 /\ lockvar' = 1

\* xchg(&l->lockvar, 0).
ReleaseLock(t, a, b) == Goto(t, a, b) /\ lockvar' = 0

-----------------------------------------------------------------------------
(* semDown                                                                 *)

SemDownCall(t) == t \in SemClients /\ Goto(t, "idle", "down_acq")
    /\ UNCHANGED <<lockvar, ctr, cv, nextchan, kstate, kchan, panicked, count, barN>>

SemDownAcquire(t) == AcquireLock(t, "down_acq", "down_dec")
    /\ UNCHANGED <<ctr, cv, nextchan, kstate, kchan, panicked, count, barN>>

\* s->ctr--; if(s->ctr < 0) condWait(&s->cv, &s->l);
SemDownDec(t) ==
    /\ Goto(t, "down_dec", IF ctr - 1 < 0 THEN "cw_rel" ELSE "down_rel")
    /\ ctr' = ctr - 1
    /\ UNCHANGED <<lockvar, cv, nextchan, kstate, kchan, panicked, count, barN>>

\* condWait: releaseLock(l); sleepChan(cv->var); acquireLock(l);
CondWaitRelease(t) == ReleaseLock(t, "cw_rel", "cw_sleep")
    /\ UNCHANGED <<ctr, cv, nextchan, kstate, kchan, panicked, count, barN>>

\* Mutant: condWait passes the condition variable's address instead of
\* cv->var, so the thread sleeps on a channel no signal names.
SleepChanWrongChan(t) ==
    /\ Goto(t, "cw_sleep", "cw_acq")
    /\ kstate' = [kstate EXCEPT ![t] = "SLEEPING"]
    /\ kchan' = [kchan EXCEPT ![t] = nextchan]
    /\ UNCHANGED <<lockvar, ctr, cv, nextchan, panicked, count, barN>>

\* sys_sleepChan: sleep((void*)ch, &ptable.lock) -- the thread blocks until
\* a signal makes it RUNNABLE again, then returns to condWait.
SleepChan(t) ==
    /\ Goto(t, "cw_sleep", "cw_acq")
    /\ kstate' = [kstate EXCEPT ![t] = "SLEEPING"]
    /\ kchan' = [kchan EXCEPT ![t] = cv]
    /\ UNCHANGED <<lockvar, ctr, cv, nextchan, panicked, count, barN>>

\* Mutant: condWait returns without reacquiring the lock.
CondWaitNoReacquire(t) ==
    /\ Goto(t, "cw_acq", "down_rel")
    /\ UNCHANGED <<lockvar, ctr, cv, nextchan, kstate, kchan, panicked, count, barN>>

CondWaitAcquire(t) == AcquireLock(t, "cw_acq", "down_rel")
    /\ UNCHANGED <<ctr, cv, nextchan, kstate, kchan, panicked, count, barN>>

\* releaseLock(&s->l) at the end of semDown; the caller is in its critical
\* section.
SemDownRelease(t) == ReleaseLock(t, "down_rel", "cs")
    /\ UNCHANGED <<ctr, cv, nextchan, kstate, kchan, panicked, count, barN>>

-----------------------------------------------------------------------------
(* semUp                                                                   *)

\* semUp(&s) from the critical section: acquireLock(&s->l).
SemUpAcquire(t) == AcquireLock(t, "cs", "up_inc")
    /\ UNCHANGED <<ctr, cv, nextchan, kstate, kchan, panicked, count, barN>>

\* s->ctr++; if(s->ctr <= 0) signal(&s->cv);
SemUpInc(t) ==
    /\ Goto(t, "up_inc", IF ctr + 1 <= 0 THEN "up_sig" ELSE "up_rel")
    /\ ctr' = ctr + 1
    /\ UNCHANGED <<lockvar, cv, nextchan, kstate, kchan, panicked, count, barN>>

\* Mutant: the single-target wakeup releases every sleeper on the channel.
SigOneChanWakesAll(t) ==
    /\ Goto(t, "up_sig", "up_rel")
    /\ kstate' = [u \in Thr |-> IF u \in Sleepers(cv) THEN "RUNNABLE"
                                                       ELSE kstate[u]]
    /\ kchan' = [u \in Thr |-> IF u \in Sleepers(cv) THEN NoChan ELSE kchan[u]]
    /\ UNCHANGED <<lockvar, ctr, cv, nextchan, panicked, count, barN>>

\* signal(&s->cv) is sys_sigOneChan: the first thread in table order asleep
\* on the channel becomes RUNNABLE and its chan is cleared; with no sleeper
\* it does nothing.
SigOneChan(t) ==
    /\ Goto(t, "up_sig", "up_rel")
    /\ IF Sleepers(cv) = {}
         THEN UNCHANGED <<kstate, kchan>>
         ELSE LET w == Min(Sleepers(cv))
              IN /\ kstate' = [kstate EXCEPT ![w] = "RUNNABLE"]
                 /\ kchan' = [kchan EXCEPT ![w] = NoChan]
    /\ UNCHANGED <<lockvar, ctr, cv, nextchan, panicked, count, barN>>

SemUpRelease(t) == ReleaseLock(t, "up_rel", "idle")
    /\ UNCHANGED <<ctr, cv, nextchan, kstate, kchan, panicked, count, barN>>

-----------------------------------------------------------------------------
(* broadcast                                                               *)

\* broadcast(&s.cv) is sys_sigChan: acquire(&ptable.lock) and then
\* wakeup(ch), whose own acquire(&ptable.lock) finds the lock held by this
\* CPU and panics ("acquire"); no sleeper is woken.
SigChan(t) ==
    /\ t \in Broadcasters
    /\ Goto(t, "idle", "bc")
    /\ panicked' = TRUE
    /\ UNCHANGED <<lockvar, ctr, cv, nextchan, kstate, kchan, count, barN>>

-----------------------------------------------------------------------------

-----------------------------------------------------------------------------
(* barrier_check                                                           *)

\* wakeup(chan): under ptable.lock, wakeup1 makes every thread asleep on
\* chan RUNNABLE (its chan is cleared when it returns from sleep()).
Wakeup(c) ==
    kstate' = [u \in Thr |-> IF u \in Sleepers(c) THEN "RUNNABLE" ELSE kstate[u]]

\* Mutant: the caller before the last one already counts as the last.
BarrierCheckEarly(t) ==
    /\ t \in BarrierClients
    /\ count' = count + 1
    /\ IF count + 1 < barN - 1
         THEN /\ Goto(t, "idle", "bar_wait")
              /\ kstate' = [kstate EXCEPT ![t] = "SLEEPING"]
              /\ kchan' = [kchan EXCEPT ![t] = BarChan]
         ELSE /\ Goto(t, "idle", "past")
              /\ Wakeup(BarChan)
              /\ UNCHANGED kchan
    /\ UNCHANGED <<lockvar, ctr, cv, nextchan, panicked, barN>>

\* Mutant: the last caller also goes to sleep.
BarrierCheckLastSleeps(t) ==
    /\ t \in BarrierClients
    /\ count' = count + 1
    /\ IF count + 1 <= barN
         THEN /\ Goto(t, "idle", "bar_wait")
              /\ kstate' = [kstate EXCEPT ![t] = "SLEEPING"]
              /\ kchan' = [kchan EXCEPT ![t] = BarChan]
         ELSE /\ Goto(t, "idle", "past")
              /\ Wakeup(BarChan)
              /\ UNCHANGED kchan
    /\ UNCHANGED <<lockvar, ctr, cv, nextchan, panicked, barN>>

\* barrier_check(): under bar.lock, count++; below N the caller sleeps on
\* &bar (sleep() takes ptable.lock before it lets bar.lock go, so no
\* wakeup is missed); the caller that reaches N wakes every sleeper on &bar
\* (wakeup1 leaves their chan for sleep() to clear) and returns.
BarrierCheck(t) ==
    /\ t \in BarrierClients
    /\ count' = count + 1
    /\ IF count + 1 < barN
         THEN /\ Goto(t, "idle", "bar_wait")
              /\ kstate' = [kstate EXCEPT ![t] = "SLEEPING"]
              /\ kchan' = [kchan EXCEPT ![t] = BarChan]
         ELSE /\ Goto(t, "idle", "past")
              /\ Wakeup(BarChan)
              /\ UNCHANGED kchan
    /\ UNCHANGED <<lockvar, ctr, cv, nextchan, panicked, barN>>

\* A woken barrier sleeper: sleep() clears its chan, reacquires bar.lock,
\* and barrier_check releases it and returns 0.
BarrierResume(t) ==
    /\ Goto(t, "bar_wait", "past")
    /\ kchan' = [kchan EXCEPT ![t] = NoChan]
    /\ UNCHANGED <<lockvar, ctr, cv, nextchan, kstate, panicked, count, barN>>

-----------------------------------------------------------------------------

\* The scheduler loop when no thread has anything left to run (every thread
\* asleep, or past the barrier and gone): it finds nothing to do and goes
\* round again.
Idle ==
    /\ ~panicked
    /\ \A t \in Thr : kstate[t] = "SLEEPING" \/ upc[t] = "past"
    /\ UNCHANGED vars

SemStep(t) ==
    \/ SemDownCall(t)
    \/ SemDownAcquire(t)
    \/ SemDownDec(t)
    \/ CondWaitRelease(t)
    \/ SleepChan(t)
    \/ CondWaitAcquire(t)
    \/ SemDownRelease(t)
    \/ SemUpAcquire(t)
    \/ SemUpInc(t)
    \/ SigOneChan(t)
    \/ SemUpRelease(t)

BarrierStep(t) == BarrierCheck(t) \/ BarrierResume(t)

ThreadStep(t) == Running(t) /\ (SemStep(t) \/ BarrierStep(t))

\* Semaphore and barrier clients.
LibNext == Idle \/ \E t \in Thr : ThreadStep(t)
\* Broadcasters as well.
Next == LibNext \/ \E t \in Thr : Running(t) /\ SigChan(t)

\* The lottery gives a thread that stays RUNNABLE a chance in every round,
\* so a barrier client that can move eventually does.
Fairness == \A t \in BarrierClients : SF_vars(Running(t) /\ BarrierStep(t))

LibSpec == Init /\ [][LibNext]_vars /\ Fairness
Spec == Init /\ [][Next]_vars /\ Fairness

-----------------------------------------------------------------------------
(* Properties                                                              *)

TypeOK ==
    /\ lockvar \in {0, 1}
    /\ ctr \in Int
    /\ kstate \in [Thr -> {"RUNNABLE", "SLEEPING"}]
    /\ kchan \in [Thr -> {NoChan, cv, BarChan}]
    /\ upc \in [Thr -> UPCs]
    /\ panicked \in BOOLEAN
    /\ count \in Nat

\* The xchg spin lock is exclusive and its word tells the truth: at most one
\* thread is between a successful acquireLock and its releaseLock, and
\* lockvar is 1 exactly when one is -- condWait gives the lock up before
\* sleepChan and takes it again after.
LockExclusive ==
    /\ Cardinality({t \in Thr : upc[t] \in Holding}) <= 1
    /\ (lockvar = 1) = (\E t \in Thr : upc[t] \in Holding)

\* The semaphore admits at most InitVal threads to the critical section at
\* once: every sleeper that signal() releases matches one semUp.
SemaphoreBound ==
    Cardinality({t \in Thr : upc[t] = "cs"}) <= InitVal

\* No lost wakeup: every thread asleep on the semaphore's channel still has
\* a unit of debt in ctr that a later semUp will signal, so the number of
\* sleepers never exceeds -ctr.  semDown releases s.l in condWait before its
\* sleepChan, and a semUp in between signals a channel nobody sleeps on.
SleeperHasDebt ==
    Cardinality(Sleepers(cv)) <= IF ctr < 0 THEN -ctr ELSE 0

\* Barrier exactness: no client returns from barrier_check() before the
\* N-th call has been made.
BarrierExact ==
    \A t \in BarrierClients : upc[t] = "past" => count >= barN

\* Once N clients call barrier_check(), each of them eventually returns:
\* the N-th call wakes every earlier one.
BarrierReleasesAll ==
    Cardinality(BarrierClients) >= BarrierN =>
        \A t \in BarrierClients : <>(upc[t] = "past")

=============================================================================
