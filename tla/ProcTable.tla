----------------------------- MODULE ProcTable -----------------------------
(***************************************************************************)
(* The process table of src/proc.c on the single CPU the kernel supports  *)
(* (proc.h: "now we only support one CPU"): descriptor allocation, fork,  *)
(* exit, wait, kill, settickets, the lottery scheduler and yield, the     *)
(* sleep/wakeup channel mechanism, the timed sleep of sys_sleep() in      *)
(* src/sysproc.c with its fairness boost, and the thread calls            *)
(* thread_create, thread_exit and thread_join.                            *)
(*                                                                         *)
(* Every system call runs under ptable.lock or with interrupts off on the *)
(* one CPU, so each is one atomic step up to its sleep() call; a call that *)
(* sleeps is resumed by a separate step when the scheduler picks the      *)
(* descriptor again, recorded in pc.  A call that only returns an error   *)
(* and changes nothing is a stuttering step and is not written out.       *)
(***************************************************************************)
EXTENDS Integers, FiniteSets, FiniteSetsExt

CONSTANTS NPROC,        \* slots of ptable.proc
          MaxPid,       \* bound on nextpid (pids are never reused)
          MaxTicks,     \* bound on the timer tick count
          IntWidth,     \* bits of a C int in the lottery arithmetic
          KillPids,     \* pid arguments of kill()
          TicketArgs,   \* n arguments of settickets()
          SleepArgs,    \* n arguments of sleep()
          AllocCanFail, \* whether alloc_page()/copyuvm() may run out of memory
          JoinBeforeExit, \* client discipline: a main joins its threads first
          TicksChan     \* model value: the channel &ticks

ASSUME /\ NPROC \in Nat \ {0}
       /\ MaxPid \in Nat
       /\ MaxTicks \in Nat
       /\ SleepArgs \subseteq Nat \ {0}
       /\ AllocCanFail \in BOOLEAN
       /\ JoinBeforeExit \in BOOLEAN

LOCAL L == INSTANCE Lottery

Slot == 1..NPROC
NoProc == 0                \* the null struct proc pointer
NoChan == 0                \* p->chan == 0: not sleeping on anything
InitSlot == 1              \* userinit() takes the first slot
States == {"UNUSED", "EMBRYO", "SLEEPING", "RUNNABLE", "RUNNING", "ZOMBIE"}
\* Where a descriptor's kernel code resumes when it is next given the CPU:
\* in user mode, or inside the sleep() loop of wait, thread_join or sleep.
PCs == {"user", "wait", "join", "sleep"}

VARIABLES
    state, pid, parent, killed, chan,       \* struct proc lifecycle fields
    tickets, boostsleft,                    \* lottery fields
    sleepticks, sleeptarget,                \* timed-sleep fields
    is_thread, main_thread,                 \* thread fields
    kstack,                                 \* p->kstack != 0
    pgdir,                                  \* the address space p->pgdir names
    pc, sysarg, ticks0,                     \* resume point and call locals
    cur,                                    \* proc: the descriptor on the CPU
    nextpid, ticks,                         \* globals of proc.c and trap.c
    freed                                   \* address spaces freevm() released

procVars == <<state, pid, parent, killed, chan, tickets, boostsleft,
              sleepticks, sleeptarget, is_thread, main_thread, kstack, pgdir>>
vars == <<procVars, pc, sysarg, ticks0, cur, nextpid, ticks, freed>>

-----------------------------------------------------------------------------
(* Helpers over the table                                                  *)

\* allocproc(): the first UNUSED slot in table order, NoProc if none.
FirstUnused ==
    IF \E p \in Slot : state[p] = "UNUSED"
    THEN Min({p \in Slot : state[p] = "UNUSED"}) ELSE NoProc

\* The loops of kill() and settickets(): the first slot whose pid matches.
PidSlot(k) ==
    IF \E p \in Slot : pid[p] = k THEN Min({p \in Slot : pid[p] = k}) ELSE NoProc

\* wakeup1(chan) for a channel other than &ticks: every descriptor SLEEPING
\* on it becomes RUNNABLE.
WakeAll(st, c) ==
    [p \in Slot |-> IF st[p] = "SLEEPING" /\ chan[p] = c THEN "RUNNABLE" ELSE st[p]]

\* Mutant: wait() takes every other non-thread descriptor for its child.
KidsAnyParent(s) == {p \in Slot : p # s /\ ~is_thread[p]}

\* The children wait() looks at: parent == proc and not a spawned thread.
Kids(s) == {p \in Slot : parent[p] = s /\ ~is_thread[p]}

\* allocproc(): p->tickets = proc->parent->tickets, or 1 with no parent.
InheritedTickets(s) == IF parent[s] # NoProc THEN tickets[parent[s]] ELSE 1

\* sys_sleep(): while (ticks - ticks0 < n), an unsigned comparison.
StillSleeping(s) == ticks - ticks0[s] < sysarg[s]

RunnableSet == {p \in Slot : state[p] = "RUNNABLE"}
Total == L!TotalTickets(RunnableSet, tickets, boostsleft)
\* hold_lottery(total) for each winning ticket rand() % total can yield.
Winners == {L!HoldLottery(NPROC, RunnableSet, tickets, boostsleft, Total, d) :
                d \in L!Draws(Total)} \ {NoProc}

\* sched(): the descriptor on the CPU, holding only ptable.lock and no
\* longer RUNNING, switches to the scheduler loop; proc is cleared there.
Sched == cur' = NoProc

\* sleep(chan, lk) by s up to its sched(): with ptable.lock held (taken
\* before lk is released, so no wakeup can slip in between), p->chan =
\* chan and p->state = SLEEPING.  The chan = 0 after sched() returns is
\* done by the step that resumes s.
Sleep(s, c) ==
    /\ state' = [state EXCEPT ![s] = "SLEEPING"]
    /\ chan' = [chan EXCEPT ![s] = c]
    /\ Sched

\* The client discipline JoinBeforeExit: a process exits of its own accord
\* only once no thread of its own is left in the table (a killed process is
\* made to exit by trap.c regardless).
ClientMayExit(s) ==
    JoinBeforeExit =>
        killed[s] \/ ~\E t \in Slot : state[t] # "UNUSED" /\ is_thread[t]
                                      /\ main_thread[t] = s

\* A system call may start only in user mode, and a killed descriptor
\* returning to user mode exits instead (trap.c).
InUser(s) == cur = s /\ pc[s] = "user" /\ ~killed[s]

-----------------------------------------------------------------------------
Init ==
    \* userinit(): slot 1 becomes the RUNNABLE initcode process, pid 1.
    /\ state = [p \in Slot |-> IF p = InitSlot THEN "RUNNABLE" ELSE "UNUSED"]
    /\ pid = [p \in Slot |-> IF p = InitSlot THEN 1 ELSE 0]
    /\ parent = [p \in Slot |-> NoProc]
    /\ killed = [p \in Slot |-> FALSE]
    /\ chan = [p \in Slot |-> NoChan]
    /\ tickets = [p \in Slot |-> IF p = InitSlot THEN 1 ELSE 0]
    /\ boostsleft = [p \in Slot |-> 0]
    /\ sleepticks = [p \in Slot |-> 0]
    /\ sleeptarget = [p \in Slot |-> 0]
    /\ is_thread = [p \in Slot |-> FALSE]
    /\ main_thread = [p \in Slot |-> NoProc]
    /\ kstack = [p \in Slot |-> p = InitSlot]
    /\ pgdir = [p \in Slot |-> IF p = InitSlot THEN 1 ELSE 0]
    /\ pc = [p \in Slot |-> "user"]
    /\ sysarg = [p \in Slot |-> 0]
    /\ ticks0 = [p \in Slot |-> 0]
    /\ cur = NoProc
    /\ nextpid = 2
    /\ ticks = 0
    /\ freed = {}

-----------------------------------------------------------------------------
(* Process lifecycle                                                       *)

\* fork(): allocproc() marks the first UNUSED slot EMBRYO with pid
\* nextpid++, gets a kernel stack and sets tickets from the caller's parent
\* and boostsleft = 0; copyuvm() then makes a fresh copy of the caller's
\* address space; the child gets parent = proc and becomes RUNNABLE.
\* killed, is_thread and main_thread of the slot are left as they were.
\* Either allocation may fail: allocproc() then puts the slot back to
\* UNUSED, and fork() frees the kernel stack and does the same; neither
\* path clears the pid already given to the slot.
Fork(s) ==
    LET u == FirstUnused IN
    /\ InUser(s)
    /\ u # NoProc
    /\ nextpid <= MaxPid
    /\ nextpid' = nextpid + 1
    /\ pid' = [pid EXCEPT ![u] = nextpid]
    /\ \/ \* alloc_page() for the kernel stack fails in allocproc()
          /\ AllocCanFail
          /\ UNCHANGED <<state, parent, tickets, boostsleft, kstack, pgdir>>
       \/ \* copyuvm() fails: the kernel stack is freed, the slot UNUSED
          /\ AllocCanFail
          /\ tickets' = [tickets EXCEPT ![u] = InheritedTickets(s)]
          /\ boostsleft' = [boostsleft EXCEPT ![u] = 0]
          /\ UNCHANGED <<state, parent, kstack, pgdir>>
       \/ \* the child is RUNNABLE with its own copy of the address space
          /\ state' = [state EXCEPT ![u] = "RUNNABLE"]
          /\ parent' = [parent EXCEPT ![u] = s]
          /\ tickets' = [tickets EXCEPT ![u] = InheritedTickets(s)]
          /\ boostsleft' = [boostsleft EXCEPT ![u] = 0]
          /\ kstack' = [kstack EXCEPT ![u] = TRUE]
          /\ pgdir' = [pgdir EXCEPT ![u] = nextpid]
    /\ UNCHANGED <<killed, chan, sleepticks, sleeptarget, is_thread,
                   main_thread, pc, sysarg, ticks0, cur, ticks, freed>>

\* Mutant: the children are left pointing at the exiting descriptor.
ExitNoReparent(s) ==
    /\ cur = s
    /\ pc[s] = "user"
    /\ s # InitSlot
    /\ state' = [WakeAll(state, parent[s]) EXCEPT ![s] = "ZOMBIE"]
    /\ Sched
    /\ UNCHANGED <<pid, parent, killed, chan, tickets, boostsleft, sleepticks,
                   sleeptarget, is_thread, main_thread, kstack, pgdir,
                   pc, sysarg, ticks0, nextpid, ticks, freed>>

\* Mutant: the parent sleeping in wait() is not woken.
ExitNoParentWake(s) ==
    LET children == {p \in Slot : parent[p] = s}
        st2 == IF \E p \in children : state[p] = "ZOMBIE"
               THEN WakeAll(state, InitSlot) ELSE state
    IN
    /\ cur = s
    /\ pc[s] = "user"
    /\ s # InitSlot
    /\ state' = [st2 EXCEPT ![s] = "ZOMBIE"]
    /\ parent' = [p \in Slot |-> IF p \in children THEN InitSlot ELSE parent[p]]
    /\ Sched
    /\ UNCHANGED <<pid, killed, chan, tickets, boostsleft, sleepticks,
                   sleeptarget, is_thread, main_thread, kstack, pgdir,
                   pc, sysarg, ticks0, nextpid, ticks, freed>>

\* exit(): (init never exits: it would panic.)  Under ptable.lock, wake the
\* parent sleeping in wait(), hand every child to init, waking init if one
\* of them is already a zombie, become ZOMBIE and enter the scheduler.
\* Reached from user mode by the call, or by trap.c for a killed process.
Exit(s) ==
    LET children == {p \in Slot : parent[p] = s}
        st1 == WakeAll(state, parent[s])
        st2 == IF \E p \in children : state[p] = "ZOMBIE"
               THEN WakeAll(st1, InitSlot) ELSE st1
    IN
    /\ cur = s
    /\ pc[s] = "user"
    /\ s # InitSlot
    /\ ClientMayExit(s)
    /\ state' = [st2 EXCEPT ![s] = "ZOMBIE"]
    /\ parent' = [p \in Slot |-> IF p \in children THEN InitSlot ELSE parent[p]]
    /\ Sched
    /\ UNCHANGED <<pid, killed, chan, tickets, boostsleft, sleepticks,
                   sleeptarget, is_thread, main_thread, kstack, pgdir,
                   pc, sysarg, ticks0, nextpid, ticks, freed>>

\* Mutant: the reaped child's slot is not set back to UNUSED.
WaitKeepsZombie(s) ==
    LET zombies == {p \in Kids(s) : state[p] = "ZOMBIE"}
        z == Min(zombies)
    IN
    /\ cur = s
    /\ \/ pc[s] = "wait"
       \/ InUser(s)
    /\ \/ /\ zombies # {}
          /\ pid' = [pid EXCEPT ![z] = 0]
          /\ parent' = [parent EXCEPT ![z] = NoProc]
          /\ killed' = [killed EXCEPT ![z] = FALSE]
          /\ kstack' = [kstack EXCEPT ![z] = FALSE]
          /\ freed' = freed \cup {pgdir[z]}
          /\ chan' = [chan EXCEPT ![s] = NoChan]
          /\ pc' = [pc EXCEPT ![s] = "user"]
          /\ UNCHANGED <<state, cur>>
       \/ /\ zombies = {}
          /\ Kids(s) = {} \/ killed[s]
          /\ chan' = [chan EXCEPT ![s] = NoChan]
          /\ pc' = [pc EXCEPT ![s] = "user"]
          /\ UNCHANGED <<state, pid, parent, killed, kstack, freed, cur>>
       \/ /\ zombies = {}
          /\ Kids(s) # {}
          /\ ~killed[s]
          /\ Sleep(s, s)
          /\ pc' = [pc EXCEPT ![s] = "wait"]
          /\ UNCHANGED <<pid, parent, killed, kstack, freed>>
    /\ UNCHANGED <<tickets, boostsleft, sleepticks, sleeptarget, is_thread,
                   main_thread, pgdir, sysarg, ticks0, nextpid, ticks>>

\* wait(): one pass of its loop, entered from user mode or on being resumed
\* after sleep(proc, &ptable.lock), which first clears p->chan.  Reap the
\* first ZOMBIE child in table order (free its kernel stack and address
\* space, reset state, pid, parent and killed); else return -1 with no
\* children or when killed; else sleep on the caller itself.
Wait(s) ==
    LET zombies == {p \in Kids(s) : state[p] = "ZOMBIE"}
        z == Min(zombies)
    IN
    /\ cur = s
    /\ \/ pc[s] = "wait"
       \/ InUser(s)
    /\ \/ /\ zombies # {}
          /\ state' = [state EXCEPT ![z] = "UNUSED"]
          /\ pid' = [pid EXCEPT ![z] = 0]
          /\ parent' = [parent EXCEPT ![z] = NoProc]
          /\ killed' = [killed EXCEPT ![z] = FALSE]
          /\ kstack' = [kstack EXCEPT ![z] = FALSE]
          /\ freed' = freed \cup {pgdir[z]}
          /\ chan' = [chan EXCEPT ![s] = NoChan]
          /\ pc' = [pc EXCEPT ![s] = "user"]
          /\ UNCHANGED cur
       \/ /\ zombies = {}
          /\ Kids(s) = {} \/ killed[s]
          /\ chan' = [chan EXCEPT ![s] = NoChan]
          /\ pc' = [pc EXCEPT ![s] = "user"]
          /\ UNCHANGED <<state, pid, parent, killed, kstack, freed, cur>>
       \/ /\ zombies = {}
          /\ Kids(s) # {}
          /\ ~killed[s]
          /\ Sleep(s, s)
          /\ pc' = [pc EXCEPT ![s] = "wait"]
          /\ UNCHANGED <<pid, parent, killed, kstack, freed>>
    /\ UNCHANGED <<tickets, boostsleft, sleepticks, sleeptarget, is_thread,
                   main_thread, pgdir, sysarg, ticks0, nextpid, ticks>>

\* Mutant: kill() sets the flag but leaves a SLEEPING target asleep.
KillNoWake(s, k) ==
    LET p == PidSlot(k) IN
    /\ InUser(s)
    /\ p # NoProc
    /\ killed' = [killed EXCEPT ![p] = TRUE]
    /\ UNCHANGED <<state, pid, parent, chan, tickets, boostsleft, sleepticks,
                   sleeptarget, is_thread, main_thread, kstack, pgdir,
                   pc, sysarg, ticks0, cur, nextpid, ticks, freed>>

\* kill(pid): the first slot in table order whose pid matches, whatever its
\* state, gets killed = 1 and is made RUNNABLE if SLEEPING.
Kill(s, k) ==
    LET p == PidSlot(k) IN
    /\ InUser(s)
    /\ p # NoProc
    /\ killed' = [killed EXCEPT ![p] = TRUE]
    /\ state' = IF state[p] = "SLEEPING"
                THEN [state EXCEPT ![p] = "RUNNABLE"] ELSE state
    /\ UNCHANGED <<pid, parent, chan, tickets, boostsleft, sleepticks,
                   sleeptarget, is_thread, main_thread, kstack, pgdir,
                   pc, sysarg, ticks0, cur, nextpid, ticks, freed>>

\* settickets(pid, n): n <= 0 is refused; otherwise the first slot whose
\* pid matches gets n tickets.
SetTickets(s, k, n) ==
    LET p == PidSlot(k) IN
    /\ InUser(s)
    /\ n > 0
    /\ p # NoProc
    /\ tickets' = [tickets EXCEPT ![p] = n]
    /\ UNCHANGED <<state, pid, parent, killed, chan, boostsleft, sleepticks,
                   sleeptarget, is_thread, main_thread, kstack, pgdir,
                   pc, sysarg, ticks0, cur, nextpid, ticks, freed>>

-----------------------------------------------------------------------------
(* Scheduling, timed sleep and the timer                                   *)

\* yield(), called by trap.c on a timer interrupt in user mode.
Yield(s) ==
    /\ InUser(s)
    /\ state' = [state EXCEPT ![s] = "RUNNABLE"]
    /\ Sched
    /\ UNCHANGED <<pid, parent, killed, chan, tickets, boostsleft, sleepticks,
                   sleeptarget, is_thread, main_thread, kstack, pgdir,
                   pc, sysarg, ticks0, nextpid, ticks, freed>>

\* Mutant: the winner's boost credit is consumed without checking it is > 0.
ScheduleUnguarded(w) ==
    /\ cur = NoProc
    /\ w \in Winners
    /\ state' = [state EXCEPT ![w] = "RUNNING"]
    /\ boostsleft' = [boostsleft EXCEPT ![w] = @ - 1]
    /\ cur' = w
    /\ UNCHANGED <<pid, parent, killed, chan, tickets, sleepticks,
                   sleeptarget, is_thread, main_thread, kstack, pgdir,
                   pc, sysarg, ticks0, nextpid, ticks, freed>>

\* scheduler(): with the CPU idle, a lottery round over the RUNNABLE slots
\* that hold_lottery() resolves to w: w becomes RUNNING, consumes one boost
\* credit if it has any, and is switched to.
Schedule(w) ==
    /\ cur = NoProc
    /\ w \in Winners
    /\ state' = [state EXCEPT ![w] = "RUNNING"]
    /\ boostsleft' = IF boostsleft[w] > 0
                     THEN [boostsleft EXCEPT ![w] = @ - 1] ELSE boostsleft
    /\ cur' = w
    /\ UNCHANGED <<pid, parent, killed, chan, tickets, sleepticks,
                   sleeptarget, is_thread, main_thread, kstack, pgdir,
                   pc, sysarg, ticks0, nextpid, ticks, freed>>

\* scheduler(): a round in which hold_lottery() finds no winner (the total
\* is not positive) releases the lock and polls again.
Idle ==
    /\ cur = NoProc
    /\ Winners = {}
    /\ UNCHANGED vars

\* sys_sleep(n): record sleepticks = n and sleeptarget = ticks0 + n under
\* ptable.lock, then loop sleeping on &ticks while ticks - ticks0 < n.
SysSleep(s, n) ==
    /\ InUser(s)
    /\ sleepticks' = [sleepticks EXCEPT ![s] = n]
    /\ sleeptarget' = [sleeptarget EXCEPT ![s] = ticks + n]
    /\ ticks0' = [ticks0 EXCEPT ![s] = ticks]
    /\ sysarg' = [sysarg EXCEPT ![s] = n]
    /\ Sleep(s, TicksChan)
    /\ pc' = [pc EXCEPT ![s] = "sleep"]
    /\ UNCHANGED <<pid, parent, killed, tickets, boostsleft, is_thread,
                   main_thread, kstack, pgdir, nextpid, ticks, freed>>

\* sys_sleep(): back from sleep(&ticks, &tickslock), p->chan cleared; the
\* loop returns 0 once n ticks have passed, -1 if killed, else sleeps again.
SleepResume(s) ==
    /\ cur = s
    /\ pc[s] = "sleep"
    /\ \/ /\ ~StillSleeping(s) \/ killed[s]
          /\ chan' = [chan EXCEPT ![s] = NoChan]
          /\ pc' = [pc EXCEPT ![s] = "user"]
          /\ UNCHANGED <<state, cur>>
       \/ /\ StillSleeping(s) /\ ~killed[s]
          /\ Sleep(s, TicksChan)
          /\ UNCHANGED pc
    /\ UNCHANGED <<pid, parent, killed, tickets, boostsleft, sleepticks,
                   sleeptarget, is_thread, main_thread, kstack, pgdir,
                   sysarg, ticks0, nextpid, ticks, freed>>

\* Mutant: a timed sleeper is woken only after its target tick has passed.
TimerDueLate(p, t) ==
    state[p] = "SLEEPING" /\ chan[p] = TicksChan /\ t > sleeptarget[p]

\* wakeup1(&ticks) at tick count t: a sleeper on &ticks wakes only once t
\* has reached its sleeptarget, and is then credited sleepticks boosts and
\* has its sleep fields reset.
TimerDue(p, t) ==
    state[p] = "SLEEPING" /\ chan[p] = TicksChan /\ t >= sleeptarget[p]
TimerWakeup(t) ==
    /\ state' = [p \in Slot |-> IF TimerDue(p, t) THEN "RUNNABLE" ELSE state[p]]
    /\ boostsleft' = [p \in Slot |-> IF TimerDue(p, t)
                                     THEN boostsleft[p] + sleepticks[p]
                                     ELSE boostsleft[p]]
    /\ sleepticks' = [p \in Slot |-> IF TimerDue(p, t) THEN 0 ELSE sleepticks[p]]
    /\ sleeptarget' = [p \in Slot |-> IF TimerDue(p, t) THEN 0 ELSE sleeptarget[p]]

\* The timer interrupt of trap.c: ticks++ and wakeup(&ticks).
Tick ==
    /\ ticks < MaxTicks
    /\ ticks' = ticks + 1
    /\ TimerWakeup(ticks + 1)
    /\ UNCHANGED <<pid, parent, killed, chan, tickets, is_thread, main_thread,
                   kstack, pgdir, pc, sysarg, ticks0, cur, nextpid, freed>>

-----------------------------------------------------------------------------
(* Threads                                                                 *)

\* thread_create(): allocproc() as in fork (the kernel-stack failure leaves
\* the slot UNUSED with its new pid); the thread shares proc->pgdir, its
\* main_thread is the caller's main thread, is_thread = 1; allocuvm() of the
\* stack page may fail, which puts the slot back to UNUSED without freeing
\* its kernel stack; otherwise parent = proc and the thread is RUNNABLE.
\* (The copyout() of the tid happens after the thread is RUNNABLE; its
\* failure changes only the return value.)
ThreadCreate(s) ==
    LET u == FirstUnused
        m == IF is_thread[s] THEN main_thread[s] ELSE s
    IN
    /\ InUser(s)
    /\ u # NoProc
    /\ nextpid <= MaxPid
    /\ nextpid' = nextpid + 1
    /\ pid' = [pid EXCEPT ![u] = nextpid]
    /\ \/ \* alloc_page() for the kernel stack fails in allocproc()
          /\ AllocCanFail
          /\ UNCHANGED <<state, parent, tickets, boostsleft, is_thread,
                         main_thread, kstack, pgdir>>
       \/ \* allocuvm() of the stack page fails
          /\ AllocCanFail
          /\ tickets' = [tickets EXCEPT ![u] = InheritedTickets(s)]
          /\ boostsleft' = [boostsleft EXCEPT ![u] = 0]
          /\ kstack' = [kstack EXCEPT ![u] = TRUE]
          /\ pgdir' = [pgdir EXCEPT ![u] = pgdir[s]]
          /\ main_thread' = [main_thread EXCEPT ![u] = m]
          /\ is_thread' = [is_thread EXCEPT ![u] = TRUE]
          /\ UNCHANGED <<state, parent>>
       \/ \* the thread is RUNNABLE on the shared address space
          /\ state' = [state EXCEPT ![u] = "RUNNABLE"]
          /\ parent' = [parent EXCEPT ![u] = s]
          /\ tickets' = [tickets EXCEPT ![u] = InheritedTickets(s)]
          /\ boostsleft' = [boostsleft EXCEPT ![u] = 0]
          /\ kstack' = [kstack EXCEPT ![u] = TRUE]
          /\ pgdir' = [pgdir EXCEPT ![u] = pgdir[s]]
          /\ main_thread' = [main_thread EXCEPT ![u] = m]
          /\ is_thread' = [is_thread EXCEPT ![u] = TRUE]
    /\ UNCHANGED <<killed, chan, sleepticks, sleeptarget, pc, sysarg,
                   ticks0, cur, ticks, freed>>

\* thread_exit(): a no-op unless proc->is_thread; otherwise wake the main
\* thread, become ZOMBIE and enter the scheduler.  Children are not handed
\* to init.
\* Mutant: thread_exit() becomes a ZOMBIE without wakeup1(main_thread).
ThreadExitNoWake(s) ==
    /\ InUser(s)
    /\ is_thread[s]
    /\ state' = [state EXCEPT ![s] = "ZOMBIE"]
    /\ Sched
    /\ UNCHANGED <<pid, parent, killed, chan, tickets, boostsleft, sleepticks,
                   sleeptarget, is_thread, main_thread, kstack, pgdir,
                   pc, sysarg, ticks0, nextpid, ticks, freed>>

ThreadExit(s) ==
    /\ InUser(s)
    /\ is_thread[s]
    /\ state' = [WakeAll(state, main_thread[s]) EXCEPT ![s] = "ZOMBIE"]
    /\ Sched
    /\ UNCHANGED <<pid, parent, killed, chan, tickets, boostsleft, sleepticks,
                   sleeptarget, is_thread, main_thread, kstack, pgdir,
                   pc, sysarg, ticks0, nextpid, ticks, freed>>

\* Mutant: thread_join() releases the joined thread's page table with
\* freevm() as wait() does for a child.
ThreadJoinFreesPgdir(s, tid) ==
    LET match == {p \in Slot : pid[p] = tid /\ main_thread[p] = s /\ is_thread[p]}
        done == {p \in match : state[p] = "ZOMBIE"}
        z == Min(done)
    IN
    /\ cur = s
    /\ \/ pc[s] = "join" /\ sysarg[s] = tid
       \/ InUser(s)
    /\ \/ /\ done # {}
          /\ state' = [state EXCEPT ![z] = "UNUSED"]
          /\ pid' = [pid EXCEPT ![z] = 0]
          /\ parent' = [parent EXCEPT ![z] = NoProc]
          /\ main_thread' = [main_thread EXCEPT ![z] = NoProc]
          /\ killed' = [killed EXCEPT ![z] = FALSE]
          /\ kstack' = [kstack EXCEPT ![z] = FALSE]
          /\ freed' = freed \cup {pgdir[z]}
          /\ chan' = [chan EXCEPT ![s] = NoChan]
          /\ pc' = [pc EXCEPT ![s] = "user"]
          /\ UNCHANGED <<cur, sysarg>>
       \/ /\ done = {}
          /\ match = {} \/ killed[s]
          /\ chan' = [chan EXCEPT ![s] = NoChan]
          /\ pc' = [pc EXCEPT ![s] = "user"]
          /\ UNCHANGED <<state, pid, parent, main_thread, killed, kstack, cur,
                         sysarg, freed>>
       \/ /\ done = {}
          /\ match # {}
          /\ ~killed[s]
          /\ Sleep(s, s)
          /\ pc' = [pc EXCEPT ![s] = "join"]
          /\ sysarg' = [sysarg EXCEPT ![s] = tid]
          /\ UNCHANGED <<pid, parent, main_thread, killed, kstack, freed>>
    /\ UNCHANGED <<tickets, boostsleft, sleepticks, sleeptarget, is_thread,
                   pgdir, ticks0, nextpid, ticks>>

\* thread_join(tid): one pass of its loop, from user mode or on resuming
\* from sleep(proc, &ptable.lock).  A slot with pid == tid, main_thread ==
\* proc and is_thread that is ZOMBIE is reaped (stack page unmapped, kernel
\* stack freed, state, pid, parent, main_thread and killed reset, is_thread
\* left set); with no such slot, or when killed, -1; else sleep on proc.
ThreadJoin(s, tid) ==
    LET match == {p \in Slot : pid[p] = tid /\ main_thread[p] = s /\ is_thread[p]}
        done == {p \in match : state[p] = "ZOMBIE"}
        z == Min(done)
    IN
    /\ cur = s
    /\ \/ pc[s] = "join" /\ sysarg[s] = tid
       \/ InUser(s)
    /\ \/ /\ done # {}
          /\ state' = [state EXCEPT ![z] = "UNUSED"]
          /\ pid' = [pid EXCEPT ![z] = 0]
          /\ parent' = [parent EXCEPT ![z] = NoProc]
          /\ main_thread' = [main_thread EXCEPT ![z] = NoProc]
          /\ killed' = [killed EXCEPT ![z] = FALSE]
          /\ kstack' = [kstack EXCEPT ![z] = FALSE]
          /\ chan' = [chan EXCEPT ![s] = NoChan]
          /\ pc' = [pc EXCEPT ![s] = "user"]
          /\ UNCHANGED <<cur, sysarg>>
       \/ /\ done = {}
          /\ match = {} \/ killed[s]
          /\ chan' = [chan EXCEPT ![s] = NoChan]
          /\ pc' = [pc EXCEPT ![s] = "user"]
          /\ UNCHANGED <<state, pid, parent, main_thread, killed, kstack, cur,
                         sysarg>>
       \/ /\ done = {}
          /\ match # {}
          /\ ~killed[s]
          /\ Sleep(s, s)
          /\ pc' = [pc EXCEPT ![s] = "join"]
          /\ sysarg' = [sysarg EXCEPT ![s] = tid]
          /\ UNCHANGED <<pid, parent, main_thread, killed, kstack>>
    /\ UNCHANGED <<tickets, boostsleft, sleepticks, sleeptarget, is_thread,
                   pgdir, ticks0, nextpid, ticks, freed>>

-----------------------------------------------------------------------------
(* The next-state relation                                                 *)

\* sys_kill(): argint(0, &pid), then kill(pid).
SysKill(s) == \E k \in KillPids : Kill(s, k)

\* sys_settickets(): argint(0, &pid) and argint(1, &n), then settickets.
SysSettickets(s) == \E k \in KillPids, n \in TicketArgs : SetTickets(s, k, n)

\* The system calls a user program may make (sys_fork, sys_exit, sys_wait
\* call straight through); /init (initcode) only forks, waits and is
\* preempted.
ProcCall(s) ==
    \/ Fork(s)
    \/ Wait(s)
    \/ Yield(s)
    \/ /\ s # InitSlot
       /\ \/ Exit(s)
          \/ SysKill(s)
          \/ SysSettickets(s)
          \/ \E n \in SleepArgs : SysSleep(s, n)
          \/ SleepResume(s)

\* sys_thread_create, sys_thread_exit and sys_thread_join: the argint()
\* of the tid_ptr, func and arg words (which the model does not track),
\* or of the tid to join, then the kernel call.
ThreadCall(s) ==
    /\ s # InitSlot
    /\ \/ ThreadCreate(s)
       \/ ThreadExit(s)
       \/ \E tid \in 2..MaxPid : ThreadJoin(s, tid)

Kernel == Tick \/ Idle \/ \E w \in Slot : Schedule(w)

\* The process lifecycle without the thread calls.
ProcNext == Kernel \/ \E s \in Slot : ProcCall(s)
\* Everything, threads included.
Next == ProcNext \/ \E s \in Slot : ThreadCall(s)

\* Fairness the kernel guarantees: a descriptor that keeps being RUNNABLE
\* keeps having a positive chance in every lottery round, so it is
\* eventually picked (strong fairness per winner); kernel code resumed after
\* sleep runs on; the timer keeps ticking and preempting user code; trap.c
\* exits a killed process on its way to user mode; /init loops on wait().
KernelStep(s) == cur = s /\ pc[s] # "user" /\ (Wait(s) \/ SleepResume(s)
                    \/ \E tid \in 2..MaxPid : ThreadJoin(s, tid))
Fairness ==
    /\ \A w \in Slot : SF_vars(Schedule(w))
    /\ \A s \in Slot : WF_vars(KernelStep(s))
    /\ \A s \in Slot : WF_vars(Yield(s))
    /\ \A s \in Slot : WF_vars(killed[s] /\ Exit(s))
    /\ WF_vars(Tick)
    /\ SF_vars(Wait(InitSlot))

ProcSpec == Init /\ [][ProcNext]_vars /\ Fairness
Spec == Init /\ [][Next]_vars /\ Fairness

-----------------------------------------------------------------------------
(* Properties                                                              *)

TypeOK ==
    /\ state \in [Slot -> States]
    /\ pid \in [Slot -> 0..MaxPid]
    /\ parent \in [Slot -> Slot \cup {NoProc}]
    /\ killed \in [Slot -> BOOLEAN]
    /\ chan \in [Slot -> Slot \cup {NoChan, TicksChan}]
    /\ tickets \in [Slot -> Nat]
    /\ boostsleft \in [Slot -> Nat]
    /\ is_thread \in [Slot -> BOOLEAN]
    /\ main_thread \in [Slot -> Slot \cup {NoProc}]
    /\ kstack \in [Slot -> BOOLEAN]
    /\ pc \in [Slot -> PCs]
    /\ cur \in Slot \cup {NoProc}
    /\ nextpid \in 2..MaxPid + 1
    /\ ticks \in 0..MaxTicks
    /\ freed \subseteq 0..MaxPid

\* The parent link of every live descriptor but init names a descriptor that
\* is still in the table: exit() hands children to init before its slot can
\* be reaped, so no child is left pointing at a freed (and reusable) slot.
ParentLinkValid ==
    \A c \in Slot \ {InitSlot} :
        state[c] # "UNUSED" =>
            /\ parent[c] \in Slot
            /\ state[parent[c]] # "UNUSED"

\* No descriptor still in the table uses an address space that wait() has
\* already released with freevm().
AddressSpaceLive ==
    \A s \in Slot : state[s] # "UNUSED" => pgdir[s] \notin freed

\* No missed wakeup in wait() and thread_join(): a descriptor asleep in
\* either loop never has, at the same time, the zombie it is waiting for;
\* exit() and thread_exit() wake it in the same critical section in which
\* they become ZOMBIE, and exit() wakes init for zombies it hands over.
NoMissedWakeup ==
    \A p \in Slot :
        state[p] = "SLEEPING" =>
            /\ pc[p] = "wait" => \A c \in Kids(p) : state[c] # "ZOMBIE"
            /\ pc[p] = "join" =>
                 \A c \in Slot : (pid[c] = sysarg[p] /\ main_thread[c] = p
                                  /\ is_thread[c]) => state[c] # "ZOMBIE"

\* No missed timer wakeup: a descriptor asleep on &ticks has not yet reached
\* its target tick, so the wakeup of every tick releases it on time.
TimerSleepersPending ==
    \A p \in Slot :
        state[p] = "SLEEPING" /\ chan[p] = TicksChan => ticks < sleeptarget[p]

\* A free slot is fully reset: every path that returns a slot to UNUSED
\* (wait, thread_join, and the failure paths of fork and thread_create)
\* leaves it with pid 0, no pending kill, no kernel stack and no thread
\* flag, so kill() and settickets() cannot reach it and allocproc(), which
\* resets none of these, hands the next process a clean descriptor.
UnusedSlotReset ==
    \A s \in Slot :
        state[s] = "UNUSED" =>
            /\ pid[s] = 0
            /\ ~killed[s]
            /\ ~kstack[s]
            /\ ~is_thread[s]

\* A zombie handed to init is eventually reaped by init's wait() loop.
OrphanZombieReaped ==
    \A c \in Slot \ {InitSlot} :
        (state[c] = "ZOMBIE" /\ parent[c] = InitSlot /\ ~is_thread[c])
            ~> state[c] = "UNUSED"

\* Cooperative cancellation: a process kill() has marked eventually leaves
\* the table's live set.  kill() makes a SLEEPING target RUNNABLE, the
\* lottery eventually picks it, the loop of wait() or sys_sleep() it was
\* in sees p->killed and returns, and trap.c makes it exit() on its way to
\* user mode; no sleep of the target, and no child it waits for, can hold
\* it back.
KilledProcessExits ==
    \A s \in Slot \ {InitSlot} :
        (killed[s] /\ state[s] \in {"RUNNABLE", "RUNNING", "SLEEPING"})
            ~> state[s] \in {"ZOMBIE", "UNUSED"}

\* A main thread that waits in thread_join() for a thread it created
\* itself gets it back: once that thread is a ZOMBIE, whether it left by
\* thread_exit() (which wakes main_thread) or by exit() (which wakes
\* parent, here the main thread), the join loop eventually finds it and
\* frees the slot, whatever the lottery, the timer and the other threads
\* do meanwhile.  (A thread created by another thread is the subject of
\* the thread_join_wakeup finding instead.)
JoinedThreadReaped ==
    \A t \in Slot :
        (/\ is_thread[t] /\ state[t] = "ZOMBIE"
         /\ parent[t] = main_thread[t]
         /\ pc[main_thread[t]] = "join" /\ sysarg[main_thread[t]] = pid[t])
            ~> state[t] = "UNUSED"

-----------------------------------------------------------------------------
(* Refinement: without the thread calls, the table implements ProcTree.    *)
(* A process is live while its slot is RUNNABLE, RUNNING or SLEEPING (fork *)
(* makes the child RUNNABLE in the same step that allocproc made it        *)
(* EMBRYO), a zombie while it is ZOMBIE; the pids handed out are those     *)
(* below nextpid; the parent of a pid is the pid of its slot's parent;    *)
(* the running process is the one in proc.                                *)

TreeSlots == {s \in Slot : state[s] \notin {"UNUSED", "EMBRYO"}}
SlotOfPid(k) == CHOOSE s \in TreeSlots : pid[s] = k
PidOf(s) == IF s = NoProc THEN 0 ELSE pid[s]

Tree == INSTANCE ProcTree
        WITH Pid <- 1..MaxPid,
             InitPid <- 1,
             used <- 1..(nextpid - 1),
             live <- {pid[s] : s \in {t \in TreeSlots : state[t] # "ZOMBIE"}},
             zombie <- {pid[s] : s \in {t \in TreeSlots : state[t] = "ZOMBIE"}},
             par <- [k \in 1..MaxPid |->
                       IF \E s \in TreeSlots : pid[s] = k
                       THEN PidOf(parent[SlotOfPid(k)]) ELSE 0],
             running <- PidOf(cur)

\* fork, exit, wait and kill together keep the promises of the process
\* tree: pids are never handed out twice, only a live process forks, exit
\* hands every child (live or zombie) to init, and wait() collects only a
\* zombie child of the caller, and each one once; every call is made by
\* the process on the CPU.
ImplementsProcTree == Tree!Spec

=============================================================================
