# TLA+ models of the xv6-ARM kernel of os-assignment-4

This directory holds TLC-checkable TLA+ models of the kernel under `src/`:
- the process table, the lottery scheduler with its sleep boost, sleep/wakeup,
  timed sleep and kernel threads;
- the user synchronisation library over the channel system calls, with the
  kernel barrier;
- one user address space shared by a process and its threads.

`PROJECT.json` holds the same material in machine-readable form: components,
runs, mutants, the source line map, findings and hazards.

## 1. The system

The kernel runs on a single CPU (`proc.h`: "now we only support one CPU"). All
process state lives in `ptable`, an array of `NPROC` `struct proc` guarded by
`ptable.lock`.

| part | source | state | operations |
|---|---|---|---|
| process table | `proc.c` allocproc, userinit, fork, exit, wait, kill | `state, pid, parent, killed, chan, kstack, pgdir, sz`, `nextpid` | fork, exit, wait, kill |
| lottery scheduler | `proc.c` hold_lottery, scheduler, yield, sched | `tickets, boostsleft, runticks`, `rand` seed | scheduler round, yield, settickets, srand |
| sleep/wakeup | `proc.c` sleep, wakeup1, wakeup; `sysproc.c` sys_sleep | `chan, sleepticks, sleeptarget`, `ticks` | sleep, wakeup, timer tick (trap.c) |
| kernel threads | `proc.c` thread_create, thread_exit, thread_join | `is_thread, main_thread, ustack_base` | create, exit, join |
| barrier | `barrier.c` | `bar.N, bar.count` | barrier_init, barrier_check |
| user channels | `sysproc.c` sleepChan, getChannel, sigChan, sigOneChan | `nextchan`, `chan` | sleep on / signal a numbered channel |
| user sync library | `usr/ulib.c` | lock word, condvar channel, semaphore counter | xchg lock, condWait/signal/broadcast, semUp/semDown |
| virtual memory | `vm.c` | page tables, kpt free list | allocuvm, deallocuvm, copyuvm, freevm, handle_page_fault |
| reporting | `proc.c` procdump, ps, getpinfo | none (read only) | none |

**How the parts interact.**
- Every blocking call, including wait, thread_join, sys_sleep, barrier_check and
  sleepChan, ends in `sleep(chan)`.
- `wakeup1` makes every sleeper on the channel RUNNABLE. On `&ticks` it does so
  only once `ticks >= sleeptarget`, and then it credits `boostsleft += sleepticks`.
- The scheduler doubles the tickets of a process with boost left, draws a ticket,
  and decrements the winner's boost.
- Threads share their main thread's page table. `wait()` frees the page table
  with `freevm` when it reaps the process.
- `sys_sleepChan` and `sys_sigOneChan` expose raw channels to user code. The
  condition variables and semaphores of `ulib.c` are built on them.

**What is hard in this code.** Each of these is listed under "hazards" in
`PROJECT.json`:
- wakeups that can be missed;
- slots freed with stale fields;
- an address space shared by threads and freed by wait;
- signed overflow in the lottery;
- the timer deadline boundary;
- failure paths of allocation;
- the user-level lost wakeup in `condWait`.

## 2. Modules

| module | models | kind |
|---|---|---|
| `Lottery` | `hold_lottery` and the ticket total of `scheduler` as operators | pure algorithm, 32-bit `int` as `IntWidth`-bit two's complement |
| `MCLottery` | one scheduler round over every ticket/boost/runnable table, checked against an unbounded reference lottery | MC module |
| `ProcTree` | what the process calls promise of the process tree: fresh pids, zombie until reaped once by the parent, orphans to init | abstract specification |
| `ProcTable` | the whole process table (see below); implements `ProcTree` | state machine |
| `UserSync` | `ulib.c` lock, condition variable and semaphore clients, the channel system calls, and the barrier | state machine |
| `AddrSpace` | one shared address space with its second-level page tables: sbrk/growproc, the thread stack page, fork's copy and its freevm when the child is reaped, page faults, kpt_alloc and kpt_free, kernel stack pages | state machine |

### ProcTable

**State.** Each field of `struct proc` that the modelled code touches is a
function from `Slot == 1..NPROC`. The other state is:
- `cur`, which is `proc`, the descriptor on the CPU;
- `nextpid` and `ticks`;
- `freed`, the address spaces that `freevm` has released.

An address space is named by the pid of the process that created it. Threads
share their creator's name.

**Actions.**
- Each system call is one action that runs up to its `sleep()`. The call runs
  atomically because it holds `ptable.lock` or has interrupts off on the single CPU.
- `pc` records that a descriptor is inside the sleep loop of `wait`,
  `thread_join` or `sys_sleep`. When the descriptor is next scheduled, the same
  action (`Wait`, `ThreadJoin`) or `SleepResume` runs the next iteration of the loop.

| action | code |
|---|---|
| `Init` | `userinit` |
| `Fork` | `fork`, with allocproc's kstack failure and copyuvm's failure as disjuncts |
| `Exit`, `Wait`, `Kill`, `SetTickets`, `Yield` | the functions of those names |
| `Schedule(w)` | one lottery round of `scheduler` won by `w` |
| `Idle` | a round with no winner |
| `SysSleep` | `sys_sleep` up to its first sleep |
| `SleepResume` | `sys_sleep` up to its next sleep, or its return |
| `TimerWakeup` | `wakeup(&ticks)` |
| `Tick` | the timer interrupt of trap.c, spec-modelled because trap.c is not in the repository |
| `ThreadCreate` | `thread_create`, with its failure paths |
| `ThreadExit`, `ThreadJoin` | `thread_exit`, `thread_join` |

Every path that blocks goes through `Sleep(s, c)`, which is `sleep()` up to its
`sched()`. Every path that gives up the CPU ends in `Sched`, the switch back
to the scheduler loop.

**Left out.**
- Files, cwd, names and trapframes: no property reads them.
- Runs that only return -1 and change nothing: they are stuttering steps.

**Refinement.** `ProcTree` keeps only the pids used, the live and zombie
processes, their parents and the running process. `ProcTable` maps onto it:
- `used` is `1..nextpid-1`;
- `live` and `zombie` are the pids of the slots that are neither UNUSED nor
  EMBRYO, split on ZOMBIE;
- `par[k]` is the pid of the parent slot of pid `k`;
- `running` is the pid of `cur`.

`ImplementsProcTree == Tree!Spec` is checked in the proc_lifecycle run. Every
ProcTable step is a step of `ProcTree` or leaves the mapped state unchanged.
So fork takes a fresh pid, exit hands every child to init, and wait collects
only a zombie of the caller and only once. A wait that collected any zombie
breaks it.

**Client discipline.** `JoinBeforeExit` is a constant that restricts clients to
programs whose main thread joins its threads before it exits. This is the
discipline of a correct thread program; no user program in the repository
creates threads. When it is FALSE, any program is allowed.

### UserSync

**State.**
- The semaphore's lock word, counter and channel.
- The kernel's `state` and `chan` of each thread.
- `bar.count` and `bar.N`.
- `panicked`.
- `upc`: where each thread is in the library code.

**Actions.**
- A semaphore client runs `semDown`, then the critical section, then `semUp`, forever.
- Every access to shared memory is its own action: the `xchg` on the lock word,
  and `ctr` under the lock.
- Every system call is one atomic action: `sleepChan`, `sigOneChan` and `sigChan`.
- A barrier client calls `barrier_check()` once. A woken sleeper resumes in
  `BarrierResume`. `bar.count` is never reset, so a second round needs a new
  `barrier_init`; spec.md makes a second round without one a caller error.
- `semInit` is the initial state, built from `InitiateLock`,
  `InitiateCondVar` and the first `getChannel` result (3). The last caller of
  `barrier_check` wakes the others through `Wakeup` (proc.c `wakeup`).
- `Idle` is the scheduler loop with nothing runnable.

**What the violation run shows.** `sigChan` would panic on its double
acquire of `ptable.lock` (it acquires it, and `wakeup` acquires it again); the
`SigChan` action halts the kernel, but no run is kept for it, since any call of
broadcast() shows it. The semaphore loses a wakeup: `condWait` releases the user lock before it sleeps.

### AddrSpace

**State.**
- The page table is the set of present user pages (`mapped`) together with the
  set of regions (`PDE` pages each) that have a second-level table (`ptabs`).
- The frame allocator is a count of free frames.
- Page-table blocks come from two places:
  - `kptpool` is kpt_mem.freelist, which starts with `KptInit` blocks from
    kpt_freerange;
  - `ptspare` counts the free `PT_ORDER` blocks of the frames that kmalloc has
    split (`ptframes`). A split frame yields `PTPerFrame` blocks.
  - `ownpool` counts the process's page tables taken off the free list, so that
    every block has a known home.
- Each descriptor has its own `sz`, a state, and the page of its stack. Every
  descriptor in use holds a kernel stack page.
- `kids` is a bag of the address spaces fork has copied and wait has not yet
  reaped. Each one is a record: its present pages, and its tables by origin.
  A child runs no code here.
- `leaked` counts kernel stacks lost by a failed thread_create.
- `panicked` holds the message of a kernel panic.

**Abstraction.** Addresses are counted in `PG` units per page, so that sizes
that are not page aligned occur.

**Operators.** All of them take and return the memory record `Mem`.
- `KptAlloc` follows `kpt_alloc`: the free list, else a free `PT_ORDER`
  block, else a newly split frame, else the panic "oom: kpt_alloc". It never
  returns NULL.
- `KptFree` follows `kpt_free`. A free-list block goes back onto the list, and
  any other block goes to `kfree(v, PT_ORDER)`.
- `BuddyFree` stands for kfree. The buddy allocator is outside `src/`, and
  spec.md puts it out of scope. It may merge any number of split frames back
  into free frames, as long as each remaining split frame keeps a block in use.
- `FreeVm` follows `freevm`: deallocuvm over the whole space, then kpt_free of
  every table and of the directory.
- `WalkAlloc` and `MapPage` follow `walkpgdir(alloc = 1)` and `mappages`.
- `DeallocUvm` and its loop `DeallocFrom` (RECURSIVE) follow `deallocuvm`,
  including the skip to the next region when a region has no table.
- `AllocUvm` and its loop `AllocFrom` (RECURSIVE) follow `allocuvm`:
  1. alloc_page;
  2. on failure, undo with `deallocuvm(newsz, oldsz)`;
  3. otherwise `mappages`, which panics "remap" on a page that is already present.
- `CopyUvm` and `CopyFrom` follow `copyuvm`:
  - the child's directory comes from kpt_alloc;
  - each copied page is mapped through walkpgdir;
  - it panics on a missing page;
  - on an allocation failure it returns the half-built copy, which `Fork`
    frees with `FreeVm` (copyuvm's `bad:` path).

**Actions.**
- `Sbrk` is `growproc` on the caller's own `sz`.
- `ThreadCreate` takes allocproc's kernel stack page. It then maps one stack
  page at `PGROUNDUP(creator's sz)` and grows only the creator's `sz`. When that
  allocation fails, the kernel stack is lost (`leaked`).
- `ThreadJoin` unmaps that page and frees the kernel stack.
- `Fork` takes a kernel stack, then runs `copyuvm` over the caller's
  `[0, sz)`. On success the copy becomes a child. On failure it frees the copy
  and the kernel stack.
- `Reap` is wait() finding a zombie child: it frees the kernel stack, then runs
  `freevm`.
- `PageFault` is `handle_page_fault`.
- `Halted` is panic's endless loop.

**Client discipline.** `NestedThreads` and `ThreadSbrk` restrict which
descriptors may create threads and grow the heap. With both FALSE every new stack page lies above every mapped page, so a thread's stack cannot be unmapped by another descriptor's sbrk or failed allocuvm, nor mapped twice; the hazards that need a stale sz (proc.c:913, vm.c:337) are therefore out of the address_space run's reach, and no run is spent on them.

## 3. Runs

| run | cfg | expect | what it shows |
|---|---|---|---|
| lottery | MCLottery.cfg | pass | For 3 slots, tickets 1..3 and boosts 0..2, the walk picks the winner of the reference lottery for every draw. Each runnable slot wins exactly its effective tickets' worth of draws. rand(), reduced to IntWidth - 1 bits, steps through every seed in one period from any seed. |
| lottery_overflow | MCLotteryOverflow.cfg | violation | With an 8-bit int, tickets 64 plus a boost make the total wrap to <= 0, and the scheduler idles while a process is runnable. |
| proc_lifecycle | MCProcLife.cfg | pass | Without threads, four invariants hold: parent links stay valid, no wait misses a zombie, no timer sleeper oversleeps, and the type invariant. (Without threads no two descriptors share a page table, so the freed-address-space question is left to the threads run.) Every orphan zombie is eventually reaped by init, and every killed process eventually exits. The table implements `ProcTree`. |
| slot_reset | MCSlotReset.cfg | violation | Freed slots keep state that allocproc never clears. Four paths do this: a fork that runs out of memory keeps its pid; kill(0) marks an UNUSED slot killed; a failed thread_create leaks its kstack; a joined thread's slot keeps `is_thread`. TLC reports the shortest of these paths, the failed fork. |
| threads | MCThreads.cfg | pass | When a main thread joins its threads before exiting, nested thread creation, join, exit and timed sleep never free a live address space. Also, a main thread waiting in thread_join for a thread it created itself always gets it back (`JoinedThreadReaped`, a liveness property under the fairness of section 5). A thread created by another thread is left out of that property: the thread_join_wakeup run shows that its join can hang. |
| thread_shared_free | MCThreadSharedFree.cfg | violation | A main thread that exits without joining is reaped by its parent, and freevm frees the page table while its threads run. |
| thread_join_wakeup | MCThreadJoinWakeup.cfg | violation | A thread created by a thread that calls exit() wakes its creator, not the main thread asleep in thread_join. |
| user_sync | MCUserSync.cfg | pass | Four threads on a semaphore of 2 and three at a barrier of 3. The xchg lock is exclusive and its word is exact across condWait. At most 2 threads are in the critical section. No barrier client returns before the third call, and every barrier client eventually returns. |
| sem_lost_wakeup | MCSemLostWakeup.cfg | violation | A semUp between condWait's releaseLock and its sleepChan signals nobody. The waiter then sleeps with no debt left to wake it. |
| address_space | MCAddrSpace.cfg | pass | The main thread alone creates threads and grows the heap; forks copy or give up, and wait reaps the children; memory runs out part way. Under that discipline every frame and every page-table block is accounted for (`FramesConserved`, `BlocksConserved`). The discipline rules out the stale sz that could unmap a live thread's stack or make mappages panic remap, so no run checks those; they are hazards without a run (section 6). |
| fork_after_join | MCAddrSpaceForkHole.cfg | violation | Create, exit and join a thread, then fork: copyuvm panics "page not present" on the unmapped stack page that is still below sz. |
| kpt_oom | MCAddrSpaceOom.cfg | violation | Grow the heap to the end of a page-table region, then thread_create: its kernel stack and stack page take the last frames, and walkpgdir's kpt_alloc for the new region panics "oom: kpt_alloc" where the call should fail. |

Every violation is a finding in `PROJECT.json` that gives the source line.
Every property of a passing run is paired with a mutant, a plausible bug in the
mapped code, that TLC shows breaks the property.

**The lottery_overflow counterexample.** It is an initial state of
`MCLottery`: one runnable process with 64 tickets and a boost. Such a state is
reachable in the kernel:
1. `settickets(pid, 2^30)` gives the process its tickets (any positive n is
   accepted).
2. A `sleep(1)` earns it a boost.
3. The scheduler then computes `2^31`, which is negative in a 32-bit int.

## 4. Bounds

**proc_lifecycle** uses 3 slots and pids up to 4.
- Init, a child and a grandchild, with one pid to spare, are enough to reach
  reparenting to init, orphan zombies, and the reuse of a slot by a later fork.
- Ticks run up to 2 and sleeps last 1. With these bounds, a sleeper can be woken
  on its deadline tick, and a sleep can also start late.
- Memory exhaustion is on.

**user_sync** uses 4 semaphore threads with `InitVal = 2`. This is enough for
two waiters, a signal that finds one sleeper, and contention on the lock word.
It also has 3 barrier clients with `N = 3`.

**address_space** uses 4 descriptors, 10 pages and 9 frames, with `PG = 2`
and sbrk arguments 1 and 2. `PDE = 2` puts 5 page-table regions in the space,
`KptInit = 1` gives kpt_alloc one block from its initial pool, and
`PTPerFrame = 2` makes later tables cut a frame in two. `MaxKids = 2` allows
two unreaped children. The run has about 93,000 states; kernel stacks take
frames, so fewer states are reachable than without them. These bounds reach:
- sizes that are not page aligned;
- three live thread stacks at once;
- slot reuse after a join;
- allocation failure in the middle of allocuvm's loop;
- all three sources of a page table: the initial pool, a newly cut frame, and
  the second half of a frame already cut;
- forks that finish and forks that run out of frames part way;
- reaping a child whose blocks go back both to the free list and to kfree.

SbrkArgs are positive: a shrinking sbrk by the main thread, which unmaps its threads' stacks (hazard proc.c:913), is outside the run's discipline.

**threads** uses 4 slots and pids up to 4. This allows a main thread with one
thread, which itself creates a thread, with the join order free. Alternatively,
the fourth pid goes to a forked child. With pids up to 5 the run takes 26
minutes, because the liveness check grows with the state graph (437,000 states
instead of 40,000). The only case lost is a new thread or child taking a slot that a join has freed. Slot reuse after wait() is covered by proc_lifecycle, and the reset of a joined slot by slot_reset.

**Why the bounds are small.** Pids are never reused, so `MaxPid` bounds the run.
The slots are not symmetric: slot 1 is init and the lottery walks slots in
order. So symmetry is not used.

**Integer width.** `IntWidth = 8` stands in for the 32-bit `int`. The
overflow happens at the same relative point.

## 5. Fairness

| fairness | why the code justifies it |
|---|---|
| `SF` on each `Schedule(w)` | A process that is RUNNABLE in infinitely many rounds has a positive chance each round: rand() is a linear congruential generator whose seed runs through all of [0, RAND_MAX] in one period from any seed srand() sets (`RandDrawsEveryTicket` in the lottery run), so every winning ticket keeps coming up. |
| `WF` on kernel code resumed after sleep, and on `Yield` | The timer preempts user code. |
| `WF` on the exit of a killed process | trap.c exits a killed process on its way back to user mode. |
| `WF` on `Tick` | The timer keeps firing. |
| `SF` on init's `Wait` | `initcode` loops forever on wait(). |
| `SF` on each barrier client's step (`UserSync`) | The lottery again: a thread that stays RUNNABLE is eventually picked. |

No fairness is assumed for user system calls, which programs may never make.

## 6. Plan: what is not modelled yet

1. **Composition of AddrSpace with ProcTable.** Replace ProcTable's
   address-space names with AddrSpace's page sets, so that exit/wait's `freevm`
   and the thread calls act on the same pages. Each model alone has about
   100,000 reachable states, so their product would not finish within a run's
   time. The two models share only the descriptor states, and AddrSpace's
   `Reap` and `ThreadJoin` follow the same code as ProcTable's `Wait` and
   `ThreadJoin`.
2. **Hazards without a run.** The hazards in `PROJECT.json` that have no
   property (negative sleep, kill(1), grandparent tickets, the copyout of the
   tid, sigChan's double acquire, thread_exit's missing reparent, the stale sz
   of a thread that creates threads or grows the heap, the shrinking sbrk) each need a
   violation run of their own. The project keeps 12 runs.
3. **kill in UserSync.** A killed sleeper in sleepChan wakes early, and its
   condWait then reacquires the lock on its way out.
4. **The remaining thread-orphan bug.** `thread_exit` does not reparent
   children. ParentLinkValid catches it under `Spec`, but no run is kept for it.

**Not modelled, by design.**
- Repeated getChannel calls: each process has one condition variable, so only
  the first result (3) occurs. That is why the user channels component is only
  partly modelled.
- procdump, ps, getpinfo, pgpte_kernel and kpt only read state.
- File descriptors and inodes: no property is about them.
- freevm and kpt_free are modelled in `AddrSpace`. In `ProcTable`, pages and
  tables go back only to the abstract `freed` set.
- copyout and uva2ka: only thread_create's store of the tid uses them. A failed
  store returns -1 for a thread that is already RUNNABLE (hazard proc.c:943).
  The model would need invalid user pointers to show this, and no run slot is
  left to check it.
- switchuvm and flush_tlb, which are hardware.
- loaduvm and inituvm: they only run from exec and userinit, before any modelled state exists; exec itself is not in `src/`.
- In `ProcTable` the `rand()` LCG, whose full period the lottery run checks, is replaced by a nondeterministic draw. This covers every
  value it can produce.
- The user test programs are page-table and scheduler drivers; the clients of
  the runs above stand in for them.
