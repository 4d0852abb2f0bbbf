----------------------------- MODULE AddrSpace -----------------------------
(***************************************************************************)
(* One user address space of src/vm.c, shared by a main process and the   *)
(* threads thread_create() gives it (src/proc.c).  Each descriptor keeps  *)
(* its own p->sz.  The page table is two-level: the regions whose page    *)
(* table the pgdir holds, and the user pages with a present PTE.  Frames  *)
(* come from a counted allocator; page tables come from kpt_alloc(), off  *)
(* its free list or cut out of a frame.  Modelled: growproc/sbrk          *)
(* (allocuvm, deallocuvm, mappages, walkpgdir), the stack page of         *)
(* thread_create and its unmap in thread_join, fork's copyuvm of the      *)
(* caller's [0, sz), and handle_page_fault.  Addresses are in units of PG *)
(* bytes-per-page so that sizes that are not page aligned occur.          *)
(*                                                                         *)
(* A panic() stops the kernel in an endless loop; the model records why.  *)
(* Every descriptor and every child holds the kernel stack page that      *)
(* allocproc() took for it.  The address space a successful fork copies  *)
(* belongs to the child, which runs no code here: it is kept as counts    *)
(* (pages, page tables by origin) until wait() reaps it through freevm(). *)
(* kpt_free() gives a block to the kpt free list or, for a block kmalloc  *)
(* made, to kfree(v, PT_ORDER); whether the buddy allocator merges free   *)
(* blocks back into a frame is its own business (spec.md puts it out of   *)
(* scope), so the model lets it merge any number of split frames that     *)
(* the blocks still in use leave possible.                                *)
(***************************************************************************)
EXTENDS Integers, FiniteSets, FiniteSetsExt, Bags, BagsExt

CONSTANTS NDesc,        \* descriptors sharing the address space (1 = main)
          PG,           \* bytes per page (PTE_SZ), scaled down
          PDE,          \* pages per page table (PDE_SZ / PTE_SZ)
          MaxPages,     \* UADDR_SZ in pages
          MemPages,     \* physical frames alloc_page() can hand out
          KptInit,      \* page-table blocks on kpt_mem.freelist
          PTPerFrame,   \* page tables kmalloc(PT_ORDER) cuts from a frame
          InitPages,    \* pages of the program when the model starts
          SbrkArgs,     \* n arguments of sbrk()
          NestedThreads,\* threads may call thread_create themselves
          ThreadSbrk,   \* threads may call sbrk themselves
          MaxKids       \* process slots fork() can fill (NPROC - NDesc)

ASSUME /\ NDesc \in Nat \ {0} /\ PG \in Nat \ {0} /\ PDE \in Nat \ {0}
       /\ InitPages \in 1..MaxPages /\ MemPages > InitPages
       /\ KptInit \in Nat /\ PTPerFrame \in Nat \ {0}
       /\ SbrkArgs \subseteq Int \ {0}
       /\ NestedThreads \in BOOLEAN /\ ThreadSbrk \in BOOLEAN
       /\ MaxKids \in Nat

Desc == 1..NDesc
Main == 1
Pages == 0..(MaxPages - 1)
Regions == 0..((MaxPages - 1) \div PDE)
UAddrSz == MaxPages * PG
NoStack == -1

VARIABLES
    mapped,     \* user pages with a present PTE in the shared pgdir
    ptabs,      \* regions whose page table the pgdir has (PDE present)
    freemem,    \* frames left in the allocator
    kptpool,    \* blocks on kpt_mem.freelist
    ptspare,    \* free PT_ORDER blocks of frames kmalloc has split
    ptframes,   \* frames split up into PT_ORDER blocks
    ownpool,    \* page tables of the pgdir taken off the free list
    kids,       \* bag of the address spaces fork copied, not yet reaped
    leaked,     \* kernel stack pages no descriptor holds any more
    sz,         \* p->sz of each descriptor
    dstate,     \* "unused", "live" or "zombie"
    ustack,     \* page of p->ustack_base, or NoStack
    panicked    \* "none", or the message of the kernel's panic()

vars == <<mapped, ptabs, freemem, kptpool, ptspare, ptframes, ownpool, kids,
          leaked, sz, dstate, ustack, panicked>>

\* The page table and the allocators as one record, as the vm.c helpers
\* below read and return them.
Mem == [mapped |-> mapped, pt |-> ptabs, free |-> freemem, pool |-> kptpool,
        spare |-> ptspare, ptframes |-> ptframes, ownpool |-> ownpool]

\* align_up(a, PTE_SZ), and align_up(a, PDE_SZ).
AlignUp(a) == ((a + PG - 1) \div PG) * PG
AlignUpPde(a) == ((a + PDE * PG - 1) \div (PDE * PG)) * (PDE * PG)

\* The page directory entry of page p.
Region(p) == p \div PDE

\* kpt_alloc(): a block off kpt_mem.freelist, else kmalloc(PT_ORDER): a
\* free block of that order, else one cut from a frame (a frame yields
\* PTPerFrame blocks); with none it panics "oom: kpt_alloc" (the NULL
\* checks of its callers never see 0).
KptAlloc(m) ==
    IF m.pool > 0
      THEN [ok |-> TRUE, m |-> [m EXCEPT !.pool = @ - 1, !.ownpool = @ + 1]]
    ELSE IF m.spare > 0
      THEN [ok |-> TRUE, m |-> [m EXCEPT !.spare = @ - 1]]
    ELSE IF m.free > 0
      THEN [ok |-> TRUE, m |-> [m EXCEPT !.free = @ - 1, !.ptframes = @ + 1,
                                         !.spare = PTPerFrame - 1]]
    ELSE [ok |-> FALSE, m |-> m]

\* walkpgdir(pgdir, va, 1) for page p: the region's page table, allocated
\* with kpt_alloc() and entered in the pgdir when the PDE is not present.
WalkAlloc(m, p) ==
    IF Region(p) \in m.pt THEN [ok |-> TRUE, m |-> m]
    ELSE LET k == KptAlloc(m)
         IN IF k.ok THEN [ok |-> TRUE, m |-> [k.m EXCEPT !.pt = @ \cup {Region(p)}]]
            ELSE k

\* mappages(pgdir, p * PG, PTE_SZ, pa) for one page whose frame is taken.
MapPage(m, p) ==
    LET w == WalkAlloc(m, p) IN
    IF ~w.ok THEN [m |-> w.m, panic |-> "oom: kpt_alloc"]
    ELSE IF p \in w.m.mapped THEN [m |-> w.m, panic |-> "remap"]
    ELSE [m |-> [w.m EXCEPT !.mapped = @ \cup {p}], panic |-> "none"]

\* The loop of deallocuvm from address a: walkpgdir(pgdir, a, 0) finds no
\* page table: a = align_up(a, PDE_SZ), then the loop's a += PTE_SZ; a
\* present PTE: free_page() and clear it.
RECURSIVE DeallocFrom(_, _, _)
DeallocFrom(a, oldsz, m) ==
    IF a >= oldsz THEN m
    ELSE IF Region(a \div PG) \notin m.pt
      THEN DeallocFrom(AlignUpPde(a) + PG, oldsz, m)
    ELSE IF a \div PG \in m.mapped
      THEN DeallocFrom(a + PG, oldsz,
                       [m EXCEPT !.mapped = @ \ {a \div PG}, !.free = @ + 1])
    ELSE DeallocFrom(a + PG, oldsz, m)

\* Mutant: the loop clears the PTEs but never calls free_page().
DeallocUvmLeaks(m, oldsz, newsz) ==
    IF newsz >= oldsz THEN [ret |-> oldsz, m |-> m]
    ELSE [ret |-> newsz,
          m |-> [DeallocFrom(AlignUp(newsz), oldsz, m) EXCEPT !.free = m.free]]

\* deallocuvm(pgdir, oldsz, newsz): free every present page from
\* align_up(newsz) up to oldsz and clear its PTE; return newsz.  Page
\* tables are kept.
DeallocUvm(m, oldsz, newsz) ==
    IF newsz >= oldsz THEN [ret |-> oldsz, m |-> m]
    ELSE [ret |-> newsz, m |-> DeallocFrom(AlignUp(newsz), oldsz, m)]

\* The loop of allocuvm from address a: alloc_page() (on failure undo with
\* deallocuvm(pgdir, newsz, oldsz) and return 0), then mappages(), whose
\* result allocuvm ignores; its panics stop the kernel.
RECURSIVE AllocFrom(_, _, _, _)
AllocFrom(a, oldsz, newsz, m) ==
    IF a >= newsz
      THEN [ret |-> newsz, m |-> m, panic |-> "none"]
    ELSE IF m.free = 0
      THEN [ret |-> 0, m |-> DeallocUvm(m, newsz, oldsz).m, panic |-> "none"]
    ELSE LET r == MapPage([m EXCEPT !.free = @ - 1], a \div PG)
         IN IF r.panic # "none" THEN [ret |-> 0, m |-> r.m, panic |-> r.panic]
            ELSE AllocFrom(a + PG, oldsz, newsz, r.m)

\* Mutant: allocuvm without its check against UADDR_SZ.
AllocUvmNoLimit(m, oldsz, newsz) ==
    IF newsz < oldsz
      THEN [ret |-> oldsz, m |-> m, panic |-> "none"]
    ELSE AllocFrom(AlignUp(oldsz), oldsz, newsz, m)

\* allocuvm(pgdir, oldsz, newsz).
AllocUvm(m, oldsz, newsz) ==
    IF newsz >= UAddrSz
      THEN [ret |-> 0, m |-> m, panic |-> "none"]
    ELSE IF newsz < oldsz
      THEN [ret |-> oldsz, m |-> m, panic |-> "none"]
    ELSE AllocFrom(AlignUp(oldsz), oldsz, newsz, m)

\* The loop of copyuvm(pgdir, sz) from address i, with c the allocator and
\* the child's page table d as the copy has left them: no page table for
\* i panics, a page not present panics, alloc_page() failing frees the
\* copy (goto bad: freevm(d)), and mappages() into d may need a page table.
RECURSIVE CopyFrom(_, _, _, _)
CopyFrom(i, size, m, c) ==
    IF i >= size THEN [out |-> "copied", c |-> c]
    ELSE IF Region(i \div PG) \notin m.pt
      THEN [out |-> "copyuvm: pte should exist", c |-> c]
    ELSE IF i \div PG \notin m.mapped THEN [out |-> "page not present", c |-> c]
    ELSE IF c.free = 0 THEN [out |-> "failed", c |-> c]
    ELSE LET r == MapPage([c EXCEPT !.free = @ - 1], i \div PG)
         IN IF r.panic # "none" THEN [out |-> r.panic, c |-> r.m]
            ELSE CopyFrom(i + PG, size, m, r.m)

\* copyuvm(pgdir, sz): the child's page directory d comes from kpt_alloc().
\* The result's c is the child's page table with the allocators; its
\* ownpool counts the child's blocks taken off the free list.
CopyUvm(m, size) ==
    LET d == KptAlloc([m EXCEPT !.ownpool = 0]) IN
    IF ~d.ok THEN [out |-> "oom: kpt_alloc", c |-> m]
    ELSE CopyFrom(0, size, m, [d.m EXCEPT !.mapped = {}, !.pt = {}])

\* The counts a child's address space is kept as: its present pages, and
\* its page tables and page directory by where kpt_alloc() took them.
Child(c) == [pages |-> Cardinality(c.mapped), pool |-> c.ownpool,
             kmal |-> Cardinality(c.pt) + 1 - c.ownpool]

\* kfree(v, PT_ORDER) of n blocks of split frames: the allocators the
\* buddy allocator can leave, merging k frames back into free frames; a
\* split frame always has a block in use, and the blocks in use fit in
\* the frames left.
BuddyFree(m, n) ==
    LET spare == m.spare + n
        inuse == m.ptframes * PTPerFrame - spare
    IN {[m EXCEPT !.spare = spare - k * PTPerFrame, !.ptframes = @ - k,
                  !.free = @ + k] :
        k \in {j \in 0..m.ptframes : m.ptframes - j <= inuse
                                   /\ inuse <= (m.ptframes - j) * PTPerFrame}}

\* Mutant: freevm frees the user pages but none of the page tables.
FreeVmNoTables(m, ch) == {[m EXCEPT !.free = @ + ch.pages]}

\* kpt_free() of every page table and the page directory of ch: a block
\* below INIT_KERNMAP (one of kpt_freerange's) goes onto the free list,
\* any other to kfree(v, PT_ORDER).
KptFree(m, ch) == BuddyFree([m EXCEPT !.pool = @ + ch.pool], ch.kmal)

\* freevm(pgdir) of the child address space ch: deallocuvm(pgdir,
\* UADDR_SZ, 0) frees every present page (a copy has a page table for
\* every region below its sz, so the region skip never passes a page), then
\* kpt_free() of each page table and of pgdir.
FreeVm(m, ch) == KptFree([m EXCEPT !.free = @ + ch.pages], ch)

\* Install the page table and allocators m.
Apply(m) ==
    /\ mapped' = m.mapped
    /\ ptabs' = m.pt
    /\ freemem' = m.free
    /\ kptpool' = m.pool
    /\ ptspare' = m.spare
    /\ ptframes' = m.ptframes
    /\ ownpool' = m.ownpool

Live(d) == dstate[d] = "live" /\ panicked = "none"

\* The program is loaded: the main process owns InitPages present pages,
\* with the page tables that cover them, and its kernel stack page.
Init ==
    /\ mapped = 0..(InitPages - 1)
    /\ ptabs = {Region(p) : p \in 0..(InitPages - 1)}
    /\ freemem = MemPages - InitPages - 1
    /\ kptpool = KptInit
    /\ ptspare = 0
    /\ ptframes = 0
    /\ ownpool = 0
    /\ kids = EmptyBag
    /\ leaked = 0
    /\ sz = [d \in Desc |-> IF d = Main THEN InitPages * PG ELSE 0]
    /\ dstate = [d \in Desc |-> IF d = Main THEN "live" ELSE "unused"]
    /\ ustack = [d \in Desc |-> NoStack]
    /\ panicked = "none"

\* sbrk(n) -> growproc(n) on the caller's own p->sz.  Growing keeps the old
\* size when allocuvm returns 0; shrinking computes sz + n as a uint, so a
\* shrink past 0 is a no-op, and a result of 0 from deallocuvm is taken as
\* failure: the pages are freed but p->sz stays.
Sbrk(d, n) ==
    /\ Live(d)
    /\ d = Main \/ ThreadSbrk
    /\ IF n > 0
         THEN LET r == AllocUvm(Mem, sz[d], sz[d] + n)
              IN /\ Apply(r.m)
                 /\ panicked' = r.panic
                 /\ sz' = IF r.ret = 0 THEN sz ELSE [sz EXCEPT ![d] = r.ret]
         ELSE /\ sz[d] + n >= 0
              /\ LET r == DeallocUvm(Mem, sz[d], sz[d] + n)
                 IN /\ Apply(r.m)
                    /\ sz' = IF r.ret = 0 THEN sz ELSE [sz EXCEPT ![d] = r.ret]
              /\ UNCHANGED panicked
    /\ UNCHANGED <<dstate, ustack, kids, leaked>>

\* The first unused descriptor, the slot allocproc() finds.
FreeSlot == Min({u \in Desc : dstate[u] = "unused"})

\* thread_create() by d: allocproc takes the first unused slot and a
\* kernel stack page (none left: -1, and the slot is free again); the new
\* thread shares the pgdir and gets one stack page at PGROUNDUP(d's sz)
\* through allocuvm; on failure the slot goes back to UNUSED without
\* free_page(np->kstack), so that page is lost; on success the thread's
\* sz ends past its stack and the creator's sz grows by PGSIZE.
ThreadCreate(d) ==
    /\ Live(d)
    /\ d = Main \/ NestedThreads
    /\ \E t \in Desc : dstate[t] = "unused"
    /\ freemem > 0
    /\ LET t == FreeSlot
           stack == AlignUp(sz[d])
           r == AllocUvm([Mem EXCEPT !.free = @ - 1], stack, stack + PG)
       IN /\ Apply(r.m)
          /\ panicked' = r.panic
          /\ IF r.ret = 0
               THEN /\ leaked' = leaked + 1
                    /\ UNCHANGED <<sz, dstate, ustack>>
               ELSE /\ dstate' = [dstate EXCEPT ![t] = "live"]
                    /\ ustack' = [ustack EXCEPT ![t] = stack \div PG]
                    /\ sz' = [sz EXCEPT ![t] = stack + PG, ![d] = sz[d] + PG]
                    /\ UNCHANGED leaked
    /\ UNCHANGED kids

\* thread_exit(): the thread becomes a ZOMBIE; its memory stays mapped.
ThreadExit(t) ==
    /\ Live(t)
    /\ t # Main
    /\ dstate' = [dstate EXCEPT ![t] = "zombie"]
    /\ UNCHANGED <<mapped, ptabs, freemem, kptpool, ptspare, ptframes, ownpool,
                   kids, leaked, sz, ustack, panicked>>

\* thread_join(tid) by the main thread on a ZOMBIE thread: deallocuvm of
\* the stack page [ustack_base, ustack_base + PGSIZE) in the main thread's
\* pgdir, free_page(p->kstack), and the slot is freed.  No descriptor's sz
\* shrinks.
ThreadJoin(t) ==
    /\ Live(Main)
    /\ dstate[t] = "zombie"
    /\ Apply([DeallocUvm(Mem, (ustack[t] + 1) * PG, ustack[t] * PG).m
              EXCEPT !.free = @ + 1])
    /\ dstate' = [dstate EXCEPT ![t] = "unused"]
    /\ ustack' = [ustack EXCEPT ![t] = NoStack]
    /\ sz' = [sz EXCEPT ![t] = 0]
    /\ UNCHANGED <<kids, leaked, panicked>>

\* The parent's view of the allocators after a copy c.
ParentOf(c) == [c EXCEPT !.mapped = mapped, !.pt = ptabs, !.ownpool = ownpool]

\* fork() by d: allocproc needs an unused slot and a kernel stack page
\* (without either fork returns -1 and nothing changes), then copyuvm(d's
\* pgdir, d's sz).  A panic stops the kernel; a copy that runs out of
\* frames is freed again (goto bad: freevm(d)), free_page(np->kstack), and
\* fork returns -1; a finished copy belongs to the child.
Fork(d) ==
    /\ Live(d)
    /\ BagCardinality(kids) < MaxKids
    /\ freemem > 0
    /\ LET r == CopyUvm([Mem EXCEPT !.free = @ - 1], sz[d])
       IN CASE r.out = "copied" ->
                 /\ Apply(ParentOf(r.c))
                 /\ kids' = BagAdd(kids, Child(r.c))
                 /\ UNCHANGED panicked
            [] r.out = "failed" ->
                 /\ \E m \in FreeVm(ParentOf(r.c), Child(r.c)) :
                        Apply([m EXCEPT !.free = @ + 1])
                 /\ UNCHANGED <<kids, panicked>>
            [] OTHER ->
                 /\ panicked' = r.out
                 /\ UNCHANGED <<mapped, ptabs, freemem, kptpool, ptspare,
                                ptframes, ownpool, kids>>
    /\ UNCHANGED <<sz, dstate, ustack, leaked>>

\* wait() finding a ZOMBIE child (the child's exit changes no memory):
\* free_page(p->kstack), then freevm(p->pgdir).
Reap(ch) ==
    /\ panicked = "none"
    /\ ch \in BagToSet(kids)
    /\ \E m \in FreeVm([Mem EXCEPT !.free = @ + 1], ch) : Apply(m)
    /\ kids' = BagRemove(kids, ch)
    /\ UNCHANGED <<sz, dstate, ustack, leaked, panicked>>

\* handle_page_fault(d, va) for a page below d's sz that is not present:
\* alloc_page() (none left: -1, and trap.c kills the process), then
\* mappages(), which may need a page table.  Faults at or above sz return
\* -1 and a fault on a present page returns 0; neither changes anything.
PageFault(d, p) ==
    /\ Live(d)
    /\ p * PG < sz[d]
    /\ p \notin mapped
    /\ freemem > 0
    /\ LET r == MapPage([Mem EXCEPT !.free = @ - 1], p)
       IN Apply(r.m) /\ panicked' = r.panic
    /\ UNCHANGED <<sz, dstate, ustack, kids, leaked>>

\* panic() ends in for(;;): the kernel never takes another step.
Halted == panicked # "none" /\ UNCHANGED vars

\* sys_sbrk(): argint(0, &n), then growproc(n) (the old sz it returns is
\* not tracked).
SysSbrk(d) == \E n \in SbrkArgs : Sbrk(d, n)

Next ==
    \/ \E d \in Desc : SysSbrk(d)
    \/ \E d \in Desc : ThreadCreate(d) \/ ThreadExit(d) \/ Fork(d)
    \/ \E t \in Desc : ThreadJoin(t)
    \/ \E d \in Desc, p \in Pages : PageFault(d, p)
    \/ \E ch \in BagToSet(kids) : Reap(ch)
    \/ Halted

Spec == Init /\ [][Next]_vars

-----------------------------------------------------------------------------
(* Properties                                                              *)

\* The kernel stack pages of the descriptors in use.
KStacks == Cardinality({d \in Desc : dstate[d] # "unused"})

\* The sum of f over the children's address spaces.
KidTotal(f(_)) ==
    MapThenFoldBag(LAMBDA x, y : x + y, 0, f, LAMBDA S : CHOOSE x \in S : TRUE,
                   kids)

\* The page tables the program was loaded with.
InitTables == Cardinality({Region(p) : p \in 0..(InitPages - 1)})

TypeOK ==
    /\ mapped \subseteq Pages
    /\ ptabs \subseteq Regions
    /\ freemem \in 0..MemPages
    /\ kptpool \in 0..KptInit
    /\ ptspare \in 0..(MemPages * PTPerFrame)
    /\ ptframes \in 0..MemPages
    /\ ownpool \in 0..KptInit
    /\ kids \in [DOMAIN kids -> Nat \ {0}]
    /\ \A ch \in DOMAIN kids :
          ch \in [pages : 0..MaxPages, pool : 0..KptInit, kmal : Nat]
    /\ leaked \in Nat
    /\ sz \in [Desc -> 0..UAddrSz]
    /\ dstate \in [Desc -> {"unused", "live", "zombie"}]
    /\ ustack \in [Desc -> Pages \cup {NoStack}]
    /\ panicked \in {"none", "remap", "page not present", "oom: kpt_alloc",
                     "copyuvm: pte should exist"}

\* Every frame is free, behind exactly one present PTE of the process or
\* of a child not yet reaped, cut up for page tables, or a kernel stack
\* (of a descriptor in use, of a child, or lost by a failed
\* thread_create): the undo of a failed allocuvm, the unmap of
\* thread_join, a shrinking sbrk, a failed fork and the freevm of a reaped
\* child return exactly the frames they unmap, including across
\* deallocuvm's skip over regions that have no page table.
FramesConserved ==
    panicked = "none" =>
        freemem + Cardinality(mapped) + ptframes + KStacks
          + KidTotal(LAMBDA ch : ch.pages + 1) + leaked = MemPages

\* Every page-table block is in exactly one place.  The blocks of the kpt
\* free list are on it, or a page table or page directory of the process
\* or of a child; the blocks of split frames are free in the buddy
\* allocator or such a table: every kpt_free() of freevm, for a reaped
\* child or for a copy fork gives up, returns each block where kpt_alloc()
\* took it from.
BlocksConserved ==
    panicked = "none" =>
        /\ kptpool + ownpool + KidTotal(LAMBDA ch : ch.pool) = KptInit
        /\ ptspare + (Cardinality(ptabs) - InitTables - ownpool)
             + KidTotal(LAMBDA ch : ch.kmal) = ptframes * PTPerFrame

\* fork()'s copyuvm never finds a page below the caller's sz missing.
NoCopyHole == panicked # "page not present"

\* Running short of memory inside fork, sbrk or a page fault makes the
\* call fail (copyuvm's NULL check on the new pgdir, allocuvm's undo)
\* rather than stop the kernel: kpt_alloc() never panics "oom".
NoOomPanic == panicked # "oom: kpt_alloc"

=============================================================================
