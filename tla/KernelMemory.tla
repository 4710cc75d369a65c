---------------------------- MODULE KernelMemory ----------------------------
(***************************************************************************)
(* Kernel memory and the allocators above it: grow_critical of             *)
(* system/vm/kmem_util2.c fills the pages of the first kernel dataspace;   *)
(* the zones of system/kern/zalloc.c and the kernel stacks of              *)
(* kern_stacks.c take their memory from it, thread_allocate of             *)
(* kern_thread.c from both.  The memory is brought up by main() of         *)
(* init_main.c; afterwards every caller may allocate threads.              *)
(*                                                                         *)
(* Addresses count units from the start of the dataspace, PageUnits to a   *)
(* page.  A physical frame is a number and 0 is a frame, but in ds_pages 0 *)
(* means that there is no page.  grow_critical holds no lock: its scan,    *)
(* and in each round of its loop the taking of a frame, the assignment to  *)
(* ds_pages and pd_enter, are steps of their own.                          *)
(***************************************************************************)
EXTENDS Integers, Sequences, FiniteSetsExt

CONSTANTS
  Callers,      \* threads that allocate
  BootCaller,   \* the one that runs main()
  FrameCounts,  \* how many frames the machine may have
  NTables,      \* page tables that pmap_init allocates (252)
  NPages,       \* ds_n_pages of the kernel dataspace (128)
  PageUnits,    \* SYSARCH_PAGESIZE
  BufSize,      \* zn_bufsize of each zone
  ZMin, ZNum,   \* the arguments of _zrefill in zalloc (32, 32)
  StackPages,   \* 1<<14 in pages
  StackBase,    \* calc_size(sizeof(struct kernel_stack))
  Null

Zones == DOMAIN BufSize
Chunks == [begin : Nat, size : Nat]
Stacks == [begin : Nat, sp : Nat]

\* A page is larger than struct kernel_stack and not smaller than a buffer.
ASSUME SizesOK ==
  /\ BootCaller \in Callers
  /\ FrameCounts \subseteq Nat
  /\ {NTables, NPages, PageUnits, ZMin, ZNum, StackPages, StackBase} \subseteq Nat \ {0}
  /\ StackBase < PageUnits
  /\ {"thread", "sched"} \subseteq Zones /\ \A z \in Zones : BufSize[z] \in 1..PageUnits
  /\ Null \notin Callers /\ Null \notin Nat /\ Null \notin Chunks /\ Null \notin Stacks
  /\ Null \notin {"thread", "sched", "cpu", "zone", "stack"}

VARIABLES
  boot,      \* how far main() is: "vm", "cpu", "idle", "sched", "up" or "panic"
  free,      \* the frames vm_phys_alloc still has
  tables,    \* page tables in _i686_kernel_page_dir
  pages,     \* ds_pages
  pte,       \* what the page table says of each page of the dataspace
  zone,      \* zn_freelist, zn_count and the owner of zn_lock
  stacks,    \* the list of released kernel stacks
  cpuStack,  \* CPU_LOCAL_STACK
  sched,     \* the scheduler sched_instanciate has made
  threads,   \* the threads thread_allocate has returned
  call       \* the caller's position and local variables

vars == <<boot, free, tables, pages, pte, zone, stacks, cpuStack, sched, threads, call>>

\* No call: what it is in (op, for), n, the first page, j and curpage of
\* grow_critical, and the thread and t_istobjs of thread_allocate with the index
\* of its loops.
Idle == [pc |-> "idle", op |-> Null, for |-> Null, n |-> 0, i0 |-> 0, j |-> 0, cur |-> Null,
         buf |-> Null, st |-> [x \in 1..2 |-> Null], k |-> 1]

Init ==
  /\ boot = "vm"
  /\ \E n \in FrameCounts : free = 0..(n - 1)
  /\ tables = 0
  /\ pages = [i \in 0..(NPages - 1) |-> 0]
  /\ pte = [i \in 0..(NPages - 1) |-> Null]
  /\ zone = [z \in Zones |-> [list |-> << >>, count |-> 0, lock |-> Null]]
  /\ stacks = << >> /\ cpuStack = Null /\ sched = Null /\ threads = {}
  /\ call = [c \in Callers |-> Idle]

At(c, pc) == boot # "panic" /\ call[c].pc = pc

\* The caller goes on at pc.
Goto(c, pc) == call' = [call EXCEPT ![c].pc = pc]

\* It calls zalloc for a buffer of zone z ...
CallZalloc(c, z) == call' = [call EXCEPT ![c] = [Idle EXCEPT !.pc = "zalloc", !.op = z]]

\* ... or vm_kalloc_ll for n pages.
CallKalloc(c, for, n) == call' = [call EXCEPT ![c].pc = "scan", ![c].for = for, ![c].n = n]

Returned(c) == call' = [call EXCEPT ![c] = Idle]

-----------------------------------------------------------------------------
\* vm_phys_alloc: the lowest free frame.

PhysAlloc == Min(free)

\* pmap_init: page tables for the kernel half as long as there are frames.
PmapInit ==
  LET n == Min({NTables, Cardinality(free)}) IN
  /\ tables' = n
  /\ free' = {f \in free : Cardinality({g \in free : g < f}) >= n}

\* vm_init, then kernel_cpu_init_stack asks for its memory.
VmInit ==
  /\ boot = "vm"
  /\ PmapInit
  /\ boot' = "cpu"
  /\ CallKalloc(BootCaller, "cpu", StackPages)
  /\ UNCHANGED <<pages, pte, zone, stacks, cpuStack, sched, threads>>

-----------------------------------------------------------------------------
\* grow_critical.

Unset == {i \in 0..(NPages - 1) : pages[i] = 0}

\* The first page that is not there; without one the call fails.
GrowScan(c) ==
  /\ At(c, "scan")
  /\ call' = IF Unset = {}
             THEN [call EXCEPT ![c].pc = "grown", ![c].j = 0]
             ELSE [call EXCEPT ![c].pc = "grow", ![c].i0 = Min(Unset), ![c].j = 0]
  /\ UNCHANGED <<boot, free, tables, pages, pte, zone, stacks, cpuStack, sched, threads>>

\* pd_enter: pmap_enter fails when the page table is missing, and the result
\* is ignored.
PdEnter(i, f) == pte' = IF tables = 0 THEN pte ELSE [pte EXCEPT ![i] = f]

\* The loop counts i and j up together.
PageOf(l) == l.i0 + l.j

MayGrow(l) == l.j < l.n /\ PageOf(l) # NPages /\ free # {}

\* A round of the loop takes a frame, ...
GrowTake(c) ==
  /\ At(c, "grow") /\ MayGrow(call[c])
  /\ free' = free \ {PhysAlloc}
  /\ call' = [call EXCEPT ![c].pc = "set", ![c].cur = PhysAlloc]
  /\ UNCHANGED <<boot, tables, pages, pte, zone, stacks, cpuStack, sched, threads>>

\* ... assigns it to ds_pages whatever is there by now, ...
GrowSet(c) ==
  /\ At(c, "set")
  /\ pages' = [pages EXCEPT ![PageOf(call[c])] = call[c].cur]
  /\ Goto(c, "enter")
  /\ UNCHANGED <<boot, free, tables, pte, zone, stacks, cpuStack, sched, threads>>

\* Mutant: the page is counted, but not entered.
GrowEnterNot(c) ==
  /\ At(c, "enter")
  /\ call' = [call EXCEPT ![c].pc = "grow", ![c].j = @ + 1, ![c].cur = Null]
  /\ UNCHANGED <<boot, free, tables, pages, pte, zone, stacks, cpuStack, sched, threads>>

\* ... and enters it in the page table.
GrowEnter(c) ==
  /\ At(c, "enter")
  /\ PdEnter(PageOf(call[c]), call[c].cur)
  /\ call' = [call EXCEPT ![c].pc = "grow", ![c].j = @ + 1, ![c].cur = Null]
  /\ UNCHANGED <<boot, free, tables, pages, zone, stacks, cpuStack, sched, threads>>

GrowEnd(c) ==
  /\ At(c, "grow") /\ ~MayGrow(call[c])
  /\ Goto(c, "grown")
  /\ UNCHANGED <<boot, free, tables, pages, pte, zone, stacks, cpuStack, sched, threads>>

\* The address and the size it returns: j pages, perhaps fewer than asked.
Chunk(l) == [begin |-> l.i0 * PageUnits, size |-> l.j * PageUnits]

-----------------------------------------------------------------------------
\* Zones.

\* vm_kalloc_ll rounds up to whole pages.
PagesFor(size) == (size + PageUnits - 1) \div PageUnits

\* Mutant: one buffer more than fits.
CramPast(z, mem) ==
  LET n == (mem.size \div BufSize[z]) + 1
      bufs == [k \in 1..n |-> mem.begin + (n - k) * BufSize[z]]
  IN  [zone EXCEPT ![z].list = bufs \o @, ![z].count = @ + n]

\* _zcram: the buffers of a chunk, the last one on top of the list.
Cram(z, mem) ==
  LET n == mem.size \div BufSize[z]
      bufs == [k \in 1..n |-> mem.begin + (n - k) * BufSize[z]]
  IN  [zone EXCEPT ![z].list = bufs \o @, ![z].count = @ + n]

\* zalloc: take the lock, and refill when there are fewer than ZMin buffers.
Zalloc(c) ==
  LET z == call[c].op IN
  /\ At(c, "zalloc") /\ zone[z].lock = Null
  /\ zone' = [zone EXCEPT ![z].lock = c]
  /\ IF zone[z].count < ZMin THEN CallKalloc(c, "zone", PagesFor(BufSize[z] * ZNum))
                             ELSE Goto(c, "take")
  /\ UNCHANGED <<boot, free, tables, pages, pte, stacks, cpuStack, sched, threads>>

\* The end of _zrefill; nothing is crammed when the kernel memory is full.
Zrefilled(c) ==
  /\ At(c, "grown") /\ call[c].for = "zone"
  /\ zone' = IF call[c].j = 0 THEN zone ELSE Cram(call[c].op, Chunk(call[c]))
  /\ Goto(c, "take")
  /\ UNCHANGED <<boot, free, tables, pages, pte, stacks, cpuStack, sched, threads>>

\* sched_instanciate gives up without a buffer, thread_allocate returns 0, and
\* main gives up when that was the idle thread.
AfterTake(c, buf) ==
  CASE call[c].op = "sched" ->
         /\ boot' = IF buf = Null THEN "panic" ELSE "up"
         /\ sched' = buf
         /\ Returned(c)
    [] call[c].op = "thread" /\ buf = Null ->
         /\ boot' = IF boot = "idle" THEN "panic" ELSE boot
         /\ Returned(c) /\ UNCHANGED sched
    [] OTHER ->
         /\ call' = [call EXCEPT ![c].pc = "stack", ![c].buf = buf]
         /\ UNCHANGED <<boot, sched>>

\* remove_top, and the end of zalloc.
RemoveTop(c) ==
  LET z == call[c].op
      l == zone[z].list
  IN
  /\ At(c, "take")
  /\ IF l = << >>
     THEN /\ zone' = [zone EXCEPT ![z].lock = Null]
          /\ AfterTake(c, Null)
     ELSE /\ zone' = [zone EXCEPT ![z] = [list |-> Tail(l), count |-> @.count - 1, lock |-> Null]]
          /\ AfterTake(c, Head(l))
  /\ UNCHANGED <<free, tables, pages, pte, stacks, cpuStack, threads>>

-----------------------------------------------------------------------------
\* Kernel stacks.

\* kernel_cpu_init_stack: without memory the kernel panics.
CpuStack(c) ==
  /\ At(c, "grown") /\ call[c].for = "cpu"
  /\ IF call[c].j = 0
     THEN boot' = "panic" /\ Returned(c) /\ UNCHANGED cpuStack
     ELSE /\ cpuStack' = Chunk(call[c])
          /\ boot' = "idle"
          /\ CallZalloc(c, "thread")
  /\ UNCHANGED <<free, tables, pages, pte, zone, stacks, sched, threads>>

\* The stack kernel_stack_new builds: struct kernel_stack lies behind st_sp.
NewStack(mem) == [begin |-> mem.begin, sp |-> mem.begin + mem.size - StackBase]

\* The first of the loops of thread_allocate gets s.
Gets(c, s) ==
  call' = [call EXCEPT ![c].st[call[c].k] = s, ![c].k = IF @ = 1 THEN 2 ELSE 1,
                       ![c].pc = IF call[c].k = 1 THEN "stack" ELSE "built"]

\* kernel_stack_allocate: from the list, else from the kernel memory.
StackAllocate(c) ==
  /\ At(c, "stack")
  /\ IF stacks = << >>
     THEN CallKalloc(c, "stack", StackPages) /\ UNCHANGED stacks
     ELSE /\ Gets(c, Head(stacks))
          /\ stacks' = Tail(stacks)
  /\ UNCHANGED <<boot, free, tables, pages, pte, zone, cpuStack, sched, threads>>

StackNew(c) ==
  /\ At(c, "grown") /\ call[c].for = "stack"
  /\ Gets(c, IF call[c].j = 0 THEN Null ELSE NewStack(Chunk(call[c])))
  /\ UNCHANGED <<boot, free, tables, pages, pte, zone, stacks, cpuStack, sched, threads>>

-----------------------------------------------------------------------------
\* thread_allocate.

ThreadAllocate(c) ==
  /\ boot = "up" /\ At(c, "idle")
  /\ CallZalloc(c, "thread")
  /\ UNCHANGED <<boot, free, tables, pages, pte, zone, stacks, cpuStack, sched, threads>>

\* Both stacks are asked for before either is tested.  main goes on with the
\* scheduler once it has the idle thread.
Built(c) ==
  LET l == call[c] IN
  /\ At(c, "built")
  /\ IF Null \in {l.st[1], l.st[2]}
     THEN Goto(c, "release") /\ UNCHANGED <<boot, threads>>
     ELSE /\ threads' = threads \cup {[buf |-> l.buf, st |-> l.st]}
          /\ IF boot = "idle" THEN boot' = "sched" /\ CallZalloc(c, "sched")
                              ELSE boot' = boot /\ Returned(c)
  /\ UNCHANGED <<free, tables, pages, pte, zone, stacks, cpuStack, sched>>

\* The failure path: kernel_stack_release for each stack there is ...
Release(c) ==
  LET s == call[c].st[call[c].k] IN
  /\ At(c, "release")
  /\ stacks' = IF s = Null THEN stacks ELSE <<s>> \o stacks
  /\ call' = [call EXCEPT ![c].st[call[c].k] = Null, ![c].k = IF @ = 1 THEN 2 ELSE 1,
                          ![c].pc = IF call[c].k = 1 THEN "release" ELSE "zfree"]
  /\ UNCHANGED <<boot, free, tables, pages, pte, zone, cpuStack, sched, threads>>

\* Mutant: the failure path forgets the thread's buffer.
ZfreeForgotten(c) ==
  /\ At(c, "zfree") /\ zone["thread"].lock = Null
  /\ boot' = IF boot = "idle" THEN "panic" ELSE boot
  /\ Returned(c)
  /\ UNCHANGED <<free, tables, pages, pte, zone, stacks, cpuStack, sched, threads>>

\* Mutant: zfree leaves the zone locked.
ZfreeKeepsLock(c) ==
  /\ At(c, "zfree") /\ zone["thread"].lock = Null
  /\ zone' = [zone EXCEPT !["thread"] = [list |-> <<call[c].buf>> \o @.list,
                                         count |-> @.count + 1, lock |-> c]]
  /\ boot' = IF boot = "idle" THEN "panic" ELSE boot
  /\ Returned(c)
  /\ UNCHANGED <<free, tables, pages, pte, stacks, cpuStack, sched, threads>>

\* ... and zfree of the thread.
Zfree(c) ==
  /\ At(c, "zfree") /\ zone["thread"].lock = Null
  /\ zone' = [zone EXCEPT !["thread"].list = <<call[c].buf>> \o @, !["thread"].count = @ + 1]
  /\ boot' = IF boot = "idle" THEN "panic" ELSE boot
  /\ Returned(c)
  /\ UNCHANGED <<free, tables, pages, pte, stacks, cpuStack, sched, threads>>

Step(c) ==
  \/ GrowScan(c) \/ GrowTake(c) \/ GrowSet(c) \/ GrowEnter(c) \/ GrowEnd(c)
  \/ Zalloc(c) \/ Zrefilled(c) \/ RemoveTop(c)
  \/ CpuStack(c) \/ StackAllocate(c) \/ StackNew(c)
  \/ Built(c) \/ Release(c) \/ Zfree(c)

Next == VmInit \/ \E c \in Callers : ThreadAllocate(c) \/ Step(c)

Spec == Init /\ [][Next]_vars

\* A caller that is inside a function goes on.
FairSpec == Spec /\ WF_vars(VmInit) /\ \A c \in Callers : WF_vars(Step(c))

-----------------------------------------------------------------------------

\* What holds memory: free buffers, threads, stacks in the list and stacks of
\* threads, what a call holds at the moment, and the stack of the CPU.  Each
\* holder has a name of its own, on a list its distance from the end, and an
\* interval of units.
FreeBuffers ==
  UNION {{[who |-> <<"free", z, Len(zone[z].list) - k>>, from |-> zone[z].list[k], size |-> BufSize[z]] :
            k \in 1..Len(zone[z].list)} : z \in Zones}
ThreadBuffers ==
  {[who |-> <<"thread", t, 0>>, from |-> t.buf, size |-> BufSize["thread"]] : t \in threads}
CallBuffers ==
  {[who |-> <<"call", c, 0>>, from |-> call[c].buf, size |-> BufSize["thread"]] :
     c \in {c \in Callers : call[c].buf # Null}}
SchedBuffers ==
  {[who |-> <<"sched", 0, 0>>, from |-> b, size |-> BufSize["sched"]] : b \in {sched} \ {Null}}
Buffers == FreeBuffers \cup ThreadBuffers \cup CallBuffers \cup SchedBuffers

StackHolder(who, s) == [who |-> who, from |-> s.begin, size |-> s.sp + StackBase - s.begin]
ListedStacks == {StackHolder(<<"list", 0, Len(stacks) - k>>, stacks[k]) : k \in 1..Len(stacks)}
StacksOfThreads == UNION {{StackHolder(<<"stack", t, k>>, t.st[k]) : k \in 1..2} : t \in threads}
StacksOfCalls ==
  UNION {{StackHolder(<<"built", c, k>>, call[c].st[k]) : k \in {k \in 1..2 : call[c].st[k] # Null}} :
           c \in Callers}
CpuHolders ==
  {[who |-> <<"cpu", 0, 0>>, from |-> m.begin, size |-> m.size] : m \in {cpuStack} \ {Null}}
Holders == Buffers \cup ListedStacks \cup StacksOfThreads \cup StacksOfCalls \cup CpuHolders

\* vm_kalloc_ll "Allocates a chunk of kernel-memory." (vm_top.h): what two
\* holders have never overlaps.
ChunksDisjoint ==
  \A g, h \in Holders :
    g.who # h.who => g.from + g.size <= h.from \/ h.from + h.size <= g.from

\* The pages on which a holder has memory.
PagesOf(h) == (h.from \div PageUnits)..((h.from + h.size - 1) \div PageUnits)

\* Whatever the kernel holds, to its last unit, is memory, however the calls of
\* grow_critical interleave: the pages are in the dataspace and the page table
\* maps each to a frame that no other page is mapped to and that the allocator
\* will not give out again.  It needs the partial growth to reach the callers
\* through *size, pd_enter to precede the counting of a page, and frame 0 to be
\* gone before ds_pages is filled.
HeldMemoryMapped ==
  \A h \in Holders : \A p \in PagesOf(h) :
    /\ p \in 0..(NPages - 1) /\ pages[p] # 0
    /\ pte[p] # Null /\ pte[p] \notin free
    /\ \A q \in 0..(NPages - 1) : pte[q] = pte[p] => q = p

\* The page table and ds_pages agree on all that is held.
TableAgrees == \A h \in Holders : \A p \in PagesOf(h) : pte[p] = pages[p]

\* No two loops of grow_critical are under way at once.
Loop == {"grow", "set", "enter"}
OneGrows == \A c, d \in Callers : call[c].pc \in Loop /\ call[d].pc \in Loop => c = d

\* What the missing lock of grow_critical is needed for: as long as no two of
\* its loops have been under way at once, no two holders have got the same
\* memory, and the page table and ds_pages have the same frames for it.
SoundWhenOneGrows == []OneGrows => [](ChunksDisjoint /\ TableAgrees)

\* A call that fails gives back all it took: between the calls every unit of
\* the memory that is mapped has a holder, or it belongs to the rest that _zcram
\* leaves behind its last buffer, at the end of a page and less than a buffer.
NothingLost ==
  (\A c \in Callers : call[c].pc = "idle") =>
    \A p \in 0..(NPages - 1) : pages[p] # 0 =>
      \A u \in (p * PageUnits)..((p + 1) * PageUnits - 1) :
        \/ \E h \in Holders : h.from <= u /\ u < h.from + h.size
        \/ \E h \in Buffers : h.from <= u /\ (p + 1) * PageUnits < h.from + 2 * h.size

\* A call goes on until it returns or spins on the lock of a zone, and whoever
\* has such a lock gives it back, unless the kernel panics: a call can only be
\* held up by others that take the lock over and over again.
AllocationReturns ==
  LET Waits == {"idle", "zalloc", "zfree"} IN
  /\ \A c \in Callers : call[c].pc \notin Waits ~> call[c].pc \in Waits \/ boot = "panic"
  /\ \A z \in Zones : zone[z].lock # Null ~> zone[z].lock = Null \/ boot = "panic"
=============================================================================
