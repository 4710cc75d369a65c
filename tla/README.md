# TLA+ models of rkernel2

rkernel2 is a small research kernel in C for the i686. These modules model
it from the source in `src/system/`, check it with TLC on small instances, and
prove the safety of its concurrent parts with TLAPS for all instances.

At this commit the kernel boots one CPU, creates one thread (the idle thread of
`main` in `kern/init_main.c`) and halts. Locks, wait queues and the scheduler
are written for several CPUs and many threads, so the models run them that way:
threads call the functions that headers declare, in any order a caller may.

## Parts of the system

| Part | Source | Module |
|---|---|---|
| linked rings | `kern/kern_ring.c` | `Ring` (operators), `RingQueue` (contract) |
| shared lock and wait queue | `kern/kern_lock.c`, `kern/kern_wait.c` | `SharedLock` |
| scheduler, preemption events | `kern/kern_sched.c`, `arch/i686/hal.c` | `Scheduler` |
| physical page allocator | `physmem/phys_bmainit.c`, `phys_bmalloc.c` | `PhysMem` |
| kernel memory, zone allocator, kernel stacks, `thread_allocate` | `vm/kmem_util2.c`, `kern/zalloc.c`, `kern_stacks.c`, `kern_thread.c`, `init_main.c` | `KernelMemory` |
| region mapper, pager | `vm/region_mapper.c`, `rm_pager.c`, `dataspace.c` | `RegionMapper` |
| page tables, temporary mappings | `arch/i686/physmem.c`, `mmu.c`, `vm/protection_domain.c` | `Paging` |
| boot, interrupts, thread switch | `arch/i686/kerninit.c`, `irq_pic.c`, `hal.c`, `switch.s`, `interrupt.s`, `kern/kern_thread.c` | `Platform` |
| terminal, screen | `iopipe/`, `terminal/`, `platform/i686-pc/` | `Console` |
| formatted output | `libkern/printf.c`, `printinfo.c` | `Printf` |
| string functions | `libkern/string.c` | `Strings` |
| binary tree | `vm/tree.c` | `Tree` |
| multiprocessor tables | `arch/i686/mp.c` | `MpTables` |

`MC<module>` holds the values TLC uses. `MCSpace` does so for `PhysMem` and
`RegionMapper`, `MCLibrary` for the rings and the last five parts; a behaviour of
these two exercises one of their parts, as the parts share no state. Theorems are in `<module>Proofs`, with three exceptions:
`SpaceProofs` has those about `PhysMem` and `RegionMapper`, `PlatformProofs` also
those about `MpTables`, and the proof about `KernelMemory` begins in
`KernelAllocProofs` and ends in `KernelMemoryProofs`.

How they interact: the shared lock keeps its waiters in a wait queue; a wait
queue is a ring of `t_wait_entry` fields, yields to the scheduler and tells it
about a woken thread (`sched_actualize`); a scheduler keeps its threads in rings
of `t_queue_entry` fields and runs from thread context and from preemption
events; zones, stacks and page tables take their pages from the physical
allocator.

## Modules

**`Ring`** has the functions of `kern_ring.c` as operators on a record of two
functions, `next` and `prev`, from nodes to nodes. They follow the writes of the
code in their order, also for arguments that break the contract (an element that
is linked already), because callers do that.

**`RingQueue`** is what the callers of `kern_ring.c` get as long as they insert
only unlinked elements and remove only linked ones: every ring means a sequence
(`q`). It is the abstract specification the schedulers are shown to implement
(`RingContract` in `Scheduler`).

**`SharedLock`**. Variables are the fields `sl_number`, `SL_FLAG_DRAIN`,
`sl_lock`, the wait queue with every `t_wait_entry`, and per thread the function
and the place it is in. Taking the spinlock is a step, and everything up to its
release is the next one; a call of `waitqueue_wait` therefore ends one step and
the code behind it begins another. Threads keep the protocol of the lock: they
release what they hold, with its type. `fn`, `type`, `site`, `ret`, `held` and
`drained` stand for program counters, arguments and results.

The yield needs an explanation. `sched_is_suspended` asks for `t_wait_queue`,
and no code ever sets this field. So `hal_induce_preemption` in
`waitqueue_wait` does not block: it comes back with the thread still linked.
`WaitReturn` may happen at any time. A thread that comes back and has to wait
again links its entry a second time, and the ring is torn: that is the code's
behaviour and the model has it.

**`Scheduler`**. Every CPU runs its current thread and, on top of it,
`sched_preempt` (`irq`). `sched_insert`, `sched_remove` and `sched_actualize`
are split where other CPUs and interrupts can come between: the call, setting
`THREAD_SF_LOCK_SCHED`, the lock, the section, clearing the flag. Any CPU may
call them for any scheduler. `Timer` may come at each point of a thread.
`Preempt` and `RemoveNext` take one step per pass of `sched_schedule_next`
(`Choice` is its loop, `Pass` the state after it). `q` is a history variable:
what the run queues mean.

The macro `sched_runnable` is `linked_ring_empty`. So the loop picks among the
*empty* queues; the element it removes is the list node, its `data` is null, and
`sched_is_suspended` reads an unmapped page. The page-fault handler only
returns, so the instruction faults for ever: the context is *wedged*, with the
lock held. Only when no queue of a CPU is empty does a pass end (it finds nothing
and the current thread goes on). The model keeps all of `sched_preempt`, also
the branches that the macro makes unreachable.

**`PhysMem`**. `vm_phys_bm_bootinit` takes one step per memory range and gives
it words of the static bitmap; then callers allocate and free. Finding a bit and
setting it are two steps, so that the lock matters. The range test of
`vm_phys_free` is inverted: it skips every map that could contain the page. The
model has the test as it is; a freed page stays marked and is never handed out
again. Addresses count pages: `kerninit.c` rounds all range ends to pages.

**`KernelMemory`** composes the allocators, because each calls down into the
next with its lock held: `thread_allocate` takes a thread from a zone and a
stack from `kernel_stack_allocate`; an empty zone refills itself from
`vm_kalloc_ll` under its lock; that is `grow_critical`, which scans the first
dataspace for unused pages, takes frames and enters them in the page table.
Every return to another level and every lock is a step, and a round of
`grow_critical`'s loop is three, as it holds no lock: a frame is taken, assigned
to `ds_pages`, entered in the page table. `call` holds the caller's position and
local variables. The memory may run out at any of these places, and in boot this
ends in a panic. Several callers run at once after the boot.
Frame 0 is a frame, but in `ds_pages` 0 means that there is none; the model has
this. Buffers and stacks are intervals of units.

**`RegionMapper`**. A mapper's list of regions is the sequence of its regions in
the order of their offsets. `rm_insert` takes the first gap that is large
enough, with sums taken modulo `W`, in any mapper, so mappers may be nested to any
depth, twice or in a ring. No lock is taken: between the first assignment of
`list_add_before` and the second, the list leads to a region without a next
(`half`). A page fault keeps pointer, size, offset and object, and one round of its
loop is one step, so insertions fall between. `Lookup` loses the CPU in the null
mapper when nothing lies at the address ("null"), and in a half-linked list
("torn"). `MapDataspace` enters the window's pages up to `ds_size` and
`ds_n_pages`, a missing page as frame 0, and nothing where there is no page table
(`Tabled`). `path` is a history of the rounds, and `MaxRounds` bounds them, as they
may run in a ring. `rm_pagefault` has no caller yet; the model calls it for every
address. `rm_insert` has one, so two insertions into one mapper at once are left
out.

**`Paging`**. The window of temporary mappings is `kpt`; each CPU has a TLB that
may load a present entry at any time and forgets it only by `invlpg`. Taking
slots (under `map_sl`), the access, clearing each slot (without the lock) and
its `invlpg` are separate steps. On top of it run `pmap_init`, `pmap_enter`
under `pd_lock`, and reads of page tables.

**`Platform`**. `_i686_init` and `main` in their order, the 8259A pair as
`irq_pic.c` programs it, the interrupt handler with its acknowledgements, the
thread switch with `tss.esp0`, and the two interrupt stacks of a thread. Which
thread comes next is left open: that is `Scheduler`'s matter. Three places may
fault, and then for ever, as the handler returns to the instruction:
`sched_preempt` on an empty run queue, the `ltr` of `hal_after_thread_switch` on a
busy descriptor, and `call 1` in `switch.s:68`. The model lets each happen or not;
in a switch the CPU is lost with interrupts disabled ("wedged"), elsewhere the
thread gets no further ("stuck"). The controllers are external, modelled from
their use.

**`Console`, `Printf`, `Strings`, `Tree`, `MpTables`** are sequential code, so
they are operators or machines with one actor. `Console` is the character ring
with its two consumers, down to the cursor and the scrolling; `Printf` the
number conversions and the loops over a format; `Strings` the loops over a
memory of bytes, on overlapping ranges too; `Tree` the search, insertion,
removal and balancing on nodes with stored depths; `MpTables` the search for the
firmware's tables, with pointers in several places, in which every mapping may
fail.

## What the runs check

| Run | Instance | Shows |
|---|---|---|
| `shared_lock` | 2 threads, all functions and types | `MutualExclusion`, `NumberCountsHolders`, `NoNullInQueue` (also on a torn ring), `DrainedIsFree`, `DrainForbidsLock`; with fairness `DrainSettles` and `DrainedNeverWaits` |
| `scheduler` | 2 CPUs, 2 queues each, 2 idle threads and 3 others | `EventNeverOverLock`, `CountExact`, `QueuedAtHome`, `RingContract` (refinement); with fairness `EventEnds` |
| `space`, pages | 2 callers, 2 words of 2 bits, 2 maps, all lists of up to 3 ranges of up to 3 pages | `BitmapsDisjoint`, `BootReport`, `OwnedOnce`; with fairness `CallsReturn` |
| `space`, regions | words of 6 bits, pages of 2, 2 mappers, 6 objects, 5 addresses, 4 rounds | `RegionsApart`, `FaultInWindow`, `PagefaultFindsPage`; with fairness `PagefaultReturns` |
| `kernel_memory` | 2 callers, 0 to 13 or 16 frames, 14 pages of 6 units, zones with buffers of 4 and 5 units | `HeldMemoryMapped`, `NothingLost` (partial failures give everything back), `SoundWhenOneGrows`; with fairness `AllocationReturns` |
| `paging` | 2 CPUs, 2 threads, a window of 3, a range of 2 pages, 2 tables of which one gets a frame | `SlotsHeldOnce`, `AccessReachesFrame` (no stale TLB entry is used), `TablesChangeByEnter` |
| `platform` | 2 threads, lines 0, 4 and 14, several loader reports and kernel ends | `RangesSound`, `BootInOrder`, `StackOfCurrent`; with fairness `TimerServed` |
| `library`, rings | 2 rings, 4 elements | `RingsRepresentQueues`: under the contract the pointers are exactly the queues, in both directions, for every order of calls |
| `library`, the rest | character ring of 4, screen of 3 by 2, ints of 8 and 12 bits, all formats of up to 3 characters and some longer, keys 1 to 4, 5 bytes of memory, tables of up to 3 entries | `NumbersReadBack`, `OutputIsMeaning`, `ScreenShowsOutput`, `SearchesAgree`, `DepthsExact`, `StringsExact`, `DescribesMachine`, `OnlyOnePair` |
| `wait_blocks`, `drain_waiters`, `scheduler_pick`, `grow_race`, `mp_rom` | as above | a comment of the code and what the code does differ (below) |

The bounds. *Scheduler*: two CPUs and two contexts on each give every pair of
contenders for a scheduler; two queues are the least that can be empty and
non-empty at once, and three threads fill one of them twice. *SharedLock*: two
threads give a holder and a drainer, or a waiter that comes back while the other
one releases; more threads are the proofs' business. *PhysMem*: the lists have
empty ranges, ranges that end within a word, the bitmap ending inside a range,
exactly at its end and between two ranges, and more ranges than maps.
*KernelMemory*: with 0 to 13 frames the memory ends in each stage of the boot and
of an allocation, and with 16 the dataspace is full before the frames are used up;
two callers give every overlap of two loops of `grow_critical`; buffers of 4 and 5
units cross the pages of 6 and leave a rest. *RegionMapper*: the domain ends
close enough to `W` for sums to wrap around if nothing stopped them, objects
fill a mapper exactly, leave a gap or do not fit, one mapper has two objects and so
may lie in the kernel's twice, in itself or in a ring, and four rounds lead through
it more than once. *Paging*: a window of 3 is full
with a range and a table, and a range may find its two slots only after another
thread has left. *Platform*: lines of the master, its timer, and of the slave,
in every order, and loader reports that are uneven, leave nothing behind the
kernel, claim low memory over it, or do not fit 32 bits. *Library*: the character ring is overrun by the longer formats,
the screen scrolls, numbers take the values at the bounds of their type but the smallest integer
(whose negation in `i2a` and its kin overflows, which C leaves undefined), trees take every
order of insertions and removals of four keys.

`CHECK_DEADLOCK FALSE` is set where the system really stops: wedged CPUs in
`scheduler`, memory that is used up or a panic in `kernel_memory`, a CPU lost in a
null mapper, a torn list or a ring in `space`, calls that have returned in
`library`.

Fairness. A CPU goes on executing code it is in: WF of the steps behind a call,
never of new calls or interrupts. A CPU that waits for a spinlock and finds it
free again and again gets it: SF of `Lock` in `PhysMem` and of `PreemptLock` in
`Scheduler`, as the exchange instruction is arbitrated by the hardware.
*SharedLock* adds that whoever holds the lock calls `sl_unlock`, and nothing of the
yield: as the scheduler may wedge it need not return, so `DrainedNeverWaits` is
about threads outside of it. *KernelMemory*: WF of boot and of a caller's steps,
no SF for the locks of the zones, so `AllocationReturns` says that a call gets to
its end or to such a lock, and that every lock is given back. *RegionMapper*: WF of the
rounds of a fault. *Platform*: WF of the boot and of kernel code, where a step may be
the fault that wedges the CPU, which `TimerServed` allows for; SF of the interrupt,
which a CPU takes when it is requested again and again with interrupts enabled.

## Where comments and code differ

- `wait_blocks`: `kern_wait.c:93` says that the yield "will block this thread,
  until it gets removed from the wait-queue". It does not, as explained above.
- `drain_waiters`: `kern_lock.c:155`, "Wait until, all waiting threads have been
  drained." `sl_drain` looks at the queue only; a waiter that was unlinked and
  has not yet taken the spinlock again is missed. Freeing the lock's memory after
  `sl_drain` is therefore not safe.
- `scheduler_pick`: `kern_sched.c:125`, "among the priorities with non-empty
  run-queues": the macro at line 137 selects the empty ones.
- `grow_race`: `vm_top.h:32` says that `vm_kalloc_ll` "Allocates a chunk of
  kernel-memory". `grow_critical` (`kmem_util2.c:71`) holds no lock while it looks
  for unset pages and fills them, so two calls inside it get the same ones. The
  kernel has only one caller at this commit. `SoundIfOneGrows` proves that two
  loops under way at once are the only way to an overlap, and `SoundInBoot` that
  there is none until `main` has made the scheduler; `HeldMemoryMapped` and
  `NothingLost` hold whatever the callers do.
- `mp_rom`: `mp.c:106` names 0xE0000 as the start of the ROM search, the code
  starts at 0xF0000 (line 120) and misses a pointer below.

Not runs, but what a reader should know of the code as it is modelled:

- once `sl_drain` has waited, its own entry stays linked and it never returns;
- `sl_lock` queues for fairness once and then competes with everybody, so it can
  lose for ever;
- `sl_touch` (`kern_lock.c:164`: "equal to" lock and unlock) does not look at
  `SL_FLAG_DRAIN` and succeeds where `sl_lock` fails;
- `vm_phys_free` frees nothing, as its range test is inverted;
- `sched_blocked` is never initialised, which is harmless only while nothing sets
  `t_wait_queue`;
- `rm_kalloc` returns at `region_mapper.c:69` with `kernel_lock` held when its
  objects are used up; its one caller calls it once. `rm_lock` is never taken;
- on an address no region holds, `rm_pager.c:54` goes on with a null mapper and
  never comes back; `PagefaultFindsPage` says when;
- `rm_pager.c:44` enters missing pages as frame 0 and ignores that a page table is
  missing; the fault returns `VM_OK` all the same;
- when little memory is reported behind the kernel, the upper range of
  `kerninit.c:91` is inverted, which `phys_bmainit.c:72` does not expect;
  `RangesSound` says when it is not;
- `zinit` does not set `zn_count`; its zones come from the zeroed static buffer of
  `zone_bootstrap`, so it is 0;
- `hal.c:88` loads a task register whose descriptor is busy after the first time,
  and `call 1` in `switch.s:68` goes to address 1 instead of the label below it;
- `unmap_page` without `map_sl` is safe, which `PagingProofs` proves.

## What is proved

Each theorem holds for every value of the constants that satisfies the named
assumptions, so for any number of CPUs, threads, callers, queues, frames or
objects. In each proof module `IInv` is the inductive invariant, `Invariance` is
`Spec => []IInv`, one lemma for each action shows that it keeps `IInv`, and the
theorems below follow.

| Module | Theorems | Assumes | What the invariant adds |
|---|---|---|---|
| `RingQueueProofs` | `TypeCorrect`, `RingsCorrect` | heads and elements are distinct | no element is at two places of the queues. All operations reduce to linking between two neighbours and unlinking at a position |
| `SharedLockProofs` | `TypeCorrect`, `Exclusion`, `NumberExact`, `QueueNeverNull`, `DrainedFree`, `DrainForbids` | finitely many threads, distinct nodes | who owns the spinlock is in a section (`SpinInv`); what a thread holds in which call (`CallInv`); the flag and the number while a drainer waits (`DrainInv`) |
| `SchedulerProofs` | `EventsClear`, `CountTrue`, `ThreadsAtHome`, `RingsUsedRight`, `RunQueuesNeverTorn` | `SchedulerConstants` | lock owners are in their section (`LockInv`); the flag is set around every section (`FlagInv`); a thread about to be inserted is on no queue and no other call has it (`QueueInv`); an empty ring is empty from both sides (`RingInv`). From this `PassTakesNothing`: a pass faults or finds nothing, so no CPU ever switches (`IdleInv`) |
| `SpaceProofs`, for `PhysMem` | `PhysTypeCorrect`, `BitmapDivided`, `ReportTrue`, `OneOwner` | `RangeListsOK`: the ranges are apart; `BitmapSize`: the bitmap is not empty | maps lie below `bitmap_current`, and while boot runs every range got all its words (`BootInv`); the lock's owner is in the section, and a found bit stays free until it is marked (`CallInv`) |
| `SpaceProofs`, for `RegionMapper` | `TypeCorrect`, `Separation`, `WindowKept`, `PagefaultRight` | `ConstantsOK`: sizes small enough that one sum does not reach `W`; `ObjectsOK`: objects are whole pages | regions ordered and apart inside the mapper's size; the fault's window lies in the domain and holds the address. `PagefaultRight` adds that regions begin with a page (`RegionInv`), and that a fault is where its history leads (`PathInv`) |
| `PagingProofs` | `SlotsExclusive`, `AccessRight`, `TablesStable` | `WindowOK` | at an access a thread has exactly the slots it wants, each shows its frame, and its own TLB holds nothing or the same (`AccessReady`); a frame being zeroed is neither free nor in the directory (`TableType`) |
| `PlatformProofs`, for `Platform` | `RangesAlwaysSound`, `BootAlwaysInOrder`, `StackAlwaysOfCurrent` | `PlatformConstants`: the kernel's end, rounded up, fits a word; nothing of the loader's report | what has been set up follows from the step of the boot; interrupts are enabled exactly where the current thread may be interrupted, which a wedged one may not (`FlagInv`); how far each thread has come with changing its stack, running or not (`StackInv`) |
| `PlatformProofs`, for `MpTables` | `MachineDescribed` | `FirmwareOK`: the fields of the tables are numbers and truth values | which of the tests the search has passed at each step (`MpInv`); the entries before the current one, their processors listed in order, and the last I/O APIC among them (`ScanInv`) |
| `KernelAllocProofs`, `KernelMemoryProofs` | `HeldMemoryAlwaysMapped`, `NothingEverLost`, `SoundIfOneGrows`, `SoundAlone`, `SoundInBoot` | `SizesOK`: a buffer fits into a page | below |

The refinement. `RingsUsedRight` shows `Spec => RQ!Spec`: the initial rings are
the contract's, `Insert` is its insertion (the thread is on no ring, by
`QueueInv`), and every other step leaves the rings and the abstract queues alone.
Together with `RingsCorrect` it gives `RunQueuesNeverTorn`.

Kernel memory. The invariant treats a chunk that `grow_critical` is still filling
like memory that is held (`Items`), so every operation hands one item on, cuts a
chunk into buffers, or lets a chunk grow by a page. The pages of the dataspace are
filled from the front and frames taken in order, a frame is in use for one page at
most (in `ds_pages`, in the page table, or in a round that has not entered it yet),
and a page that is set but not entered is about to be (`FrameInv`); every item lies
in entered pages (`FitInv`), every unit that is entered has a holder or is the rest
behind a buffer (`CoverInv`), and each position of a call fixes its local variables
(`CallOK`) and how far `main` is (`BootInv`). Frame 0 would be taken for a missing
page; it is not, since a page table has taken it before. All this needs no lock, and
so a second loop that overwrites a page leaves it mapped to a frame of its own. That
items are apart, and that the page table has the frames of `ds_pages`, does need
one: `ApartInv` says that a growing chunk lies behind everything else, `SyncInv`
that the two tables differ only where a page is about to be entered, and one step
keeps them only if no other loop is under way (`OneGrows`), which `SoundIfOneGrows`
has as a hypothesis and the others get from a single caller or from the boot.

Page faults. The code descends from mapper to mapper while regions are inserted.
The reference is the history of the fault: `Chain` asks that each round has searched
the mapper at which the one before it arrived and has found a region of it that
holds the address, in whole numbers from the start of the domain, where the code
has words and differences. `PathInv` says that the fault's object, type, offset and
window are those at the end of the chain; regions are never removed, so the chain
stays. What is entered then lies inside the last region, and the search misses
only where no region holds the address, because the regions are in the order of
their offsets (`Separation`).

`SchedulerProofs` is about the code as it is, with the inverted macro. With the
macro corrected threads would leave their queues, and `IdleInv` would have to be
replaced by an invariant on who runs where.

Only model-checked: everything under fairness (`DrainSettles`,
`DrainedNeverWaits`, `EventEnds`, `CallsReturn`, `AllocationReturns`,
`PagefaultReturns`, `TimerServed`), as liveness is out of the prover's reach; and
the rest of `library` (`NumbersReadBack`, `OutputIsMeaning`, `ScreenShowsOutput`,
`SearchesAgree`, `DepthsExact`, `StringsExact`, `OnlyOnePair`), whose properties
say what recursive definitions on numbers, formats, trees and bytes compute and
need an induction over these, which the prover does not do.

## Not modelled

- The local APIC (`irq_lapic.c`): its initialisation is commented out in
  `kerninit.c:101-103`, and every function returns at once while its address is
  null.
- `xcpu` and the `mmu_tlb_*` functions: single instructions on the local CPU.
- The generated `intvec.s` (256 equal entries) and the mode switch in `boot.s`.
- Segment and task descriptors: constants, except `tss.esp0`, which `Platform` has.
- The giving back of dataspaces, protection domains and regions: the kernel has
  no such operation.
