------------------------------- MODULE Paging -------------------------------
(***************************************************************************)
(* Page tables on i686.  A page table is physical memory: to touch one the *)
(* kernel maps its frame into a window of _i686_kernel_page_table, map_sl  *)
(* held, and clears the entry afterwards without the lock                  *)
(* (system/arch/i686/physmem.c).  Above it are pmap_init and pmap_enter    *)
(* (arch/i686/mmu.c) and pd_enter (vm/protection_domain.c).                *)
(*                                                                         *)
(* Every CPU has a TLB that may load a present entry of the window at any  *)
(* time and forgets it only by its own invlpg.  A thread stays on its CPU  *)
(* while it has something mapped.                                          *)
(***************************************************************************)
EXTENDS Integers, FiniteSets

CONSTANTS
  Cpus, Threads, Home,   \* Home[t]: the CPU of a thread
  Boot,                  \* the thread that runs pmap_init
  Slots,                 \* the window, KPTMIN .. KPTMAX-1 (1024 entries)
  Frames,                \* physical frames, numbers
  FreeFrames,            \* the frames vm_phys_alloc has left for page tables
  Tables,                \* entries of the page directory that pmap_init fills
  Entries,               \* entries of a page table (1024)
  Data,                  \* what is entered in page tables: frames of user data
  Ranges,                \* what is mapped by __i686_mp_map_range: [off, n]
  PageBytes,             \* 4096
  Junk, Null

\* The window has no gaps, and no frame is Null.
ASSUME WindowOK ==
  /\ Slots \subseteq Int /\ \A s, u \in Slots : s..u \subseteq Slots
  /\ PageBytes \in Nat \ {0} /\ Frames \subseteq Nat /\ FreeFrames \subseteq Frames
  /\ Boot \in Threads /\ \A t \in Threads : Home[t] \in Cpus
  /\ Ranges \subseteq [off : Nat, n : Nat \ {0}] /\ Null \notin Int

VARIABLES
  kpt,      \* the window: the frame of each entry, or Null
  tlb,      \* for each CPU, the entries of the window it has loaded
  mem,      \* the contents of the frames, seen as page tables
  dir,      \* _i686_kernel_page_dir above 772
  free,     \* frames left
  pdLock,   \* pd_lock of the kernel's protection domain
  op        \* what each thread is doing

vars == <<kpt, tlb, mem, dir, free, pdLock, op>>

Idle == [pc |-> "idle", kind |-> "none", frame |-> 0, e |-> Null, val |-> Null,
         slots |-> {}, base |-> 0, r |-> Null]

Init ==
  /\ kpt = [s \in Slots |-> Null]
  /\ tlb = [c \in Cpus |-> [s \in Slots |-> Null]]
  /\ mem = [f \in Frames |-> [e \in Entries |-> Junk]]
  /\ dir = [i \in Tables |-> Null]
  /\ free = FreeFrames
  /\ pdLock = Null
  /\ op = [t \in Threads |-> IF t = Boot THEN [Idle EXCEPT !.pc = "init"] ELSE Idle]

Booted == op[Boot].pc # "init" /\ op[Boot].kind # "table"

Become(t, l) == op' = [op EXCEPT ![t] = l]

-----------------------------------------------------------------------------
\* The window.

\* The processor loads an entry, for whatever reason.
TlbLoad(c, s) ==
  /\ kpt[s] # Null /\ tlb[c][s] = Null
  /\ tlb' = [tlb EXCEPT ![c][s] = kpt[s]]
  /\ UNCHANGED <<kpt, mem, dir, free, pdLock, op>>

\* The frame a CPU reaches through a slot.
Reaches(c, s) == IF tlb[c][s] # Null THEN tlb[c][s] ELSE kpt[s]

\* Mutant: any slot of the range may be in use.
RunsFirstOnly(n) == {i \in Slots : i + n - 1 \in Slots /\ kpt[i] = Null}

\* The first n free slots in a row, if there are any.
Runs(n) == {i \in Slots : i + n - 1 \in Slots /\ \A s \in i..(i + n - 1) : kpt[s] = Null}

\* Mutant: the CPU keeps what it had loaded for the slots.
TakeSlotsNoFlush(t, i, n) ==
  LET taken == i..(i + n - 1) IN
  /\ kpt' = [s \in Slots |-> IF s \in taken THEN op[t].frame + (s - i) ELSE kpt[s]]
  /\ UNCHANGED tlb
  /\ Become(t, [op[t] EXCEPT !.pc = "access", !.slots = taken, !.base = i])

\* map_page (n = 1) and map_page_range: the entries are set and flushed on this
\* CPU, all of it with map_sl held.
TakeSlots(t, i, n) ==
  LET taken == i..(i + n - 1) IN
  /\ kpt' = [s \in Slots |-> IF s \in taken THEN op[t].frame + (s - i) ELSE kpt[s]]
  /\ tlb' = [tlb EXCEPT ![Home[t]] = [s \in Slots |-> IF s \in taken THEN Null ELSE tlb[Home[t]][s]]]
  /\ Become(t, [op[t] EXCEPT !.pc = "access", !.slots = taken, !.base = i])

\* Without a place for them the thread goes on as `none'.
MapPages(t, n, none) ==
  \/ \E i \in Runs(n) : (\A j \in Runs(n) : i <= j) /\ TakeSlots(t, i, n)
  \/ Runs(n) = {} /\ Become(t, none) /\ UNCHANGED <<kpt, tlb>>

\* unmap_page: first the entry is cleared, without map_sl ...
Unmap(t) ==
  /\ op[t].pc = "unmap"
  /\ \E s \in op[t].slots :
       /\ \A u \in op[t].slots : s <= u
       /\ kpt' = [kpt EXCEPT ![s] = Null]
       /\ Become(t, [op[t] EXCEPT !.pc = "invlpg", !.base = s, !.slots = op[t].slots \ {s}])
  /\ UNCHANGED <<tlb, mem, dir, free, pdLock>>

\* ... then the CPU forgets it.  After the last one the operation is over:
\* pmap_init goes on with the page directory, pmap_enter gives up pd_lock.
Invlpg(t) ==
  /\ op[t].pc = "invlpg"
  /\ tlb' = [tlb EXCEPT ![Home[t]][op[t].base] = Null]
  /\ IF op[t].slots # {}
     THEN Become(t, [op[t] EXCEPT !.pc = "unmap"]) /\ UNCHANGED <<dir, pdLock>>
     ELSE /\ dir' = IF op[t].kind = "table" THEN [dir EXCEPT ![op[t].e] = op[t].frame] ELSE dir
          /\ pdLock' = IF op[t].kind = "enter" THEN Null ELSE pdLock
          /\ Become(t, IF op[t].kind = "table" THEN [Idle EXCEPT !.pc = "init", !.e = op[t].e] ELSE Idle)
  /\ UNCHANGED <<kpt, mem, free>>

-----------------------------------------------------------------------------
\* What is done to a frame while it is mapped: __i686_mp_map_range only reads,
\* _i686_pmap_pte_set writes one entry, pmap_zero_page all of them.

\* The pages of a range, as __i686_mp_map_range counts them.
RangePages(r) == (r.off + r.n + PageBytes - 1) \div PageBytes

Mapping(t) ==
  LET l == op[t] IN
  /\ l.pc = "map"
  /\ MapPages(t, IF l.kind = "range" THEN RangePages(l.r) ELSE 1,
                 IF l.kind \in {"range", "get"} THEN Idle ELSE [l EXCEPT !.pc = "panic"])
  /\ UNCHANGED <<mem, dir, free, pdLock>>

\* The slots __i686_mp_unmap_range goes through, from the address and the size.
Unmapped(l) == {l.base + k : k \in 0..((l.r.off + l.r.n - 1) \div PageBytes)}

Access(t) ==
  LET l == op[t]
      f == Reaches(Home[t], l.base)
  IN
  /\ l.pc = "access"
  /\ mem' = CASE l.kind = "enter" -> [mem EXCEPT ![f][l.e] = l.val]
              [] l.kind = "table" -> [mem EXCEPT ![f] = [e \in Entries |-> Null]]
              [] OTHER -> mem
  /\ Become(t, [l EXCEPT !.pc = "unmap", !.slots = IF l.kind = "range" THEN Unmapped(l) ELSE {l.base}])
  /\ UNCHANGED <<kpt, tlb, dir, free, pdLock>>

-----------------------------------------------------------------------------
\* Mutant: the page directory gets the table before it is zeroed.
PmapInitEarly ==
  LET todo == {i \in Tables : op[Boot].e = Null \/ i > op[Boot].e} IN
  /\ op[Boot].pc = "init"
  /\ IF todo = {}
     THEN Become(Boot, Idle) /\ UNCHANGED <<free, dir>>
     ELSE \E i \in todo, f \in free : /\ \A j \in todo : i <= j
          /\ free' = free \ {f}
          /\ dir' = [dir EXCEPT ![i] = f]
          /\ Become(Boot, [op[Boot] EXCEPT !.pc = "map", !.kind = "table", !.e = i, !.frame = f])
  /\ UNCHANGED <<kpt, tlb, mem, pdLock>>

\* pmap_init: a zeroed table for every entry of the page directory, as long as
\* there are frames; `e' of the boot thread counts the entries done.

PmapInit ==
  LET todo == {i \in Tables : op[Boot].e = Null \/ i > op[Boot].e} IN
  /\ op[Boot].pc = "init"
  /\ IF todo = {}
     THEN Become(Boot, Idle) /\ UNCHANGED free
     ELSE \E i \in todo : /\ \A j \in todo : i <= j
          /\ IF free = {}
             THEN Become(Boot, [op[Boot] EXCEPT !.e = i]) /\ UNCHANGED free
             ELSE \E f \in free : /\ \A g \in free : f <= g
                  /\ free' = free \ {f}
                  /\ Become(Boot, [op[Boot] EXCEPT !.pc = "map", !.kind = "table", !.e = i, !.frame = f])
  /\ UNCHANGED <<kpt, tlb, mem, dir, pdLock>>

\* pd_enter takes pd_lock, pmap_enter returns 1 when there is no page table.
PdEnter(t, i, e, d) ==
  /\ Booted /\ op[t].pc = "idle" /\ pdLock = Null
  /\ dir[i] # Null
  /\ pdLock' = t
  /\ Become(t, [op[t] EXCEPT !.pc = "map", !.kind = "enter", !.frame = dir[i], !.e = e, !.val = d])
  /\ UNCHANGED <<kpt, tlb, mem, dir, free>>

\* _i686_pmap_pte_get and __i686_mp_map_range.
PteGet(t, i) ==
  /\ Booted /\ op[t].pc = "idle" /\ dir[i] # Null
  /\ Become(t, [op[t] EXCEPT !.pc = "map", !.kind = "get", !.frame = dir[i]])
  /\ UNCHANGED <<kpt, tlb, mem, dir, free, pdLock>>

MapRange(t, r) ==
  /\ Booted /\ op[t].pc = "idle"
  /\ Become(t, [op[t] EXCEPT !.pc = "map", !.kind = "range", !.frame = 0, !.r = r])
  /\ UNCHANGED <<kpt, tlb, mem, dir, free, pdLock>>

Step(t) == Mapping(t) \/ Access(t) \/ Unmap(t) \/ Invlpg(t) \/ (t = Boot /\ PmapInit)

Next ==
  \/ \E c \in Cpus, s \in Slots : TlbLoad(c, s)
  \/ \E t \in Threads :
       \/ Step(t)
       \/ \E i \in Tables, e \in Entries, d \in Data : PdEnter(t, i, e, d)
       \/ \E i \in Tables : PteGet(t, i)
       \/ \E r \in Ranges : MapRange(t, r)

Spec == Init /\ [][Next]_vars

-----------------------------------------------------------------------------

Holds(t) == IF op[t].pc \in {"access", "unmap", "invlpg"} THEN op[t].slots ELSE {}

\* Clearing an entry without map_sl is safe: a slot in use has one user, and no
\* slot stays in use after its operation, so a range gives back just the slots
\* it took.
SlotsHeldOnce ==
  /\ \A t, u \in Threads : t # u => Holds(t) \cap Holds(u) = {}
  /\ \A s \in Slots : kpt[s] # Null <=> \E t \in Threads : s \in Holds(t)

\* A thread that touches a frame through the window reaches the frame it asked
\* for, whatever its CPU has loaded into the TLB while others used the slot.
AccessReachesFrame ==
  \A t \in Threads : op[t].pc = "access" =>
    \A s \in op[t].slots : Reaches(Home[t], s) = op[t].frame + (s - op[t].base)

\* A page table that is in the page directory changes only by pmap_enter, at
\* the entry it was called for: tables are zeroed before they are published,
\* and no access through a stale window falls into one.
TablesChangeByEnter ==
  [][\A i \in Tables, e \in Entries :
       (dir[i] # Null /\ mem'[dir[i]][e] # mem[dir[i]][e]) =>
         \E t \in Threads : /\ op[t].pc = "access" /\ op[t].kind = "enter"
                            /\ op[t].frame = dir[i] /\ op[t].e = e
                            /\ mem'[dir[i]][e] = op[t].val]_vars

=============================================================================
