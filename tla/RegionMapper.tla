---------------------------- MODULE RegionMapper ----------------------------
(***************************************************************************)
(* Region mappers (system/vm/region_mapper.c) and the page faults that     *)
(* are resolved through them (system/vm/rm_pager.c).  A region mapper      *)
(* places objects, dataspaces or further mappers, first fit into a range   *)
(* of offsets; a fault descends from the kernel's mapper to a dataspace    *)
(* and enters the dataspace's pages into the page table.                   *)
(*                                                                         *)
(* Addresses are words: sums and differences are taken modulo W, as        *)
(* vaddr_t does.  One round of the loop in rm_pagefault is one step.       *)
(* Neither file takes rm_lock, so insertions fall between the rounds of a  *)
(* fault, and a round may meet a list that is half-way through an          *)
(* insertion.  Two insertions into one mapper are not run at once: that is *)
(* left to the callers of rm_insert, of which there is only rm_init.       *)
(***************************************************************************)
EXTENDS Integers, Sequences, FiniteSets, TLC

CONSTANTS
  W,          \* vaddr_t counts modulo W (2^32)
  P,          \* SYSARCH_PAGESIZE
  PdBegin,    \* pd_begin and pd_end of the kernel's protection domain,
  PdEnd,      \*   the last byte included (0xC1000000, 0xFDFFFFFF)
  Mappers,    \* region mappers
  Kernel,     \* kernel_rm
  SubSize,    \* rm_size of the other mappers
  Objects,    \* region mapper objects
  First,      \* the one rm_kalloc returns
  Entries,    \* the words of kernel_rmodss[0] behind the dataspace (130)
  MaxPages,   \* the pages rm_kalloc uses of them (128)
  ObjSize,    \* rmo_size of the other objects
  Type,       \* rmo_type: "undefined", "dataspace" or "mapper"
  Target,     \* rmo_object
  DsPages,    \* ds_pages of a dataspace; 0 where there is no page
  DsBytes,    \* ds_size of the dataspaces rm_kalloc has not made
  Tabled,     \* the pages for which pmap_init got a page table
  MaxRounds,  \* bound on the lookups of a fault, which may run in a ring
  Cpus, Addresses, \* who faults, and where
  Null

RoundDown(x) == x - (x % P)

\* ds_construct and rm_kalloc: as many pages as there are entries, at most 128.
KallocPages == IF Entries > MaxPages THEN MaxPages ELSE Entries

Size(o) == IF o = First THEN KallocPages * P ELSE ObjSize[o]

DsSize(d) == IF d = Target[First] THEN KallocPages * P ELSE DsBytes[d]

\* rm_init: from pd_begin to the end of pd_end's page.
RmSize(m) == IF m = Kernel THEN (RoundDown(PdEnd) - PdBegin + P) % W ELSE SubSize[m]

ASSUME ConstantsOK ==
  /\ W \in Nat /\ P \in Nat \ {0} /\ PdBegin \in Nat /\ PdEnd \in Nat
  /\ PdBegin % P = 0 /\ PdBegin <= PdEnd /\ PdEnd + P < W
  /\ Kernel \in Mappers /\ First \in Objects /\ Addresses \subseteq 0..(W - 1)
  /\ \A o \in Objects : Type[o] = "mapper" => Target[o] \in Mappers
  /\ \A m \in Mappers : RmSize(m) \in Nat
  /\ \A o \in Objects : Size(o) \in Nat \ {0}
  /\ \A m \in Mappers, o \in Objects : RmSize(m) + Size(o) < W

\* Objects are whole pages.
ASSUME ObjectsOK ==
  /\ Type[First] = "dataspace" /\ MaxRounds \in Nat /\ Tabled \subseteq 0..(W \div P - 1)
  /\ \A o \in Objects :
       /\ Type[o] \in {"undefined", "dataspace", "mapper"} /\ Size(o) % P = 0
       /\ Type[o] = "dataspace" => DsPages[Target[o]] \in Seq(Nat) /\ DsSize(Target[o]) \in Nat

VARIABLES
  child,    \* rm_childs: for each mapper the sequence of [obj, off]
  half,     \* for each mapper the region to which its predecessor points while
            \* its own next is still null, or 0
  fault,    \* the state of rm_pagefault on each CPU
  pte       \* the kernel's page table: the frame of each page, or Null

vars == <<child, half, fault, pte>>

\* path is a history of the rounds: the mapper m that was searched, the address
\* base at which it begins, and the region r that was found.
NoFault ==
  [pc |-> "idle", va |-> 0, ptr |-> 0, size |-> 0, off |-> 0, obj |-> Kernel, type |-> "mapper",
   path |-> << >>]

Init ==
  /\ child = [m \in Mappers |-> << >>]
  /\ half = [m \in Mappers |-> 0]
  /\ fault = [c \in Cpus |-> NoFault]
  /\ pte = [p \in 0..(W \div P - 1) |-> Null]

Placed(o) == \E m \in Mappers : \E i \in 1..Len(child[m]) : child[m][i].obj = o

-----------------------------------------------------------------------------
\* rm_insert.

End(x) == (x.off + Size(x.obj)) % W

\* Mutant: begin moves to the start of the region that is skipped.
BeginAtStart(s, k) == IF k = 1 THEN 0 ELSE s[k - 1].off

\* begin, after all regions before the k-th have been skipped.
Begin(s, k) == IF k = 1 THEN 0 ELSE End(s[k - 1])

\* The regions in front of which the new one ends in time.
Gaps(s, size) == {k \in 1..Len(s) : (Begin(s, k) + size) % W <= s[k].off}

InsertAt(s, k, x) ==
  [i \in 1..(Len(s) + 1) |-> IF i < k THEN s[i] ELSE IF i = k THEN x ELSE s[i - 1]]

\* In the first gap, else behind the last region, else nowhere: the search, and
\* of list_add_before the first assignment.
Insert(m, o) ==
  LET s == child[m]
      gaps == Gaps(s, Size(o))
      n == Len(s) + 1
      At(k) == /\ child' = [child EXCEPT ![m] = InsertAt(s, k, [obj |-> o, off |-> Begin(s, k)])]
               /\ half' = [half EXCEPT ![m] = k]
  IN  /\ half[m] = 0
      /\ \/ \E k \in gaps : (\A j \in gaps : k <= j) /\ At(k)
         \/ gaps = {} /\ (Begin(s, n) + Size(o)) % W <= RmSize(m) /\ At(n)
         \/ gaps = {} /\ (Begin(s, n) + Size(o)) % W > RmSize(m) /\ UNCHANGED <<child, half>>

\* The other assignments of list_add_before.
Linked(m) ==
  /\ half[m] # 0
  /\ half' = [half EXCEPT ![m] = 0]
  /\ UNCHANGED <<child, fault, pte>>

\* rm_init: the first dataspace, before anything else happens.
RmInit ==
  /\ ~Placed(First)
  /\ Insert(Kernel, First)
  /\ UNCHANGED <<fault, pte>>

\* rm_insert of an object that is in no list, into any mapper.
RmInsert(m, o) ==
  /\ Placed(First) /\ ~Placed(o)
  /\ Insert(m, o)
  /\ UNCHANGED <<fault, pte>>

-----------------------------------------------------------------------------
\* rm_pagefault.

\* ROUND_UP of the size of the protection domain.
Window == RoundDown((PdEnd - PdBegin + P - 1) % W)

\* The address is checked against the domain; VM_SEGFAULT outside.
Pagefault(c, va) ==
  /\ Placed(First) /\ fault[c].pc \notin {"loop", "null", "torn"}
  /\ LET f == [NoFault EXCEPT !.va = va, !.ptr = (va - PdBegin) % W, !.size = Window, !.off = PdBegin]
     IN  fault' = [fault EXCEPT ![c] = [f EXCEPT !.pc =
           IF va < PdBegin \/ f.ptr >= f.size THEN "segfault" ELSE "loop"]]
  /\ UNCHANGED <<child, half, pte>>

\* The regions at which the search of rm_ll_lookup ends, of those to which the
\* list leads.
Stops(m, ptr) ==
  LET s == child[m]
  IN  {i \in 1..Len(s) : (half[m] = 0 \/ i <= half[m]) /\ (ptr < s[i].off \/ ptr < End(s[i]))}

\* Mutant: the offset is replaced, not added up.
ShrinkOffset(f, x) ==
  [f EXCEPT !.ptr = (@ - x.off) % W, !.off = x.off,
            !.size = IF @ > Size(x.obj) THEN Size(x.obj) ELSE @,
            !.obj = Target[x.obj], !.type = Type[x.obj],
            !.path = Append(@, [m |-> f.obj, base |-> f.off, r |-> x])]

\* The fault, seen from inside the region x.
Shrink(f, x) ==
  [f EXCEPT !.ptr = (@ - x.off) % W, !.off = (@ + x.off) % W,
            !.size = LET rest == (@ - x.off) % W
                     IN  IF rest > Size(x.obj) THEN Size(x.obj) ELSE rest,
            !.obj = Target[x.obj], !.type = Type[x.obj],
            !.path = Append(@, [m |-> f.obj, base |-> f.off, r |-> x])]

\* A round that looks up.  On a miss rm_ll_lookup returns a null pointer and
\* leaves the type alone: every further round searches the null mapper, and the
\* CPU does not come back ("null").  Nor does it when the search goes past a
\* region whose next is not yet set ("torn").
Lookup(c) ==
  LET f == fault[c]
      s == child[f.obj]
      stops == Stops(f.obj, f.ptr)
  IN
  /\ f.pc = "loop" /\ f.type = "mapper" /\ Len(f.path) < MaxRounds
  /\ \/ \E i \in stops :
          /\ \A j \in stops : i <= j
          /\ s[i].off <= f.ptr /\ Type[s[i].obj] # "undefined"
          /\ fault' = [fault EXCEPT ![c] = Shrink(f, s[i])]
     \/ /\ \E i \in stops :
             /\ \A j \in stops : i <= j
             /\ f.ptr < s[i].off \/ Type[s[i].obj] = "undefined"
        /\ fault' = [fault EXCEPT ![c].pc = "null"]
     \/ /\ stops = {}
        /\ fault' = [fault EXCEPT ![c].pc = IF half[f.obj] = 0 THEN "null" ELSE "torn"]
  /\ UNCHANGED <<child, half, pte>>

\* Mutant: the pages start at the address of the fault.
MappedFromFault(f) ==
  LET pages == Len(DsPages[f.obj])
      n == (IF f.size > DsSize(f.obj) THEN DsSize(f.obj) ELSE f.size) \div P
  IN  [i \in 0..((IF n > pages THEN pages ELSE n) - 1) |-> (f.off + f.ptr) \div P + i]

\* The pages of the page table that dataspace_map enters, by their index in
\* the dataspace: those of the window that are below ds_size and ds_n_pages.
Mapped(f) ==
  LET pages == Len(DsPages[f.obj])
      n == (IF f.size > DsSize(f.obj) THEN DsSize(f.obj) ELSE f.size) \div P
  IN  [i \in 0..((IF n > pages THEN pages ELSE n) - 1) |-> f.off \div P + i]

\* pd_enter of each of them: where there is no page table pmap_enter fails,
\* which nobody looks at; and a page that is not there is entered as frame 0.
Entered(f) ==
  LET m == Mapped(f)
  IN  [p \in DOMAIN pte |-> IF p \in Tabled /\ \E i \in DOMAIN m : m[i] = p
                            THEN DsPages[f.obj][(CHOOSE i \in DOMAIN m : m[i] = p) + 1]
                            ELSE pte[p]]

\* Mutant: VM_AGAIN after the mapping.
MapDataspaceAgain(c) ==
  LET f == fault[c] IN
  /\ f.pc = "loop" /\ f.type = "dataspace"
  /\ pte' = Entered(f)
  /\ UNCHANGED <<child, half, fault>>

\* The round that maps a dataspace.
MapDataspace(c) ==
  LET f == fault[c] IN
  /\ f.pc = "loop" /\ f.type = "dataspace"
  /\ pte' = Entered(f)
  /\ fault' = [fault EXCEPT ![c].pc = "ok"]
  /\ UNCHANGED <<child, half>>

Dispatch(c) == Lookup(c) \/ MapDataspace(c)

Next ==
  \/ RmInit
  \/ \E m \in Mappers : Linked(m)
  \/ \E m \in Mappers, o \in Objects : RmInsert(m, o)
  \/ \E c \in Cpus : Dispatch(c) \/ \E va \in Addresses : Pagefault(c, va)

Spec == Init /\ [][Next]_vars

\* A CPU that is inside rm_pagefault goes on.
Fairness == \A c \in Cpus : WF_vars(Dispatch(c))

-----------------------------------------------------------------------------

\* Every variable has the type of its declaration.
TypeOK ==
  /\ child \in [Mappers -> Seq([obj : Objects, off : Nat])] /\ half \in [Mappers -> Nat]
  /\ DOMAIN fault = Cpus
  /\ \A c \in Cpus :
       /\ fault[c].pc \in {"idle", "loop", "ok", "segfault", "null", "torn"}
       /\ {fault[c].va, fault[c].ptr, fault[c].size, fault[c].off} \subseteq Nat
       /\ fault[c].type = "mapper" => fault[c].obj \in Mappers
  /\ DOMAIN pte = 0..(W \div P - 1)

\* The regions of a mapper lie in list order without touching one another and
\* end inside the mapper, whatever was inserted in whatever order: rm_insert
\* compares only with the next region, so this rests on the order of the list.
RegionsApart ==
  \A m \in Mappers : \A i \in 1..Len(child[m]) :
    /\ child[m][i].off + Size(child[m][i].obj) <= RmSize(m)
    /\ \A j \in 1..Len(child[m]) :
         i < j => child[m][i].off + Size(child[m][i].obj) <= child[m][j].off

\* While a fault descends, the window it carries is never empty or wrapped
\* around, lies inside the protection domain, and the offset it has found so
\* far still names the address that faulted.
FaultInWindow ==
  \A c \in Cpus : LET f == fault[c] IN
    f.pc = "loop" => /\ f.ptr < f.size
                     /\ f.off + f.ptr = f.va
                     /\ PdBegin <= f.off /\ f.off + f.size <= RoundDown(PdEnd) + P

\* The regions of a mapper, and whether r holds address a when the mapper
\* begins at base.
Regions(m) == {child[m][i] : i \in 1..Len(child[m])}

Holds(base, r, a) == base + r.off <= a /\ a < base + r.off + Size(r.obj)

\* Where a fault is after its first n rounds, by its history: in the kernel's
\* mapper, or in what the last region it has found stands for.
Where(f, n) ==
  IF n = 0 THEN [obj |-> Kernel, type |-> "mapper", base |-> PdBegin]
  ELSE LET e == f.path[n]
       IN  [obj |-> Target[e.r.obj], type |-> Type[e.r.obj], base |-> e.base + e.r.off]

\* Each round has searched the mapper at which the one before it arrived, and
\* has found a region there that holds the address of the fault.
Chain(f) ==
  \A n \in 1..Len(f.path) :
    LET e == f.path[n]
    IN  /\ Where(f, n - 1) = [obj |-> e.m, type |-> "mapper", base |-> e.base]
        /\ e.r \in Regions(e.m) /\ Holds(e.base, e.r, f.va)

\* What rm_pagefault on CPU c may do in one step: see PagefaultFindsPage.
FindsPage(c) ==
  LET f == fault[c]
      here == Where(f, Len(f.path))
      pages == DsPages[here.obj]
      Index(p) == p - here.base \div P
      own == f.va \div P
  IN  f.pc = "loop" =>
    /\ Chain(f)
    /\ fault'[c].pc = "ok" =>
         /\ here.type = "dataspace"
         /\ own \in Tabled /\ Index(own) \in 0..(Len(pages) - 1) /\ pages[Index(own) + 1] # 0
            /\ (Index(own) + 1) * P <= DsSize(here.obj)
              => pte'[own] = pages[Index(own) + 1]
         /\ \A p \in DOMAIN pte : pte'[p] # pte[p] =>
              /\ Holds(f.path[Len(f.path)].base, f.path[Len(f.path)].r, p * P)
              /\ pte'[p] = pages[Index(p) + 1]
    /\ fault'[c].pc = "null" =>
         \A r \in Regions(here.obj) : Type[r.obj] # "undefined" => ~Holds(here.base, r, f.va)
    /\ fault'[c].pc = "torn" => half[here.obj] # 0

\* A fault that returns VM_OK has come by a chain of regions that all hold its
\* address to a dataspace; its own page is mapped to that dataspace's frame for
\* it if there is one, within ds_size, and a page table; and the entries that
\* have changed are those of this region, with the frames of this dataspace.
\* The fault is lost in a null mapper only when the mapper to which the chain
\* leads has nothing at the address, and in a torn list only while a region is
\* inserted there.
PagefaultFindsPage == [][\A c \in Cpus : FindsPage(c)]_vars

\* Whether n rounds lead from offset a of mapper m to a dataspace.
DataspaceAt[n \in 0..MaxRounds, m \in Mappers, a \in 0..(W - 1)] ==
  n > 0 /\ \E r \in Regions(m) :
    /\ Holds(0, r, a)
    /\ \/ Type[r.obj] = "dataspace"
       \/ Type[r.obj] = "mapper" /\ DataspaceAt[n - 1, Target[r.obj], a - r.off]

\* A fault at an address where a dataspace lies is answered, however deep the
\* mappers are nested and whatever is inserted meanwhile, unless it runs into
\* the torn list of an insertion.  (Elsewhere, and where mappers are nested in
\* a ring, the loop of rm_pagefault does not end.)
PagefaultReturns ==
  \A c \in Cpus :
    fault[c].pc = "loop" /\ DataspaceAt[MaxRounds, Kernel, fault[c].va - PdBegin]
      ~> fault[c].pc \in {"ok", "torn"}
=============================================================================
