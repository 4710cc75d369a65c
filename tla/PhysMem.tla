------------------------------- MODULE PhysMem -------------------------------
(***************************************************************************)
(* The physical page allocator: vm_phys_bm_bootinit of                     *)
(* system/physmem/phys_bmainit.c divides one static array of bitmap words  *)
(* among the memory ranges of the machine, one range per step; then        *)
(* several callers run vm_phys_alloc and vm_phys_free of phys_bmalloc.c.   *)
(* Addresses count pages, bits of the array are numbered throughout, and   *)
(* ranges are numbered from 1.                                             *)
(*                                                                         *)
(* A search holds pmb_lock: finding a free bit and marking it are two      *)
(* steps.  A caller frees a page that it owns, and owns it no longer.  The *)
(* range test of vm_phys_free is true for every page of every range, so    *)
(* the loop skips all maps: the page stays marked and is lost.             *)
(***************************************************************************)
EXTENDS Integers, Sequences, FiniteSets

CONSTANTS
  Callers,      \* threads that allocate and free pages
  RangeLists,   \* the lists of ranges a platform may report
  WordBits,     \* 32
  UNUMBER,      \* words of bitmap_block
  NNUMBER,      \* entries of prealloc_pbma
  None

MemoryRange == [begin : Nat, end : Nat]

\* The ranges of a platform: no end lies before its begin, no two overlap.
ASSUME RangeListsOK ==
  /\ RangeLists \subseteq Seq(MemoryRange)
  /\ \A r \in RangeLists : \A i, j \in 1..Len(r) :
       /\ r[i].begin <= r[i].end
       /\ i # j => r[i].end <= r[j].begin \/ r[j].end <= r[i].begin
ASSUME BitmapSize ==
  /\ WordBits \in Nat \ {0} /\ UNUMBER \in Nat \ {0} /\ NNUMBER \in Nat
  /\ None \notin Callers

VARIABLES
  rng,          \* ks_memory_ranges
  maps,         \* prealloc_pbma: for each range its first bit and pmb_length
  words,        \* bitmap_current, as a number of words
  boot,         \* vm_phys_bm_bootinit: "running", or its result 0 or -1
  Pi, Pt,       \* its out parameters, when it stops early
  used,         \* the bits of bitmap_block that are set
  lock,         \* the owner of pmb_lock
  pc,           \* where each caller is
  found,        \* the map and the index of bitmap_search, or None
  arg,          \* the page to be freed
  owned         \* the pages each caller got and did not free

bootVars == <<rng, maps, words, boot, Pi, Pt>>
callVars == <<lock, pc, found, arg, owned>>
physVars == <<rng, maps, words, boot, Pi, Pt, used, lock, pc, found, arg, owned>>

PhysInit ==
  /\ rng \in RangeLists
  /\ maps = << >> /\ words = 0
  /\ boot = "running" /\ Pi = 0 /\ Pt = 0
  /\ used = {}
  /\ lock = None
  /\ pc = [c \in Callers |-> "idle"]
  /\ found = [c \in Callers |-> None]
  /\ arg = [c \in Callers |-> None]
  /\ owned = [c \in Callers |-> {}]

-----------------------------------------------------------------------------
\* vm_phys_bm_bootinit.

Least(a, b) == IF a <= b THEN a ELSE b

\* The pages of a range, and the words it would need.
Pages(r) == r.end - r.begin
WordsFor(m) == (m + WordBits - 1) \div WordBits

\* The words the loop clears and gives to a range of m pages.
Granted(m) == Least(WordsFor(m), UNUMBER - words)

\* pmb_length for j words and m pages.
Length(j, m) == Least(j * WordBits, m)

\* Mutant: the next range starts in the last word of this one.
AdvanceShort(j) == words + (IF j = 0 THEN 0 ELSE j - 1)

\* bitmap_current behind the j words of a range.
Advance(j) == words + j

\* Mutant: the result does not depend on the ranges that are left.
FullyMappedHere(i, t) == t >= rng[i].end

\* The last word was used up exactly at the end of the last range.
FullyMapped(i, t) == t >= rng[i].end /\ i >= Len(rng)

\* One pass of the loop, for range i: all maps taken, or the range gets the
\* words it needs and there are; the loop ends with the last word.
BootRange ==
  LET i == Len(maps) + 1
      m == Pages(rng[i])
      j == Granted(m)
      t == rng[i].begin + j * WordBits
  IN  /\ boot = "running" /\ i <= Len(rng)
      /\ IF Len(maps) >= NNUMBER
         THEN /\ boot' = "-1" /\ Pi' = i /\ Pt' = rng[i].begin
              /\ UNCHANGED <<maps, words, used>>
         ELSE /\ used' = used \ (words * WordBits .. (words + j) * WordBits - 1)
              /\ maps' = Append(maps, [first |-> words * WordBits, length |-> Length(j, m)])
              /\ words' = Advance(j)
              /\ IF Advance(j) >= UNUMBER
                 THEN /\ Pi' = i /\ Pt' = t
                      /\ boot' = IF FullyMapped(i, t) THEN "0" ELSE "-1"
                 ELSE UNCHANGED <<boot, Pi, Pt>>
      /\ UNCHANGED <<rng, callVars>>

\* The loop ends behind the last range.
BootReturn ==
  /\ boot = "running" /\ Len(maps) = Len(rng)
  /\ boot' = "0"
  /\ UNCHANGED <<rng, maps, words, Pi, Pt, used, callVars>>

-----------------------------------------------------------------------------
\* vm_phys_alloc and vm_phys_free; kern_initmem ignores the result of
\* vm_phys_bm_bootinit.
Up == boot # "running"

Bit(i, k) == maps[i].first + k
Page(i, k) == rng[i].begin + k

\* The free indices of a map.
Free(i) == {k \in 0..(maps[i].length - 1) : Bit(i, k) \notin used}

Goto(c, l) == pc' = [pc EXCEPT ![c] = l]

CallAlloc(c) ==
  /\ Up /\ pc[c] = "idle"
  /\ Goto(c, "alloc")
  /\ UNCHANGED <<bootVars, used, lock, found, arg, owned>>

CallFree(c, p) ==
  /\ Up /\ pc[c] = "idle"
  /\ arg' = [arg EXCEPT ![c] = p]
  /\ owned' = [owned EXCEPT ![c] = @ \ {p}]
  /\ Goto(c, "free")
  /\ UNCHANGED <<bootVars, used, lock, found>>

\* Mutant: the lock is not waited for.
LockNoWait(c) ==
  /\ pc[c] \in {"alloc", "free"}
  /\ lock' = c
  /\ Goto(c, IF pc[c] = "alloc" THEN "search" ELSE "clear")
  /\ UNCHANGED <<bootVars, used, found, arg, owned>>

\* kernlock_lock(&pmas->pmb_lock).
Lock(c) ==
  /\ lock = None
  /\ pc[c] \in {"alloc", "free"}
  /\ lock' = c
  /\ Goto(c, IF pc[c] = "alloc" THEN "search" ELSE "clear")
  /\ UNCHANGED <<bootVars, used, found, arg, owned>>

\* bitmap_search finds the first free page of the first map that has one.
SearchHit(c, i, k) ==
  /\ pc[c] = "search"
  /\ k \in Free(i)
  /\ \A l \in Free(i) : k <= l
  /\ \A h \in 1..(i - 1) : Free(h) = {}
  /\ found' = [found EXCEPT ![c] = <<i, k>>]
  /\ Goto(c, "mark")
  /\ UNCHANGED <<bootVars, used, lock, arg, owned>>

\* It marks the page, which vm_phys_alloc returns.
Mark(c) ==
  LET i == found[c][1]
      k == found[c][2]
  IN  /\ pc[c] = "mark"
      /\ used' = used \cup {Bit(i, k)}
      /\ owned' = [owned EXCEPT ![c] = @ \cup {Page(i, k)}]
      /\ found' = [found EXCEPT ![c] = None]
      /\ lock' = None
      /\ Goto(c, "idle")
      /\ UNCHANGED <<bootVars, arg>>

\* Mutant: the failing call returns without kernlock_unlock.
SearchMissKeepsLock(c) ==
  /\ pc[c] = "search"
  /\ \A i \in 1..Len(maps) : Free(i) = {}
  /\ Goto(c, "idle")
  /\ UNCHANGED <<bootVars, used, lock, found, arg, owned>>

\* No map has a free page: vm_phys_alloc returns 0.
SearchMiss(c) ==
  /\ pc[c] = "search"
  /\ \A i \in 1..Len(maps) : Free(i) = {}
  /\ lock' = None
  /\ Goto(c, "idle")
  /\ UNCHANGED <<bootVars, used, found, arg, owned>>

\* The test that makes vm_phys_free skip map i, as it is written.
Skipped(i, p) == rng[i].begin < p \/ rng[i].end >= p

\* vm_phys_free under the lock.
Clear(c) ==
  LET hits == {i \in 1..Len(maps) : ~ Skipped(i, arg[c])}
  IN  /\ pc[c] = "clear"
      /\ used' = used \ {Bit(i, arg[c] - rng[i].begin) :
                           i \in {h \in hits : \A g \in hits : h <= g}}
      /\ arg' = [arg EXCEPT ![c] = None]
      /\ lock' = None
      /\ Goto(c, "idle")
      /\ UNCHANGED <<bootVars, found, owned>>

\* What a caller inside vm_phys_alloc or vm_phys_free does next.
Step(c) ==
  \/ \E i \in 1..Len(maps) : \E k \in Free(i) : SearchHit(c, i, k)
  \/ Mark(c) \/ SearchMiss(c) \/ Clear(c)

PhysNext ==
  \/ BootRange \/ BootReturn
  \/ \E c \in Callers :
       \/ CallAlloc(c)
       \/ \E p \in owned[c] : CallFree(c, p)
       \/ Lock(c)
       \/ Step(c)

PhysSpec == PhysInit /\ [][PhysNext]_physVars

\* The boot code and the callers go on executing, and no caller loses the
\* race for the spinlock for ever.
PhysFairness ==
  /\ WF_physVars(BootRange \/ BootReturn)
  /\ \A c \in Callers : WF_physVars(Step(c)) /\ SF_physVars(Lock(c))

-----------------------------------------------------------------------------
\* The values of the variables; bitmap_current and the bits that are set stay
\* inside bitmap_block.
PhysTypeOK ==
  /\ rng \in Seq(MemoryRange)
  /\ maps \in Seq([first : Nat, length : Nat])
  /\ words \in 0..UNUMBER
  /\ boot \in {"running", "0", "-1"}
  /\ Pi \in Nat /\ Pt \in Nat
  /\ used \subseteq 0..(UNUMBER * WordBits - 1)
  /\ lock \in Callers \cup {None}
  /\ pc \in [Callers -> {"idle", "alloc", "free", "search", "mark", "clear"}]
  /\ found \in [Callers -> (Nat \X Nat) \cup {None}]
  /\ arg \in [Callers -> Nat \cup {None}]
  /\ owned \in [Callers -> SUBSET Nat]

\* The bitmaps of two ranges share no bit, none leaves bitmap_block, and no
\* map is longer than its range: bitmap_search needs no other bounds.
BitmapsDisjoint ==
  /\ Len(maps) <= Len(rng)
  /\ \A i \in 1..Len(maps) :
       /\ maps[i].length <= Pages(rng[i])
       /\ maps[i].first + maps[i].length <= UNUMBER * WordBits
       /\ \A j \in 1..Len(maps) :
            i < j => maps[i].first + maps[i].length <= maps[j].first

\* What vm_phys_bm_bootinit reports is what it did.  With result 0 the maps
\* cover every range.  With -1 they cover all ranges before Pi, of range Pi
\* the pages below Pt, and nothing else.
BootReport ==
  /\ boot = "0" => /\ Len(maps) = Len(rng)
                   /\ \A i \in 1..Len(maps) : maps[i].length = Pages(rng[i])
  /\ boot = "-1" =>
       /\ Pi \in 1..Len(rng) /\ Len(maps) \in {Pi - 1, Pi}
       /\ \A i \in 1..(Pi - 1) : maps[i].length = Pages(rng[i])
       /\ Len(maps) = Pi => maps[Pi].length = Least(Pages(rng[Pi]), Pt - rng[Pi].begin)
       /\ Len(maps) = Pi - 1 => Pt = rng[Pi].begin

\* No page has two owners, and a page that is owned lies in a range and is
\* marked, whatever the interleaving of the callers.
OwnedOnce ==
  /\ \A c, d \in Callers : c # d => owned[c] \cap owned[d] = {}
  /\ \A c \in Callers : \A p \in owned[c] :
       \E i \in 1..Len(maps) :
          /\ p - rng[i].begin \in 0..(maps[i].length - 1)
          /\ Bit(i, p - rng[i].begin) \in used

\* Every call returns, with a page or without one.
CallsReturn == \A c \in Callers : pc[c] # "idle" ~> pc[c] = "idle"
=============================================================================
