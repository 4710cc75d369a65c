-------------------------- MODULE KernelAllocProofs -------------------------
(***************************************************************************)
(* Safety of the kernel memory and the allocators above it, for any number *)
(* of callers, frames, pages, zones and buffers: the inductive invariant,  *)
(* and the proof that zones, kernel stacks and thread_allocate keep it.    *)
(* KernelMemoryProofs adds grow_critical and the boot, and concludes.      *)
(*                                                                         *)
(* A chunk that grow_critical is filling is treated like memory that is    *)
(* held (Items).  Every operation then either hands one item on under a    *)
(* new name, or cuts a chunk into buffers, or lets a chunk grow by a page. *)
(* Two facts carry the rest: the pages of the dataspace are filled from    *)
(* the front, so that the first unset one is the end of all that is held   *)
(* (FrameInv, FitInv), and frame 0 has gone into a page table before       *)
(* ds_pages is filled, so that an entry of 0 is never a page.              *)
(***************************************************************************)
EXTENDS KernelMemory, TLAPS

NoStacks == [x \in 1..2 |-> Null]
Growth == {"scan", "grown"} \cup Loop

Locals ==
  [pc : {"idle", "zalloc", "take", "stack", "built", "release", "zfree"} \cup Growth,
   op : {"thread", "sched", Null}, for : {"cpu", "zone", "stack", Null},
   n : Nat, i0 : Nat, j : Nat, cur : Nat \cup {Null},
   buf : Nat \cup {Null}, st : [1..2 -> Stacks \cup {Null}], k : 1..2]

\* What the variables may be.
TypeOK ==
  /\ boot \in {"vm", "cpu", "idle", "sched", "up", "panic"}
  /\ tables \in Nat
  /\ pages \in [0..(NPages - 1) -> Nat]
  /\ pte \in [0..(NPages - 1) -> Nat \cup {Null}]
  /\ zone \in [Zones -> [list : Seq(Nat), count : Int, lock : Callers \cup {Null}]]
  /\ stacks \in Seq(Stacks)
  /\ cpuStack \in Chunks \cup {Null}
  /\ sched \in Nat \cup {Null}
  /\ threads \subseteq [buf : Nat, st : [1..2 -> Stacks]]
  /\ call \in [Callers -> Locals]

\* The first m pages of the dataspace are there.
Mapped(m) == \A p \in 0..(NPages - 1) : p < m => pages[p] # 0

\* A call is between the taking of a frame and pd_enter.
InRound(l) == l.pc \in {"set", "enter"}

\* What frame f is in use for: page p.
Owns(f, p) ==
  \/ pages[p] = f \/ pte[p] = f
  \/ \E c \in Callers : InRound(call[c]) /\ PageOf(call[c]) = p /\ call[c].cur = f

\* The frames are taken in their order and the pages filled in theirs; frame 0
\* is not free any more once pmap_init is through, and frames are only left if
\* there are page tables.  A frame is in use for one page, and a page that is
\* there but not entered is about to be.
FrameInv ==
  /\ boot = "vm" => /\ Unset = 0..(NPages - 1) /\ \E n \in Nat : free = 0..(n - 1)
                    /\ \A p \in 0..(NPages - 1) : pte[p] = Null
  /\ boot # "vm" => \E a \in Nat \ {0}, b \in Int :
                      /\ free = a..b
                      /\ free # {} => tables # 0
                      /\ \A p \in 0..(NPages - 1), f \in Nat : Owns(f, p) => f < a
  /\ \E f \in 0..NPages : \A p \in 0..(NPages - 1) : pages[p] # 0 <=> p < f
  /\ \A p, q \in 0..(NPages - 1), f \in Nat \ {0} : Owns(f, p) /\ Owns(f, q) => p = q
  /\ \A p \in 0..(NPages - 1) :
       /\ pte[p] # 0
       /\ pages[p] # 0 /\ pte[p] = Null => \E c \in Callers : InRound(call[c]) /\ PageOf(call[c]) = p

\* The local variables of a call at each of its positions.
CallOK(l) ==
  /\ l.pc = "idle" => l = Idle
  /\ l.pc \in Growth => l.for # Null
  /\ l.pc \in {"zalloc", "take"} \/ (l.pc \in Growth /\ l.for \in {"cpu", "zone"}) =>
       l.buf = Null /\ l.st = NoStacks /\ l.k = 1
  /\ l.pc \in {"zalloc", "take"} \/ (l.pc \in Growth /\ l.for = "zone") => l.op # Null
  /\ l.pc \in {"stack", "built", "release", "zfree"} \/ (l.pc \in Growth /\ l.for = "stack") =>
       l.buf # Null /\ l.op = "thread"
  /\ l.pc = "stack" \/ (l.pc \in Growth /\ l.for = "stack") => \A x \in l.k..2 : l.st[x] = Null
  /\ l.pc = "built" => l.k = 1
  /\ l.pc = "release" => \A x \in 1..(l.k - 1) : l.st[x] = Null
  /\ l.pc = "zfree" => l.st = NoStacks
  /\ l.pc \in Loop \/ (l.pc = "grown" /\ l.j > 0) => PageOf(l) <= NPages /\ Mapped(PageOf(l))
  /\ InRound(l) => l.cur \in Nat \ {0} /\ PageOf(l) < NPages /\ tables # 0
  /\ l.pc = "enter" => pages[PageOf(l)] # 0

\* How far main() is, and who calls what then.
BootInv ==
  /\ boot \notin {"up", "panic"} => \A c \in Callers \ {BootCaller} : call[c].pc = "idle"
  /\ boot = "vm" => call[BootCaller].pc = "idle"
  /\ boot \in {"vm", "cpu"} => cpuStack = Null
  /\ \A c \in Callers : call[c].pc \in Growth /\ call[c].for = "cpu" => boot = "cpu"
  /\ \A c \in Callers : call[c].op = "sched" => boot = "sched"
  /\ sched # Null => boot = "up"

\* The chunks grow_critical has, or its caller has not yet taken over.
Pending ==
  {[who |-> <<"chunk", c, 0>>, from |-> call[c].i0 * PageUnits, size |-> call[c].j * PageUnits] :
     c \in {c \in Callers : call[c].pc \in Loop \cup {"grown"} /\ call[c].j > 0}}
Items == Holders \cup Pending

\* All that is held lies in the pages that are there, and they are entered.
Fits(h) ==
  /\ h.from \in Nat /\ h.size \in Nat \ {0}
  /\ \E m \in 0..NPages : Mapped(m) /\ h.from + h.size <= m * PageUnits
  /\ \A p \in 0..(NPages - 1) :
       p * PageUnits < h.from + h.size /\ h.from < (p + 1) * PageUnits => pte[p] # Null
FitInv == \A h \in Items : Fits(h)

\* All that is entered is held.
Covers(h, u) == h.from <= u /\ u < h.from + h.size
Rest(h, p, u) == h.from <= u /\ (p + 1) * PageUnits < h.from + 2 * h.size
CoverInv ==
  \A p \in 0..(NPages - 1) : pte[p] # Null =>
    \A u \in (p * PageUnits)..((p + 1) * PageUnits - 1) :
      (\E h \in Items : Covers(h, u)) \/ (\E h \in Buffers : Rest(h, p, u))

\* The inductive invariant, for any number of callers.
IInv ==
  /\ TypeOK /\ FrameInv /\ BootInv /\ FitInv /\ CoverInv
  /\ \A c \in Callers : CallOK(call[c])

\* What is needed besides for chunks that do not overlap: a chunk grows behind
\* everything else.
Apart(g, h) == g.from + g.size <= h.from \/ h.from + h.size <= g.from
ApartInv ==
  /\ \A g, h \in Items : g.who # h.who => Apart(g, h)
  /\ \A c \in Callers : call[c].pc \in Loop =>
       \A h \in Items : h.who # <<"chunk", c, 0>> => h.from + h.size <= call[c].i0 * PageUnits

\* ... and for a page table that has the frames of ds_pages: they differ only
\* where a page is about to be entered.
SyncInv ==
  /\ \A p \in 0..(NPages - 1) : pages[p] # 0 =>
       pte[p] = pages[p] \/ \E c \in Callers : call[c].pc = "enter" /\ PageOf(call[c]) = p
  /\ \A c \in Callers : call[c].pc = "enter" => pages[PageOf(call[c])] = call[c].cur

\* What a step has to show.
Kept == IInv' /\ (ApartInv => ApartInv') /\ (SyncInv => SyncInv')

-----------------------------------------------------------------------------
\* The constants, one by one.
LEMMA Sizes ==
  /\ BootCaller \in Callers /\ FrameCounts \subseteq Nat
  /\ NTables \in Nat \ {0} /\ NPages \in Nat \ {0} /\ PageUnits \in Nat \ {0}
  /\ StackPages \in Nat \ {0} /\ StackBase \in Nat \ {0} /\ StackBase < PageUnits
  /\ "thread" \in Zones /\ "sched" \in Zones
  /\ \A z \in Zones : BufSize[z] \in Nat \ {0} /\ BufSize[z] <= PageUnits
  /\ Null \notin Callers /\ Null \notin Nat /\ Null \notin Chunks /\ Null \notin Stacks
  /\ Null \notin {"thread", "sched", "cpu", "zone", "stack"}
BY SizesOK

\* Multiples of a page or of a buffer.
LEMMA Multiples ==
  ASSUME NEW a \in Nat, NEW b \in Nat, NEW u \in Nat
  PROVE  /\ a * u \in Nat /\ (a + 1) * u = a * u + u /\ (a + b) * u = a * u + b * u
         /\ a <= b => a * u <= b * u
         /\ a < b => a * u + u <= b * u
<1>1. a * u \in Nat /\ (a + 1) * u = a * u + u /\ (a + b) * u = a * u + b * u
  OBVIOUS
<1>2. a <= b => a * u <= b * u
  <2>1. ASSUME a <= b PROVE a * u <= b * u
    <3>1. PICK d \in Nat : b = a + d
      BY <2>1
    <3>2. b * u = a * u + d * u /\ d * u \in Nat /\ a * u \in Nat
      BY <3>1
    <3>3. QED BY <3>2
  <2>2. QED BY Zenon, <2>1
<1>3. a < b => a * u + u <= b * u
  <2>1. ASSUME a < b PROVE a * u + u <= b * u
    <3>1. PICK d \in Nat : b = a + 1 + d
      BY <2>1
    <3>2. b * u = a * u + u + d * u /\ d * u \in Nat /\ a * u \in Nat
      BY <3>1
    <3>3. QED BY <3>2
  <2>2. QED BY Zenon, <2>1
<1>4. QED BY Zenon, <1>1, <1>2, <1>3

\* A size and the buffers that fit into it.
LEMMA FitsIn ==
  ASSUME NEW s \in Nat, NEW u \in Nat \ {0}
  PROVE  /\ s \div u \in Nat /\ (s \div u) * u <= s /\ s < (s \div u) * u + u
         /\ (s \div u) * u \in Nat
<1>1. s = u * (s \div u) + (s % u) /\ s % u \in 0..(u - 1) /\ s \div u \in Nat
  OBVIOUS
<1>2. QED BY <1>1

-----------------------------------------------------------------------------
\* What a step does to the items: it leaves them as they are ...
Same(g, h) == g.from = h.from /\ g.size = h.size
Stays == Items' = Items /\ Buffers' = Buffers

\* ... or hands the items X on as the items Y, f[y] being what y was before.
\* A chunk is only handed on once its loop is over.
HandedOn(X, Y, f) ==
  /\ X \subseteq Items /\ Items' = (Items \ X) \cup Y
  /\ \A y \in Y : f[y] \in X /\ Same(f[y], y) /\ (f[y] \in Buffers => y \in Buffers')
  /\ \A x \in X : \E y \in Y : f[y] = x
  /\ Buffers \ X \subseteq Buffers'
  /\ \A y, z \in Y : y.who # z.who => f[y].who # f[z].who
  /\ \A g \in Items \ X, x \in X : g.who # x.who
  /\ \A c \in Callers : call'[c].pc \in Loop =>
       /\ call[c].pc \in Loop /\ call'[c].i0 = call[c].i0
       /\ \A x \in X : x.who # <<"chunk", c, 0>>

\* The buffers are among the items.
LEMMA BuffersAreItems == Buffers \subseteq Items
BY Zenon DEF Items, Holders

\* A step after which the same memory is held, under whatever names, keeps all
\* of it in mapped pages and none of it lost.
LEMMA Carried ==
  ASSUME FitInv, CoverInv, UNCHANGED <<pages, pte>>,
         \A h \in Items' : \E g \in Items : Same(g, h),
         \A g \in Items : \E h \in Items' : Same(g, h),
         \A g \in Buffers : \E h \in Buffers' : Same(g, h)
  PROVE  FitInv' /\ CoverInv'
<1>1. FitInv'
  BY DEF FitInv, Fits, Same, Mapped
<1>2. CoverInv'
  <2> SUFFICES ASSUME NEW p \in 0..(NPages - 1), pte[p] # Null,
                      NEW u \in (p * PageUnits)..((p + 1) * PageUnits - 1)
               PROVE  \/ \E h \in Items' : Covers(h, u)
                      \/ \E h \in Buffers' : Rest(h, p, u)
    BY Zenon DEF CoverInv, Covers, Rest
  <2>1. CASE \E g \in Items : Covers(g, u)
    BY Zenon, <2>1 DEF Covers, Same
  <2>2. CASE \E g \in Buffers : Rest(g, p, u)
    BY Zenon, <2>2 DEF Rest, Same
  <2>3. QED BY Zenon, <2>1, <2>2 DEF CoverInv
<1>3. QED BY Zenon, <1>1, <1>2

\* So does a step that changes no item ...
LEMMA StaysKeeps ==
  ASSUME FitInv, CoverInv, UNCHANGED <<pages, pte>>, Stays
  PROVE  FitInv' /\ CoverInv'
<1>1. \A g : Same(g, g)
  BY Zenon DEF Same
<1>2. QED BY Zenon, <1>1, Carried DEF Stays

\* ... and one that hands items on.
LEMMA HandedOnKeeps ==
  ASSUME FitInv, CoverInv, UNCHANGED <<pages, pte>>, NEW X, NEW Y, NEW f, HandedOn(X, Y, f)
  PROVE  FitInv' /\ CoverInv'
<1>1. \A g : Same(g, g)
  BY Zenon DEF Same
<1>2. \A h \in Items' : \E g \in Items : Same(g, h)
  BY Zenon, <1>1 DEF HandedOn
<1>3. \A g \in Items : \E h \in Items' : Same(g, h)
  BY <1>1 DEF HandedOn
<1>4. \A g \in Buffers : \E h \in Buffers' : Same(g, h)
  BY <1>1, BuffersAreItems DEF HandedOn
<1>5. QED BY Zenon, <1>2, <1>3, <1>4, Carried

\* Handing on keeps items apart.
LEMMA HandedOnApart ==
  ASSUME ApartInv, NEW X, NEW Y, NEW f, HandedOn(X, Y, f)
  PROVE  ApartInv'
<1> DEFINE old(h) == IF h \in Y THEN f[h] ELSE h
<1>1. \A h \in Items' : old(h) \in Items /\ Same(old(h), h)
  BY Zenon DEF HandedOn, Same
<1>2. ASSUME NEW g \in Items', NEW h \in Items', g.who # h.who PROVE old(g).who # old(h).who
  <2>1. CASE g \in Y /\ h \in Y
    BY Zenon, <1>2, <2>1 DEF HandedOn
  <2>2. CASE g \in Y /\ h \notin Y
    <3>1. f[g] \in X /\ h \in Items \ X
      BY Zenon, <2>2 DEF HandedOn
    <3>2. QED BY Zenon, <2>2, <3>1 DEF HandedOn
  <2>3. CASE g \notin Y /\ h \in Y
    <3>1. f[h] \in X /\ g \in Items \ X
      BY Zenon, <2>3 DEF HandedOn
    <3>2. QED BY <2>3, <3>1 DEF HandedOn
  <2>4. CASE g \notin Y /\ h \notin Y
    BY Zenon, <1>2, <2>4
  <2>5. QED BY Zenon, <2>1, <2>2, <2>3, <2>4
<1>3. ASSUME NEW g \in Items', NEW h \in Items', g.who # h.who PROVE Apart(g, h)
  <2>1. Apart(old(g), old(h))
    BY Zenon, <1>1, <1>2, <1>3 DEF ApartInv
  <2>2. Same(old(g), g) /\ Same(old(h), h)
    BY Zenon, <1>1
  <2> HIDE DEF old
  <2>3. QED BY Zenon, <2>1, <2>2 DEF Apart, Same
<1>4. ASSUME NEW c \in Callers, call'[c].pc \in Loop, NEW h \in Items', h.who # <<"chunk", c, 0>>
      PROVE  h.from + h.size <= call'[c].i0 * PageUnits
  <2>1. /\ call[c].pc \in Loop /\ call'[c].i0 = call[c].i0
        /\ \A x \in X : x.who # <<"chunk", c, 0>>
    BY Zenon, <1>4 DEF HandedOn
  <2>2. old(h).who # <<"chunk", c, 0>>
    <3>1. CASE h \in Y
      BY Zenon, <2>1, <3>1 DEF HandedOn
    <3>2. CASE h \notin Y
      BY Zenon, <1>4, <3>2
    <3>3. QED BY Zenon, <3>1, <3>2
  <2>3. old(h) \in Items /\ Same(old(h), h)
    BY Zenon, <1>1
  <2> HIDE DEF old
  <2>4. old(h).from + old(h).size <= call[c].i0 * PageUnits
    BY Zenon, <2>1, <2>2, <2>3 DEF ApartInv
  <2>5. QED BY Zenon, <2>1, <2>3, <2>4 DEF Same
<1>5. QED BY Zenon, <1>3, <1>4 DEF ApartInv, Apart

\* A step that changes no item, and lets no loop begin, keeps items apart.
LEMMA StaysApart ==
  ASSUME ApartInv, Stays,
         \A c \in Callers : call'[c].pc \in Loop =>
           call[c].pc \in Loop /\ call'[c].i0 = call[c].i0
  PROVE  ApartInv'
<1>1. \A g, h \in Items' : g.who # h.who => Apart(g, h)
  BY Zenon DEF ApartInv, Stays
<1>2. ASSUME NEW c \in Callers, call'[c].pc \in Loop, NEW h \in Items', h.who # <<"chunk", c, 0>>
      PROVE  h.from + h.size <= call'[c].i0 * PageUnits
  BY Zenon, <1>2 DEF ApartInv, Stays
<1>3. QED BY Zenon, <1>1, <1>2 DEF ApartInv, Apart

-----------------------------------------------------------------------------
\* The items by what they belong to: the list of a zone, the threads, the
\* scheduler, the list of stacks, the CPU, and the call of a caller.
Bufs(z, s) ==
  {[who |-> <<"free", z, Len(s) - k>>, from |-> s[k], size |-> BufSize[z]] : k \in 1..Len(s)}
ThreadBuf(t) == [who |-> <<"thread", t, 0>>, from |-> t.buf, size |-> BufSize["thread"]]
ThreadBufs(T) == {ThreadBuf(t) : t \in T}
ThreadStack(t, k) == StackHolder(<<"stack", t, k>>, t.st[k])
ThreadStacks(T) == UNION {{ThreadStack(t, k) : k \in 1..2} : t \in T}
SchedBufs(b) ==
  {[who |-> <<"sched", 0, 0>>, from |-> x, size |-> BufSize["sched"]] : x \in {b} \ {Null}}
Listed(s) == {StackHolder(<<"list", 0, Len(s) - k>>, s[k]) : k \in 1..Len(s)}
CpuHeld(m) ==
  {[who |-> <<"cpu", 0, 0>>, from |-> x.begin, size |-> x.size] : x \in {m} \ {Null}}
CallBuf(c, b) == [who |-> <<"call", c, 0>>, from |-> b, size |-> BufSize["thread"]]
HeldBufs(c, l) == {CallBuf(c, b) : b \in {l.buf} \ {Null}}
HeldStacks(c, l) ==
  {StackHolder(<<"built", c, k>>, l.st[k]) : k \in {k \in 1..2 : l.st[k] # Null}}
ChunkItem(c, l) ==
  [who |-> <<"chunk", c, 0>>, from |-> l.i0 * PageUnits, size |-> l.j * PageUnits]
HasChunk(l) == l.pc \in Loop \cup {"grown"} /\ l.j > 0
HeldChunks(c, l) == IF HasChunk(l) THEN {ChunkItem(c, l)} ELSE {}

\* What a step of caller c on zone z cannot touch.
FreesBut(z) == UNION {Bufs(y, zone[y].list) : y \in Zones \ {z}}
BufsBut(c) == UNION {HeldBufs(d, call[d]) : d \in Callers \ {c}}
StacksBut(c) == UNION {HeldStacks(d, call[d]) : d \in Callers \ {c}}
ChunksBut(c) == UNION {HeldChunks(d, call[d]) : d \in Callers \ {c}}

\* The buffers and the items, put together from these.
AllBuffers(c, z) ==
  FreesBut(z) \cup BufsBut(c) \cup Bufs(z, zone[z].list) \cup ThreadBufs(threads)
  \cup SchedBufs(sched) \cup HeldBufs(c, call[c])
AllOthers(c) ==
  StacksBut(c) \cup ChunksBut(c) \cup ThreadStacks(threads) \cup Listed(stacks)
  \cup CpuHeld(cpuStack) \cup HeldStacks(c, call[c]) \cup HeldChunks(c, call[c])

\* The definitions of the model, put together from the same parts.
LEMMA BufferParts ==
  ASSUME NEW c \in Callers, NEW z \in Zones
  PROVE  Buffers = AllBuffers(c, z)
<1>1. FreeBuffers = FreesBut(z) \cup Bufs(z, zone[z].list)
  <2>1. FreeBuffers = UNION {Bufs(v, zone[v].list) : v \in Zones}
    BY DEF FreeBuffers, Bufs
  <2>2. QED BY Zenon, <2>1 DEF FreesBut
<1>2. CallBuffers = BufsBut(c) \cup HeldBufs(c, call[c])
  BY DEF CallBuffers, BufsBut, HeldBufs, CallBuf
<1>3. ThreadBuffers = ThreadBufs(threads)
  BY Zenon DEF ThreadBuffers, ThreadBufs, ThreadBuf
<1>4. SchedBuffers = SchedBufs(sched)
  BY Zenon DEF SchedBuffers, SchedBufs
<1>5. QED BY Zenon, <1>1, <1>2, <1>3, <1>4 DEF Buffers, AllBuffers

\* The same for all items.
LEMMA ItemParts ==
  ASSUME NEW c \in Callers, NEW z \in Zones
  PROVE  Items = AllBuffers(c, z) \cup AllOthers(c)
<1>1. StacksOfCalls = StacksBut(c) \cup HeldStacks(c, call[c])
  <2>1. StacksOfCalls = UNION {HeldStacks(d, call[d]) : d \in Callers}
    BY Zenon DEF StacksOfCalls, HeldStacks
  <2>2. QED BY Zenon, <2>1 DEF StacksBut
<1>2. Pending = ChunksBut(c) \cup HeldChunks(c, call[c])
  BY Zenon DEF Pending, ChunksBut, HeldChunks, HasChunk, ChunkItem
<1>3. ListedStacks = Listed(stacks)
  BY Zenon DEF ListedStacks, Listed
<1>4. StacksOfThreads = ThreadStacks(threads)
  BY Zenon DEF StacksOfThreads, ThreadStacks, ThreadStack
<1>5. CpuHolders = CpuHeld(cpuStack)
  BY Zenon DEF CpuHolders, CpuHeld
<1>6. QED BY Zenon, <1>1, <1>2, <1>3, <1>4, <1>5, BufferParts DEF Items, Holders, AllOthers

\* Both, before and after a step ...
LEMMA Parts ==
  ASSUME NEW c \in Callers, NEW z \in Zones
  PROVE  /\ Buffers = AllBuffers(c, z) /\ Buffers' = AllBuffers(c, z)'
         /\ Items = AllBuffers(c, z) \cup AllOthers(c)
         /\ Items' = AllBuffers(c, z)' \cup AllOthers(c)'
<1>1. Buffers = AllBuffers(c, z) /\ Items = AllBuffers(c, z) \cup AllOthers(c)
  BY Zenon, BufferParts, ItemParts
<1>2. (Buffers = AllBuffers(c, z) /\ Items = AllBuffers(c, z) \cup AllOthers(c))'
  BY <1>1, PTL
<1>3. QED BY Zenon, <1>1, <1>2

\* ... and after it in terms of the primed variables.
LEMMA PartsAfter ==
  ASSUME NEW c \in Callers, NEW z \in Zones
  PROVE  /\ Buffers' = FreesBut(z)' \cup BufsBut(c)' \cup Bufs(z, zone'[z].list) \cup ThreadBufs(threads')
              \cup SchedBufs(sched') \cup HeldBufs(c, call'[c])
         /\ Items' = Buffers' \cup (StacksBut(c)' \cup ChunksBut(c)' \cup ThreadStacks(threads')
              \cup Listed(stacks') \cup CpuHeld(cpuStack') \cup HeldStacks(c, call'[c])
              \cup HeldChunks(c, call'[c]))
BY Zenon, Parts DEF AllBuffers, AllOthers

\* Which part an item belongs to shows in its name: what has another name is elsewhere.
LEMMA Tags ==
  ASSUME NEW c \in Callers, NEW z \in Zones, NEW x
  PROVE  /\ x.who[1] # "free" => x \notin FreesBut(z) /\ x \notin Bufs(z, zone[z].list)
         /\ x.who[1] # "call" => x \notin BufsBut(c) /\ x \notin HeldBufs(c, call[c])
         /\ x.who[1] # "built" => x \notin StacksBut(c) /\ x \notin HeldStacks(c, call[c])
         /\ x.who[1] # "chunk" => x \notin ChunksBut(c) /\ x \notin HeldChunks(c, call[c])
         /\ x.who[1] # "thread" => x \notin ThreadBufs(threads)
         /\ x.who[1] # "stack" => x \notin ThreadStacks(threads)
         /\ x.who[1] # "sched" => x \notin SchedBufs(sched)
         /\ x.who[1] # "list" => x \notin Listed(stacks)
         /\ x.who[1] # "cpu" => x \notin CpuHeld(cpuStack)
         /\ x.who[2] = z => x \notin FreesBut(z)
         /\ x.who[2] = c => x \notin BufsBut(c) /\ x \notin StacksBut(c) /\ x \notin ChunksBut(c)
<1>1. x \in FreesBut(z) => x.who[1] = "free" /\ x.who[2] # z
  BY DEF FreesBut, Bufs
<1>2. x \in BufsBut(c) => x.who[1] = "call" /\ x.who[2] # c
  BY DEF BufsBut, HeldBufs, CallBuf
<1>3. x \in StacksBut(c) => x.who[1] = "built" /\ x.who[2] # c
  BY DEF StacksBut, HeldStacks, StackHolder
<1>4. x \in ChunksBut(c) => x.who[1] = "chunk" /\ x.who[2] # c
  BY DEF ChunksBut, HeldChunks, ChunkItem
<1>5. /\ x \in Bufs(z, zone[z].list) => x.who[1] = "free"
      /\ x \in ThreadBufs(threads) => x.who[1] = "thread"
      /\ x \in SchedBufs(sched) => x.who[1] = "sched"
      /\ x \in CpuHeld(cpuStack) => x.who[1] = "cpu"
  BY DEF Bufs, ThreadBufs, ThreadBuf, SchedBufs, CpuHeld
<1>6. /\ x \in ThreadStacks(threads) => x.who[1] = "stack"
      /\ x \in Listed(stacks) => x.who[1] = "list"
  BY DEF ThreadStacks, ThreadStack, Listed, StackHolder
<1>7. /\ x \in HeldBufs(c, call[c]) => x.who[1] = "call"
      /\ x \in HeldStacks(c, call[c]) => x.who[1] = "built"
      /\ x \in HeldChunks(c, call[c]) => x.who[1] = "chunk"
  BY DEF HeldBufs, CallBuf, HeldStacks, StackHolder, HeldChunks, ChunkItem
<1>8. QED BY Zenon, <1>1, <1>2, <1>3, <1>4, <1>5, <1>6, <1>7

\* A name tells the item.
Named(w) ==
  CASE w[1] = "free" ->
         [who |-> w, from |-> zone[w[2]].list[Len(zone[w[2]].list) - w[3]], size |-> BufSize[w[2]]]
    [] w[1] = "thread" -> ThreadBuf(w[2])
    [] w[1] = "sched" -> [who |-> w, from |-> sched, size |-> BufSize["sched"]]
    [] w[1] = "list" -> StackHolder(w, stacks[Len(stacks) - w[3]])
    [] w[1] = "stack" -> StackHolder(w, w[2].st[w[3]])
    [] w[1] = "cpu" -> [who |-> w, from |-> cpuStack.begin, size |-> cpuStack.size]
    [] w[1] = "call" -> CallBuf(w[2], call[w[2]].buf)
    [] w[1] = "built" -> StackHolder(w, call[w[2]].st[w[3]])
    [] w[1] = "chunk" -> ChunkItem(w[2], call[w[2]])

\* No two items have the same name.
LEMMA Names ==
  ASSUME TypeOK, NEW g \in Items, NEW h \in Items, g.who = h.who
  PROVE  g = h
<1>1. ASSUME NEW x \in Items PROVE x = Named(x.who)
  <2>1. CASE x \in FreeBuffers
    <3>0. PICK z \in Zones : \E k \in 1..Len(zone[z].list) :
             x = [who |-> <<"free", z, Len(zone[z].list) - k>>, from |-> zone[z].list[k], size |-> BufSize[z]]
      BY Zenon, <2>1 DEF FreeBuffers
    <3>1. PICK k \in 1..Len(zone[z].list) :
             x = [who |-> <<"free", z, Len(zone[z].list) - k>>, from |-> zone[z].list[k], size |-> BufSize[z]]
      BY <3>0, Zenon
    <3>2. Len(zone[z].list) \in Nat
      BY DEF TypeOK
    <3>3. Len(zone[z].list) - (Len(zone[z].list) - k) = k
      BY <3>2
    <3>4. x.who[1] = "free" /\ x.who[2] = z /\ x.who[3] = Len(zone[z].list) - k
      BY Zenon, <3>1
    <3>5. QED BY <3>1, <3>3, Zenon DEF Named
  <2>2. CASE x \in ThreadBuffers
    BY <2>2 DEF ThreadBuffers, Named, ThreadBuf
  <2>3. CASE x \in CallBuffers
    BY <2>3 DEF CallBuffers, Named, CallBuf
  <2>4. CASE x \in SchedBuffers
    BY <2>4 DEF SchedBuffers, Named
  <2>5. CASE x \in ListedStacks
    <3>1. PICK k \in 1..Len(stacks) : x = StackHolder(<<"list", 0, Len(stacks) - k>>, stacks[k])
      BY Zenon, <2>5 DEF ListedStacks
    <3>2. Len(stacks) \in Nat
      BY DEF TypeOK
    <3>3. Len(stacks) - (Len(stacks) - k) = k
      BY <3>2
    <3>4. x.who = <<"list", 0, Len(stacks) - k>>
      BY Zenon, <3>1 DEF StackHolder
    <3>5. x.who[1] = "list" /\ x.who[3] = Len(stacks) - k
      BY <3>4
    <3>6. QED BY <3>1, <3>3, <3>4, <3>5, Zenon DEF Named
  <2>6. CASE x \in StacksOfThreads
    <3>1. PICK t \in threads, k \in 1..2 : x = StackHolder(<<"stack", t, k>>, t.st[k])
      BY <2>6, Zenon DEF StacksOfThreads
    <3>2. x.who = <<"stack", t, k>>
      BY Zenon, <3>1 DEF StackHolder
    <3>3. x.who[1] = "stack" /\ x.who[2] = t /\ x.who[3] = k
      BY <3>2
    <3>4. QED BY <3>1, <3>2, <3>3, Zenon DEF Named
  <2>7. CASE x \in StacksOfCalls
    <3>1. PICK c \in Callers, k \in 1..2 : x = StackHolder(<<"built", c, k>>, call[c].st[k])
      BY <2>7, Zenon DEF StacksOfCalls
    <3>2. x.who = <<"built", c, k>>
      BY Zenon, <3>1 DEF StackHolder
    <3>3. x.who[1] = "built" /\ x.who[2] = c /\ x.who[3] = k
      BY <3>2
    <3>4. QED BY <3>1, <3>2, <3>3, Zenon DEF Named
  <2>8. CASE x \in CpuHolders
    BY <2>8 DEF CpuHolders, Named
  <2>9. CASE x \in Pending
    BY <2>9 DEF Pending, Named, ChunkItem
  <2>10. QED
    BY Zenon, <2>1, <2>2, <2>3, <2>4, <2>5, <2>6, <2>7, <2>8, <2>9 DEF Items, Holders, Buffers
<1>2. QED BY Zenon, <1>1

\* A step of caller c on zone z leaves the other parts alone.
LEMMA Elsewhere ==
  ASSUME NEW c \in Callers, NEW z \in Zones,
         \A d \in Callers \ {c} : call'[d] = call[d],
         \A y \in Zones \ {z} : zone'[y].list = zone[y].list
  PROVE  /\ FreesBut(z)' = FreesBut(z) /\ BufsBut(c)' = BufsBut(c)
         /\ StacksBut(c)' = StacksBut(c) /\ ChunksBut(c)' = ChunksBut(c)
<1>1. FreesBut(z)' = FreesBut(z)
  BY Zenon DEF FreesBut
<1>2. BufsBut(c)' = BufsBut(c)
  BY Zenon DEF BufsBut
<1>3. StacksBut(c)' = StacksBut(c)
  BY Zenon DEF StacksBut
<1>4. ChunksBut(c)' = ChunksBut(c)
  BY Zenon DEF ChunksBut
<1>5. QED BY Zenon, <1>1, <1>2, <1>3, <1>4

\* The head of a list is its last name; the others keep theirs.
LEMMA Tails ==
  ASSUME NEW S, NEW s \in Seq(S), Len(s) > 0
  PROVE  /\ Tail(s) \in Seq(S) /\ Len(Tail(s)) = Len(s) - 1 /\ Len(s) \in Nat
         /\ Head(s) = s[1] /\ s[1] \in S
         /\ \A k \in 1..(Len(s) - 1) : Tail(s)[k] = s[k + 1]
<1>1. s # << >>
  OBVIOUS
<1>2. Tail(s) \in Seq(S) /\ Len(Tail(s)) = Len(s) - 1 /\ Len(s) \in Nat /\ Head(s) = s[1]
  BY <1>1
<1>3. \A k \in 1..(Len(s) - 1) : Tail(s)[k] = s[k + 1]
  BY <1>1
<1>4. QED BY <1>2, <1>3

\* A list that got a new head.
LEMMA Pushed ==
  ASSUME NEW S, NEW s \in Seq(S), NEW b \in S
  PROVE  /\ <<b>> \o s \in Seq(S) /\ Len(<<b>> \o s) > 0 /\ Head(<<b>> \o s) = b
         /\ Tail(<<b>> \o s) = s
<1> DEFINE t == <<b>> \o s
<1>1. t \in Seq(S) /\ Len(t) = Len(s) + 1 /\ Len(s) \in Nat /\ t[1] = b
      /\ \A k \in 1..Len(s) : t[k + 1] = s[k]
  OBVIOUS
<1> HIDE DEF t
<1>2. Len(t) > 0
  BY <1>1
<1>3. /\ Tail(t) \in Seq(S) /\ Len(Tail(t)) = Len(s) /\ Head(t) = b
      /\ \A k \in 1..Len(s) : Tail(t)[k] = s[k]
  BY <1>1, <1>2, Tails
<1>4. Tail(t) = s
  BY <1>1, <1>3
<1>5. QED BY Zenon, <1>1, <1>2, <1>3, <1>4 DEF t

\* The head and the tail of a list.
LEMMA NotEmpty ==
  ASSUME NEW S, NEW s \in Seq(S), s # << >>
  PROVE  Len(s) > 0 /\ Tail(s) \in Seq(S) /\ Head(s) \in S
OBVIOUS

\* Pairs with the same components are equal.
LEMMA SamePair ==
  ASSUME NEW S, NEW f \in [1..2 -> S], NEW g \in [1..2 -> S], \A i \in 1..2 : f[i] = g[i]
  PROVE  f = g
OBVIOUS

TopBuf(z, s) == [who |-> <<"free", z, Len(s) - 1>>, from |-> Head(s), size |-> BufSize[z]]
TopStack(s) == StackHolder(<<"list", 0, Len(s) - 1>>, Head(s))

\* Taking the head of a free list (remove_top) takes one buffer off it.
LEMMA PopBufs ==
  ASSUME NEW z, NEW s \in Seq(Nat), Len(s) > 0
  PROVE  Bufs(z, s) = Bufs(z, Tail(s)) \cup {TopBuf(z, s)} /\ TopBuf(z, s) \notin Bufs(z, Tail(s))
<1> DEFINE n == Len(s)
           item(k) == [who |-> <<"free", z, n - k>>, from |-> s[k], size |-> BufSize[z]]
           t == Tail(s)
<1>1. n \in Nat /\ n > 0 /\ Len(t) = n - 1 /\ Head(s) = s[1] /\ \A k \in 1..(n - 1) : t[k] = s[k + 1]
  BY Zenon, Tails
<1>2. Bufs(z, s) = {item(k) : k \in 1..n} /\ TopBuf(z, s) = item(1)
  BY Zenon, <1>1 DEF Bufs, TopBuf
<1> HIDE DEF n, t
<1>3. Bufs(z, t) = {item(k + 1) : k \in 1..(n - 1)}
  <2>1. Bufs(z, t) = {[who |-> <<"free", z, (n - 1) - k>>, from |-> t[k], size |-> BufSize[z]] : k \in 1..(n - 1)}
    BY Zenon, <1>1 DEF Bufs
  <2>2. \A k \in 1..(n - 1) :
          [who |-> <<"free", z, (n - 1) - k>>, from |-> t[k], size |-> BufSize[z]] = item(k + 1)
    <3>1. \A k \in 1..(n - 1) : (n - 1) - k = n - (k + 1) /\ t[k] = s[k + 1]
      BY <1>1
    <3>2. QED BY <3>1, Zenon
  <2> HIDE DEF item
  <2>3. QED BY <2>1, <2>2, Zenon
<1>4. item(1) \notin {item(k + 1) : k \in 1..(n - 1)}
  <2> SUFFICES ASSUME NEW k \in 1..(n - 1), item(1) = item(k + 1) PROVE FALSE
    BY Zenon
  <2>1. item(1).who = <<"free", z, n - 1>> /\ item(k + 1).who = <<"free", z, n - (k + 1)>>
    BY Zenon
  <2>2. item(1).who = item(k + 1).who
    BY Zenon
  <2> HIDE DEF item
  <2>3. <<"free", z, n - 1>> = <<"free", z, n - (k + 1)>>
    BY Zenon, <2>1, <2>2
  <2>4. n - 1 = n - (k + 1)
    BY Zenon, <2>3
  <2>5. QED BY <1>1, <2>4
<1>5. {item(k) : k \in 1..n} = {item(k + 1) : k \in 1..(n - 1)} \cup {item(1)}
  <2> HIDE DEF item
  <2>1. \A k \in 1..n : k = 1 \/ (k - 1 \in 1..(n - 1) /\ k = (k - 1) + 1)
    BY <1>1
  <2>2. \A k \in 1..(n - 1) : k + 1 \in 1..n
    BY <1>1
  <2>3. 1 \in 1..n
    BY <1>1
  <2>4. QED BY Zenon, <2>1, <2>2, <2>3
<1> HIDE DEF item
<1>6. QED BY <1>2, <1>3, <1>4, <1>5, Zenon DEF t

\* The same for the list of stacks (kernstack_allocate).
LEMMA PopStacks ==
  ASSUME NEW s \in Seq(Stacks), Len(s) > 0
  PROVE  Listed(s) = Listed(Tail(s)) \cup {TopStack(s)} /\ TopStack(s) \notin Listed(Tail(s))
<1> DEFINE n == Len(s)
           item(k) == StackHolder(<<"list", 0, n - k>>, s[k])
           t == Tail(s)
<1>1. n \in Nat /\ n > 0 /\ Len(t) = n - 1 /\ Head(s) = s[1] /\ \A k \in 1..(n - 1) : t[k] = s[k + 1]
  BY Zenon, Tails
<1>2. Listed(s) = {item(k) : k \in 1..n} /\ TopStack(s) = item(1)
  BY Zenon, <1>1 DEF Listed, TopStack
<1> HIDE DEF n, t
<1>3. Listed(t) = {item(k + 1) : k \in 1..(n - 1)}
  <2>1. Listed(t) = {StackHolder(<<"list", 0, (n - 1) - k>>, t[k]) : k \in 1..(n - 1)}
    BY Zenon, <1>1 DEF Listed
  <2>2. \A k \in 1..(n - 1) : StackHolder(<<"list", 0, (n - 1) - k>>, t[k]) = item(k + 1)
    <3>1. \A k \in 1..(n - 1) : (n - 1) - k = n - (k + 1) /\ t[k] = s[k + 1]
      BY <1>1
    <3>2. QED BY Zenon, <3>1
  <2> HIDE DEF item
  <2>3. QED BY <2>1, <2>2, Zenon
<1>4. item(1) \notin {item(k + 1) : k \in 1..(n - 1)}
  <2> SUFFICES ASSUME NEW k \in 1..(n - 1), item(1) = item(k + 1) PROVE FALSE
    BY Zenon
  <2>1. item(1).who = <<"list", 0, n - 1>> /\ item(k + 1).who = <<"list", 0, n - (k + 1)>>
    BY Zenon DEF StackHolder
  <2>2. item(1).who = item(k + 1).who
    BY Zenon
  <2> HIDE DEF item
  <2>3. <<"list", 0, n - 1>> = <<"list", 0, n - (k + 1)>>
    BY Zenon, <2>1, <2>2
  <2>4. n - 1 = n - (k + 1)
    BY Zenon, <2>3
  <2>5. QED BY <1>1, <2>4
<1>5. {item(k) : k \in 1..n} = {item(k + 1) : k \in 1..(n - 1)} \cup {item(1)}
  <2> HIDE DEF item
  <2>1. \A k \in 1..n : k = 1 \/ (k - 1 \in 1..(n - 1) /\ k = (k - 1) + 1)
    BY <1>1
  <2>2. \A k \in 1..(n - 1) : k + 1 \in 1..n
    BY <1>1
  <2>3. 1 \in 1..n
    BY <1>1
  <2>4. QED BY Zenon, <2>1, <2>2, <2>3
<1> HIDE DEF item
<1>6. QED BY Zenon, <1>2, <1>3, <1>4, <1>5 DEF t

\* One item is handed on.
LEMMA HandOne ==
  ASSUME TypeOK, FitInv, CoverInv, UNCHANGED <<pages, pte>>, NEW x \in Items, NEW y,
         Items' = (Items \ {x}) \cup {y}, Same(x, y),
         x \in Buffers => y \in Buffers', Buffers \ {x} \subseteq Buffers',
         \A c \in Callers : call'[c].pc \in Loop =>
           call[c].pc \in Loop /\ call'[c].i0 = call[c].i0 /\ x.who # <<"chunk", c, 0>>
  PROVE  FitInv' /\ CoverInv' /\ (ApartInv => ApartInv')
<1> DEFINE f == [w \in {y} |-> x]
<1>1. \A g \in Items \ {x} : g.who # x.who
  BY Zenon, Names
<1>2. f[y] = x
  BY Zenon
<1> HIDE DEF f
<1>3. HandedOn({x}, {y}, f)
  BY Zenon, <1>1, <1>2 DEF HandedOn
<1>4. QED BY Zenon, <1>3, HandedOnKeeps, HandedOnApart

-----------------------------------------------------------------------------
\* The parts of a caller's locals.
LEMMA LocalTypes ==
  ASSUME TypeOK, NEW c \in Callers
  PROVE  /\ call[c] \in Locals
         /\ call[c].pc \in {"idle", "zalloc", "take", "stack", "built", "release", "zfree"} \cup Growth
         /\ call[c].op \in {"thread", "sched", Null} /\ call[c].for \in {"cpu", "zone", "stack", Null}
         /\ call[c].n \in Nat /\ call[c].i0 \in Nat /\ call[c].j \in Nat
         /\ call[c].buf \in Nat \cup {Null} /\ call[c].st \in [1..2 -> Stacks \cup {Null}]
         /\ call[c].k \in 1..2
BY Zenon DEF TypeOK, Locals

\* A caller that is in no call.
LEMMA IdleTypes == Idle \in Locals /\ CallOK(Idle) /\ Idle.pc = "idle" /\ Idle.op = Null
  /\ Idle.st = NoStacks /\ Idle.buf = Null /\ Idle.j = 0 /\ Idle.k = 1
<1>1. Idle.pc = "idle" /\ Idle.op = Null /\ Idle.st = NoStacks /\ Idle.buf = Null /\ Idle.j = 0
      /\ Idle.k = 1 /\ Idle.for = Null /\ Idle.n = 0 /\ Idle.i0 = 0
  BY Zenon DEF Idle, NoStacks
<1>2. NoStacks \in [1..2 -> Stacks \cup {Null}]
  BY Zenon DEF NoStacks
<1>3. Idle \in Locals
  BY <1>1, <1>2 DEF Idle, Locals, NoStacks
<1>4. CallOK(Idle)
  BY Zenon, <1>1 DEF CallOK, Growth, Loop, InRound
<1>5. QED BY Zenon, <1>1, <1>3, <1>4

\* Only caller c moves, and only among the memory it has.
LEMMA StaysIf ==
  ASSUME NEW c \in Callers, \A d \in Callers \ {c} : call'[d] = call[d],
         \A z \in Zones : zone'[z].list = zone[z].list,
         UNCHANGED <<threads, sched, stacks, cpuStack>>,
         call'[c].buf = call[c].buf, call'[c].st = call[c].st,
         HeldChunks(c, call'[c]) = HeldChunks(c, call[c])
  PROVE  Stays
<1> DEFINE z == "thread"
<1>1. z \in Zones
  BY Zenon, Sizes
<1> HIDE DEF z
<1>2. /\ FreesBut(z)' = FreesBut(z) /\ BufsBut(c)' = BufsBut(c)
      /\ StacksBut(c)' = StacksBut(c) /\ ChunksBut(c)' = ChunksBut(c)
  BY Zenon, <1>1, Elsewhere
<1>3. /\ HeldBufs(c, call'[c]) = HeldBufs(c, call[c])
      /\ HeldStacks(c, call'[c]) = HeldStacks(c, call[c])
  BY Zenon DEF HeldBufs, HeldStacks
<1>4. AllBuffers(c, z)' = AllBuffers(c, z)
  BY Zenon, <1>1, <1>2, <1>3 DEF AllBuffers
<1>5. AllOthers(c)' = AllOthers(c)
  BY Zenon, <1>2, <1>3 DEF AllOthers
<1>6. QED BY <1>1, <1>4, <1>5, Parts, Zenon DEF Stays

\* What a step that takes no frame has to show.
LEMMA Keeps ==
  ASSUME IInv, NEW c \in Callers, boot # "vm", boot' # "vm",
         UNCHANGED <<free, tables, pages, pte>>,
         \A d \in Callers \ {c} : call'[d] = call[d],
         ~InRound(call[c]), ~InRound(call'[c]),
         TypeOK', BootInv', FitInv', CoverInv', CallOK(call[c])'
  PROVE  IInv' /\ (SyncInv => SyncInv')
<1>0. /\ \A d \in Callers : InRound(call'[d]) => InRound(call[d]) /\ call'[d] = call[d]
      /\ \A d \in Callers : InRound(call[d]) => InRound(call'[d]) /\ call'[d] = call[d]
  BY Zenon
<1>1. FrameInv'
  <2>1. \A f, p : Owns(f, p)' => Owns(f, p)
    BY Zenon, <1>0 DEF Owns, InRound, PageOf
  <2>2. \A p \in 0..(NPages - 1) : pages'[p] # 0 /\ pte'[p] = Null =>
          \E d \in Callers : InRound(call'[d]) /\ PageOf(call'[d]) = p
    BY Zenon, <1>0 DEF IInv, FrameInv
  <2>3. QED BY Zenon, <2>1, <2>2 DEF IInv, FrameInv, InRound, PageOf
<1>4. ASSUME SyncInv PROVE SyncInv'
  BY Zenon, <1>0, <1>4 DEF SyncInv, InRound, PageOf
<1>2. \A d \in Callers : CallOK(call[d])'
  <2>1. ASSUME NEW d \in Callers, d # c PROVE CallOK(call[d])'
    BY <2>1 DEF IInv, CallOK, Mapped, InRound, PageOf
  <2>2. QED BY Zenon, <2>1
<1>3. QED BY Zenon, <1>1, <1>2, <1>4 DEF IInv

\* A caller goes on, and main() is where it was.
LEMMA BootSame ==
  ASSUME BootInv, NEW c \in Callers, call[c].pc # "idle", UNCHANGED <<boot, cpuStack, sched>>,
         \A d \in Callers \ {c} : call'[d] = call[d],
         call'[c].op = "sched" => call[c].op = "sched",
         call'[c].pc \in Growth /\ call'[c].for = "cpu" => call[c].pc \in Growth /\ call[c].for = "cpu"
  PROVE  BootInv' /\ boot # "vm"
<1>1. boot \notin {"up", "panic"} => c = BootCaller
  BY Zenon DEF BootInv
<1>2. boot # "vm"
  BY Zenon, <1>1 DEF BootInv
<1>3. boot' \notin {"up", "panic"} => \A d \in Callers \ {BootCaller} : call'[d].pc = "idle"
  BY Zenon, <1>1 DEF BootInv
<1>4. \A d \in Callers : call'[d].pc \in Growth /\ call'[d].for = "cpu" => boot' = "cpu"
  BY Zenon DEF BootInv
<1>5. \A d \in Callers : call'[d].op = "sched" => boot' = "sched"
  BY Zenon DEF BootInv
<1>6. (boot' \in {"vm", "cpu"} => cpuStack' = Null) /\ (sched' # Null => boot' = "up")
  BY Zenon DEF BootInv
<1>7. QED BY Zenon, <1>2, <1>3, <1>4, <1>5, <1>6 DEF BootInv

-----------------------------------------------------------------------------
\* The ways a caller moves.
LEMMA Moved ==
  ASSUME TypeOK, NEW c \in Callers, NEW l \in Locals, call' = [call EXCEPT ![c] = l]
  PROVE  /\ call' \in [Callers -> Locals] /\ call'[c] = l
         /\ \A d \in Callers \ {c} : call'[d] = call[d]
BY Zenon DEF TypeOK

\* It goes on within its call,
LEMMA GotoIs ==
  ASSUME TypeOK, NEW c \in Callers, NEW pc, Goto(c, pc),
         pc \in {"idle", "zalloc", "take", "stack", "built", "release", "zfree"} \cup Growth
  PROVE  /\ call' \in [Callers -> Locals] /\ \A d \in Callers \ {c} : call'[d] = call[d]
         /\ call'[c] = [call[c] EXCEPT !.pc = pc]
         /\ call'[c].pc = pc /\ call'[c].op = call[c].op /\ call'[c].for = call[c].for
         /\ call'[c].n = call[c].n /\ call'[c].i0 = call[c].i0 /\ call'[c].j = call[c].j
         /\ call'[c].buf = call[c].buf /\ call'[c].st = call[c].st /\ call'[c].k = call[c].k
<1> DEFINE l == call[c]
           m == [l EXCEPT !.pc = pc]
<1>1. l \in Locals
  BY Zenon DEF TypeOK
<1>2. m \in Locals /\ m.pc = pc /\ m.op = l.op /\ m.for = l.for /\ m.n = l.n /\ m.i0 = l.i0
      /\ m.j = l.j /\ m.buf = l.buf /\ m.st = l.st /\ m.k = l.k
  BY Zenon, <1>1 DEF Locals
<1>3. call' = [call EXCEPT ![c] = m]
  BY Zenon DEF Goto
<1> HIDE DEF m
<1>4. call' \in [Callers -> Locals] /\ call'[c] = m /\ \A d \in Callers \ {c} : call'[d] = call[d]
  BY <1>2, <1>3, Moved, Zenon
<1>5. QED BY Zenon, <1>2, <1>4 DEF m

\* calls kmem_kalloc, which scans ds_pages first,
LEMMA KallocIs ==
  ASSUME TypeOK, NEW c \in Callers, NEW for \in {"cpu", "zone", "stack"}, NEW n \in Nat,
         CallKalloc(c, for, n)
  PROVE  /\ call' \in [Callers -> Locals] /\ \A d \in Callers \ {c} : call'[d] = call[d]
         /\ call'[c].pc = "scan" /\ call'[c].op = call[c].op /\ call'[c].for = for
         /\ call'[c].buf = call[c].buf /\ call'[c].st = call[c].st /\ call'[c].k = call[c].k
<1> DEFINE l == call[c]
           m == [l EXCEPT !.pc = "scan", !.for = for, !.n = n]
<1>1. l \in Locals
  BY Zenon DEF TypeOK
<1>2. m \in Locals /\ m.pc = "scan" /\ m.op = l.op /\ m.for = for
      /\ m.buf = l.buf /\ m.st = l.st /\ m.k = l.k
  BY <1>1, Zenon DEF Locals, Growth
<1>3. call' = [call EXCEPT ![c] = m]
  BY Zenon DEF CallKalloc
<1> HIDE DEF m
<1>4. call' \in [Callers -> Locals] /\ call'[c] = m /\ \A d \in Callers \ {c} : call'[d] = call[d]
  BY <1>2, <1>3, Moved, Zenon
<1>5. QED BY Zenon, <1>2, <1>4

\* returns,
LEMMA ReturnedIs ==
  ASSUME TypeOK, NEW c \in Callers, Returned(c)
  PROVE  /\ call' \in [Callers -> Locals] /\ \A d \in Callers \ {c} : call'[d] = call[d]
         /\ call'[c] = Idle
BY IdleTypes, Moved, Zenon DEF Returned

\* or calls zalloc.
LEMMA ZallocIs ==
  ASSUME TypeOK, NEW c \in Callers, NEW z \in {"thread", "sched"}, CallZalloc(c, z)
  PROVE  /\ call' \in [Callers -> Locals] /\ \A d \in Callers \ {c} : call'[d] = call[d]
         /\ call'[c].pc = "zalloc" /\ call'[c].op = z /\ call'[c].buf = Null
         /\ call'[c].st = NoStacks /\ call'[c].k = 1 /\ call'[c].j = 0
<1> DEFINE m == [Idle EXCEPT !.pc = "zalloc", !.op = z]
<1>1. m \in Locals /\ m.pc = "zalloc" /\ m.op = z /\ m.buf = Idle.buf /\ m.st = Idle.st /\ m.k = Idle.k
      /\ m.j = Idle.j
  BY IdleTypes, Zenon DEF Locals
<1>2. call' = [call EXCEPT ![c] = m]
  BY Zenon DEF CallZalloc
<1> HIDE DEF m
<1>3. QED BY <1>1, <1>2, Moved, IdleTypes, Zenon

\* A step that hands nothing on ...
LEMMA Quiet ==
  ASSUME IInv, NEW c \in Callers, boot # "vm", boot' # "vm",
         UNCHANGED <<free, tables, pages, pte, threads, stacks, cpuStack, sched>>,
         \A d \in Callers \ {c} : call'[d] = call[d],
         \A z \in Zones : zone'[z].list = zone[z].list,
         TypeOK', BootInv', CallOK(call[c])', ~InRound(call[c]), ~InRound(call'[c]),
         call'[c].buf = call[c].buf, call'[c].st = call[c].st,
         HeldChunks(c, call'[c]) = HeldChunks(c, call[c]),
         call'[c].pc \in Loop => call[c].pc \in Loop /\ call'[c].i0 = call[c].i0
  PROVE  Kept
<1>1. Stays
  BY Zenon, StaysIf
<1>2. FitInv' /\ CoverInv'
  BY Zenon, <1>1, StaysKeeps DEF IInv
<1>3. IInv' /\ (SyncInv => SyncInv')
  BY Zenon, <1>2, Keeps
<1>4. \A d \in Callers : call'[d].pc \in Loop => call[d].pc \in Loop /\ call'[d].i0 = call[d].i0
  BY Zenon
<1>5. QED BY Zenon, <1>1, <1>3, <1>4, StaysApart DEF Kept

\* ... and one that hands on an item which is not the chunk of a loop.
LEMMA Handover ==
  ASSUME IInv, NEW c \in Callers, boot # "vm", boot' # "vm",
         UNCHANGED <<free, tables, pages, pte>>,
         \A d \in Callers \ {c} : call'[d] = call[d],
         TypeOK', BootInv', CallOK(call[c])', ~InRound(call[c]),
         call'[c].pc \notin Loop, NEW x \in Items, NEW y,
         x.who[1] = "chunk" => x.who[2] = c,
         Items' = (Items \ {x}) \cup {y}, Same(x, y),
         x \in Buffers => y \in Buffers', Buffers \ {x} \subseteq Buffers'
  PROVE  Kept
<1>1. \A d \in Callers : call'[d].pc \in Loop =>
        call[d].pc \in Loop /\ call'[d].i0 = call[d].i0 /\ x.who # <<"chunk", d, 0>>
  <2> SUFFICES ASSUME NEW d \in Callers, call'[d].pc \in Loop
               PROVE  call[d].pc \in Loop /\ call'[d].i0 = call[d].i0 /\ x.who # <<"chunk", d, 0>>
    BY Zenon
  <2>1. d # c
    BY Zenon
  <2>2. x.who = <<"chunk", d, 0>> => x.who[1] = "chunk" /\ x.who[2] = d
    OBVIOUS
  <2>3. QED BY Zenon, <2>1, <2>2
<1>2. FitInv' /\ CoverInv' /\ (ApartInv => ApartInv')
  BY Zenon, <1>1, HandOne DEF IInv
<1>3. ~InRound(call'[c])
  BY Zenon DEF InRound, Loop
<1>4. QED BY Zenon, <1>2, <1>3, Keeps DEF Kept

\* What a zone is after an assignment to it, and after its lock is taken or given back.
ZoneStates == [list : Seq(Nat), count : Int, lock : Callers \cup {Null}]

\* An assignment to a zone.
LEMMA ZoneIs ==
  ASSUME TypeOK, NEW z \in Zones, NEW r \in ZoneStates, zone' = [zone EXCEPT ![z] = r]
  PROVE  /\ zone' \in [Zones -> [list : Seq(Nat), count : Int, lock : Callers \cup {Null}]]
         /\ zone'[z] = r /\ \A v \in Zones \ {z} : zone'[v] = zone[v]
BY Zenon DEF TypeOK, ZoneStates

\* Taking its lock or giving it back leaves the lists.
LEMMA ZoneLocked ==
  ASSUME TypeOK, NEW z \in Zones, NEW w \in Callers \cup {Null}, zone' = [zone EXCEPT ![z].lock = w]
  PROVE  /\ zone' \in [Zones -> [list : Seq(Nat), count : Int, lock : Callers \cup {Null}]]
         /\ \A v \in Zones : zone'[v].list = zone[v].list
<1> DEFINE r == [list |-> zone[z].list, count |-> zone[z].count, lock |-> w]
<1>1. zone[z] \in ZoneStates
  BY Zenon DEF TypeOK, ZoneStates
<1>2. [zone[z] EXCEPT !.lock = w] = r
  BY <1>1 DEF ZoneStates
<1>3. r \in ZoneStates /\ r.list = zone[z].list
  BY Zenon, <1>1 DEF ZoneStates
<1>4. zone' = [zone EXCEPT ![z] = r]
  BY Zenon, <1>2
<1> HIDE DEF r
<1>5. QED BY Zenon, <1>3, <1>4, ZoneIs

\* The pages that zalloc asks for when a zone is empty.
LEMMA PagesForType ==
  ASSUME NEW z \in Zones
  PROVE  PagesFor(BufSize[z] * ZNum) \in Nat
<1>1. BufSize[z] \in Nat /\ ZNum \in Nat /\ PageUnits \in Nat \ {0}
  BY Zenon, Sizes, SizesOK
<1>2. BufSize[z] * ZNum \in Nat
  BY <1>1
<1> DEFINE s == BufSize[z] * ZNum + PageUnits - 1
<1>3. s \in Nat
  BY <1>1, <1>2
<1> HIDE DEF s
<1>4. s \div PageUnits \in Nat
  BY Zenon, <1>1, <1>3, FitsIn
<1>5. QED BY Zenon, <1>4 DEF PagesFor, s

\* zalloc looks for a buffer, and calls kmem_kalloc if there is none.
LEMMA ZallocKeeps ==
  ASSUME IInv, NEW c \in Callers, Zalloc(c)
  PROVE  Kept
<1> USE DEF Growth, Loop, InRound
<1> DEFINE l == call[c]
           m == call'[c]
           z == l.op
<1>1. l.pc = "zalloc" /\ CallOK(l) /\ TypeOK /\ l.op \in {"thread", "sched"}
  BY Zenon, LocalTypes DEF IInv, Zalloc, At, CallOK
<1>2. z \in Zones
  BY Zenon, <1>1, Sizes
<1>3. PagesFor(BufSize[z] * ZNum) \in Nat
  BY Zenon, <1>2, PagesForType
<1>4. /\ call' \in [Callers -> Locals] /\ \A d \in Callers \ {c} : call'[d] = call[d]
      /\ m.op = l.op /\ m.buf = l.buf /\ m.st = l.st /\ m.k = l.k
      /\ \/ m.pc = "scan" /\ m.for = "zone"
         \/ m.pc = "take"
  <2>1. CASE zone[z].count < ZMin
    <3>1. CallKalloc(c, "zone", PagesFor(BufSize[z] * ZNum))
      BY Zenon, <2>1 DEF Zalloc
    <3>2. QED BY Zenon, <1>1, <1>3, <3>1, KallocIs
  <2>2. CASE ~(zone[z].count < ZMin)
    <3>1. Goto(c, "take")
      BY Zenon, <2>2 DEF Zalloc
    <3>2. QED BY <1>1, <3>1, GotoIs, Zenon
  <2>3. QED BY Zenon, <2>1, <2>2
<1>5. /\ zone' \in [Zones -> [list : Seq(Nat), count : Int, lock : Callers \cup {Null}]]
      /\ \A y \in Zones : zone'[y].list = zone[y].list
  BY Zenon, <1>1, <1>2, ZoneLocked DEF Zalloc
<1>6. UNCHANGED <<boot, free, tables, pages, pte, stacks, cpuStack, sched, threads>>
  BY Zenon DEF Zalloc
<1>7. TypeOK'
  BY Zenon, <1>1, <1>4, <1>5, <1>6 DEF TypeOK
<1>8. BootInv' /\ boot # "vm"
  BY Zenon, <1>1, <1>4, <1>6, BootSame DEF IInv
<1> HIDE DEF l, m, z
<1>9. CallOK(m)
  BY Zenon, <1>1, <1>4, Sizes DEF CallOK
<1>10. CallOK(call[c])'
  BY Zenon, <1>9, <1>6 DEF CallOK, Mapped, m
<1>11. HeldChunks(c, m) = HeldChunks(c, l)
  BY Zenon, <1>1, <1>4 DEF HeldChunks, HasChunk
<1>12. m.pc \notin Loop
  BY Zenon, <1>4
<1>13. QED BY Zenon, <1>1, <1>4, <1>5, <1>6, <1>7, <1>8, <1>10, <1>11, <1>12, Quiet DEF l, m

\* thread_allocate is called.
LEMMA ThreadAllocateKeeps ==
  ASSUME IInv, NEW c \in Callers, ThreadAllocate(c)
  PROVE  Kept
<1> USE DEF Growth, Loop, InRound
<1> DEFINE l == call[c]
           m == call'[c]
<1>1. l = Idle /\ TypeOK /\ boot = "up" /\ BootInv
  BY Zenon DEF IInv, ThreadAllocate, At, CallOK
<1>2. /\ call' \in [Callers -> Locals] /\ \A d \in Callers \ {c} : call'[d] = call[d]
      /\ m.pc = "zalloc" /\ m.op = "thread" /\ m.buf = l.buf /\ m.st = l.st /\ m.k = 1 /\ m.j = 0
      /\ m.buf = Null /\ m.st = NoStacks
  BY Zenon, <1>1, ZallocIs, IdleTypes DEF ThreadAllocate
<1>3. UNCHANGED <<boot, free, tables, pages, pte, zone, stacks, cpuStack, sched, threads>>
  BY Zenon DEF ThreadAllocate
<1>4. TypeOK'
  BY Zenon, <1>1, <1>2, <1>3 DEF TypeOK
<1>5. BootInv'
  BY <1>1, <1>2, <1>3 DEF BootInv
<1>6. l.pc = "idle"
  BY Zenon, <1>1, IdleTypes
<1> HIDE DEF l, m
<1>7. CallOK(m)
  BY Zenon, <1>2, Sizes DEF CallOK
<1>8. CallOK(call[c])'
  BY Zenon, <1>3, <1>7 DEF CallOK, Mapped, m
<1>9. HeldChunks(c, m) = HeldChunks(c, l)
  BY Zenon, <1>2, <1>6 DEF HeldChunks, HasChunk
<1>10. QED BY <1>1, <1>2, <1>3, <1>4, <1>5, <1>6, <1>8, <1>9, Quiet, Zenon DEF l, m

\* A step that touches no list, thread or buffer of a call leaves the buffers.
LEMMA BuffersStay ==
  ASSUME NEW c \in Callers, \A d \in Callers \ {c} : call'[d] = call[d],
         \A z \in Zones : zone'[z].list = zone[z].list, UNCHANGED <<threads, sched>>,
         call'[c].buf = call[c].buf
  PROVE  Buffers' = Buffers
<1> DEFINE z == "thread"
<1>1. z \in Zones
  BY Zenon, Sizes
<1> HIDE DEF z
<1>2. FreesBut(z)' = FreesBut(z) /\ BufsBut(c)' = BufsBut(c)
  BY Zenon, <1>1, Elsewhere
<1>3. HeldBufs(c, call'[c]) = HeldBufs(c, call[c])
  BY Zenon DEF HeldBufs
<1>4. AllBuffers(c, z)' = AllBuffers(c, z)
  BY Zenon, <1>1, <1>2, <1>3 DEF AllBuffers
<1>5. QED BY Zenon, <1>1, <1>4, Parts

\* main() gets the memory for the stack of the CPU.
LEMMA CpuStackKeeps ==
  ASSUME IInv, NEW c \in Callers, CpuStack(c)
  PROVE  Kept
<1> USE DEF Growth, Loop, InRound
<1> DEFINE l == call[c]
           m == call'[c]
<1>1. /\ l.pc = "grown" /\ l.for = "cpu" /\ CallOK(l) /\ TypeOK /\ BootInv /\ l \in Locals
      /\ l.buf = Null /\ l.st = NoStacks /\ l.j \in Nat /\ l.i0 \in Nat
  BY Zenon, LocalTypes DEF IInv, CpuStack, At, CallOK
<1>2. boot = "cpu" /\ cpuStack = Null /\ c = BootCaller
  BY Zenon, <1>1 DEF BootInv
<1>3. UNCHANGED <<free, tables, pages, pte, zone, stacks, sched, threads>>
  BY Zenon DEF CpuStack
<1>4. CASE l.j = 0
  <2>1. boot' = "panic" /\ Returned(c) /\ UNCHANGED cpuStack
    BY Zenon, <1>4 DEF CpuStack
  <2>2. call' \in [Callers -> Locals] /\ (\A d \in Callers \ {c} : call'[d] = call[d]) /\ m = Idle
    BY Zenon, <1>1, <2>1, ReturnedIs
  <2>3. TypeOK'
    BY Zenon, <1>1, <1>3, <2>1, <2>2 DEF TypeOK
  <2>4. BootInv'
    BY <1>1, <1>2, <1>3, <2>1, <2>2, IdleTypes, Sizes DEF BootInv
  <2>5. CallOK(call[c])'
    BY Zenon, <2>2, IdleTypes DEF CallOK
  <2>6. m.buf = l.buf /\ m.st = l.st /\ m.pc = "idle"
    BY Zenon, <1>1, <2>2, IdleTypes
  <2> HIDE DEF l, m
  <2>7. HeldChunks(c, m) = HeldChunks(c, l)
    BY <1>4, <2>6 DEF HeldChunks, HasChunk
  <2>8. QED BY Zenon, <1>1, <1>2, <1>3, <2>1, <2>2, <2>3, <2>4, <2>5, <2>6, <2>7, Quiet DEF l, m
<1>5. CASE l.j # 0
  <2> DEFINE x == ChunkItem(c, l)
             y == [who |-> <<"cpu", 0, 0>>, from |-> l.i0 * PageUnits, size |-> l.j * PageUnits]
             z == "thread"
             R == FreesBut(z) \cup BufsBut(c) \cup Bufs(z, zone[z].list) \cup ThreadBufs(threads)
                  \cup SchedBufs(sched) \cup HeldBufs(c, l) \cup StacksBut(c) \cup ChunksBut(c)
                  \cup ThreadStacks(threads) \cup Listed(stacks) \cup HeldStacks(c, l)
  <2>1. cpuStack' = Chunk(l) /\ boot' = "idle" /\ CallZalloc(c, "thread")
    BY Zenon, <1>5 DEF CpuStack
  <2>2. /\ call' \in [Callers -> Locals] /\ \A d \in Callers \ {c} : call'[d] = call[d]
        /\ m.pc = "zalloc" /\ m.op = "thread" /\ m.buf = Null /\ m.st = NoStacks /\ m.k = 1
    BY Zenon, <1>1, <2>1, ZallocIs
  <2>3. Chunk(l) \in Chunks /\ Chunk(l).begin = l.i0 * PageUnits /\ Chunk(l).size = l.j * PageUnits
    BY Zenon, <1>1, Sizes, Multiples DEF Chunk, Chunks
  <2>4. TypeOK'
    BY Zenon, <1>1, <1>3, <2>1, <2>2, <2>3 DEF TypeOK
  <2>5. BootInv'
    BY <1>1, <1>2, <1>3, <2>1, <2>2 DEF BootInv
  <2> HIDE DEF l, m
  <2>6. CallOK(call[c])'
    BY Zenon, <2>2, Sizes DEF CallOK, m
  <2>7. HeldChunks(c, l) = {x} /\ HeldChunks(c, m) = {}
    BY <1>1, <1>5, <2>2 DEF HeldChunks, HasChunk
  <2>8. CpuHeld(cpuStack) = {} /\ CpuHeld(cpuStack') = {y}
    <3>1. Null # Chunk(l)
      BY Zenon, <2>3, Sizes
    <3>2. {cpuStack} \ {Null} = {} /\ {cpuStack'} \ {Null} = {Chunk(l)}
      BY Zenon, <1>2, <2>1, <3>1
    <3>3. QED BY Zenon, <2>3, <3>2 DEF CpuHeld
  <2>9. /\ FreesBut(z)' = FreesBut(z) /\ BufsBut(c)' = BufsBut(c)
        /\ StacksBut(c)' = StacksBut(c) /\ ChunksBut(c)' = ChunksBut(c) /\ z \in Zones
    BY Zenon, <1>3, <2>2, Elsewhere, Sizes
  <2>10. HeldBufs(c, m) = HeldBufs(c, l) /\ HeldStacks(c, m) = HeldStacks(c, l)
    BY Zenon, <1>1, <2>2 DEF HeldBufs, HeldStacks
  <2> HIDE DEF z
  <2>11. Items = R \cup CpuHeld(cpuStack) \cup HeldChunks(c, l)
    <3>1. Items = (FreesBut(z) \cup BufsBut(c) \cup Bufs(z, zone[z].list) \cup ThreadBufs(threads)
                    \cup SchedBufs(sched) \cup HeldBufs(c, l))
                  \cup (StacksBut(c) \cup ChunksBut(c) \cup ThreadStacks(threads) \cup Listed(stacks)
                    \cup CpuHeld(cpuStack) \cup HeldStacks(c, l) \cup HeldChunks(c, l))
      <4> HIDE DEF R
      <4>1. QED BY Zenon, <2>9, Parts DEF AllBuffers, AllOthers, l
    <3>2. QED BY Zenon, <3>1
  <2>12. Items' = R \cup CpuHeld(cpuStack') \cup HeldChunks(c, m)
    <3>1. Items' = (FreesBut(z) \cup BufsBut(c) \cup Bufs(z, zone[z].list) \cup ThreadBufs(threads)
                     \cup SchedBufs(sched) \cup HeldBufs(c, l))
                   \cup (StacksBut(c) \cup ChunksBut(c) \cup ThreadStacks(threads) \cup Listed(stacks)
                     \cup CpuHeld(cpuStack') \cup HeldStacks(c, l) \cup HeldChunks(c, m))
      <4> HIDE DEF R
      <4>1. QED BY Zenon, <1>3, <2>9, <2>10, PartsAfter DEF m
    <3>2. QED BY Zenon, <3>1
  <2>13. Buffers' = Buffers
    BY Zenon, <1>1, <1>3, <2>2, BuffersStay DEF m, l
  <2>14. x.who[1] = "chunk" /\ x.who[2] = c /\ Same(x, y)
    BY Zenon DEF ChunkItem, Same
  <2>15. x \notin R /\ x \notin Buffers
    <3> HIDE DEF x, y
    <3>1. x \notin AllBuffers(c, z)
      BY Zenon, <2>9, <2>14, Tags DEF AllBuffers
    <3>2. /\ x \notin StacksBut(c) /\ x \notin ChunksBut(c) /\ x \notin ThreadStacks(threads)
          /\ x \notin Listed(stacks) /\ x \notin HeldStacks(c, l)
      BY Zenon, <2>9, <2>14, Tags DEF l
    <3>3. QED BY Zenon, <2>9, <3>1, <3>2, Parts DEF AllBuffers, l
  <2> HIDE DEF R, x, y
  <2>16. x \in Items /\ Items' = (Items \ {x}) \cup {y}
    BY Zenon, <2>7, <2>8, <2>11, <2>12, <2>15
  <2>17. m.pc \notin Loop /\ boot # "vm" /\ boot' # "vm"
    BY Zenon, <1>1, <1>2, <2>1, <2>2
  <2>18. QED BY Zenon, <1>1, <1>3, <2>2, <2>4, <2>5, <2>6, <2>13, <2>14, <2>15, <2>16, <2>17, Handover
                DEF l, m
<1>6. QED BY Zenon, <1>4, <1>5
-----------------------------------------------------------------------------
\* Kernel stacks.
Puts(c, s, pc) ==
  call' = [call EXCEPT ![c].st[call[c].k] = s, ![c].k = IF @ = 1 THEN 2 ELSE 1, ![c].pc = pc]
Put(l, m, k, s) == m.st[k] = s /\ \A i \in (1..2) \ {k} : m.st[i] = l.st[i]

\* A stack is put into the record of the call, or taken out of it.
LEMMA StIs ==
  ASSUME TypeOK, NEW c \in Callers, NEW s \in Stacks \cup {Null},
         NEW pc \in {"stack", "built", "release", "zfree"},
         Puts(c, s, pc)
  PROVE  /\ call' \in [Callers -> Locals] /\ \A d \in Callers \ {c} : call'[d] = call[d]
         /\ call'[c].pc = pc /\ call'[c].op = call[c].op /\ call'[c].for = call[c].for
         /\ call'[c].buf = call[c].buf /\ Put(call[c], call'[c], call[c].k, s)
         /\ call'[c].k = IF call[c].k = 1 THEN 2 ELSE 1
<1> DEFINE l == call[c]
           st == [l.st EXCEPT ![l.k] = s]
           k == IF l.k = 1 THEN 2 ELSE 1
           m == [l EXCEPT !.st = st, !.k = k, !.pc = pc]
<1>1. l \in Locals /\ l.st \in [1..2 -> Stacks \cup {Null}] /\ l.k \in 1..2
  BY Zenon, LocalTypes
<1>2. st \in [1..2 -> Stacks \cup {Null}] /\ k \in 1..2
  BY <1>1
<1> HIDE DEF st, k
<1>3. m \in Locals /\ m.pc = pc /\ m.op = l.op /\ m.for = l.for /\ m.buf = l.buf /\ m.st = st /\ m.k = k
  BY <1>1, <1>2, Zenon DEF Locals
<1>4. call' = [call EXCEPT ![c] = m]
  BY Zenon, <1>1 DEF st, k, Locals, TypeOK, Puts
<1> HIDE DEF m
<1>5. call' \in [Callers -> Locals] /\ call'[c] = m /\ \A d \in Callers \ {c} : call'[d] = call[d]
  BY <1>3, <1>4, Moved, Zenon
<1>6. st[l.k] = s /\ \A i \in (1..2) \ {l.k} : st[i] = l.st[i]
  BY Zenon, <1>1 DEF st
<1>7. QED BY Zenon, <1>3, <1>5, <1>6 DEF k, Put

BuiltItem(c, k, s) == StackHolder(<<"built", c, k>>, s)

\* t is s with an entry more.
LEMMA PutStack ==
  ASSUME NEW c, NEW l, NEW m, NEW k \in 1..2, NEW s \in Stacks,
         l.st \in [1..2 -> Stacks \cup {Null}], l.st[k] = Null, Put(l, m, k, s)
  PROVE  /\ HeldStacks(c, m) = HeldStacks(c, l) \cup {BuiltItem(c, k, s)}
         /\ BuiltItem(c, k, s) \notin HeldStacks(c, l)
<1>1. m.st[k] = s /\ s # Null /\ \A i \in (1..2) \ {k} : m.st[i] = l.st[i]
  BY Zenon, Sizes DEF Put
<1>2. {i \in 1..2 : m.st[i] # Null} = {i \in 1..2 : l.st[i] # Null} \cup {k}
  BY Zenon, <1>1
<1>3. \A i \in {i \in 1..2 : l.st[i] # Null} : i # k /\ m.st[i] = l.st[i]
  BY Zenon, <1>1
<1>4. HeldStacks(c, m) = HeldStacks(c, l) \cup {BuiltItem(c, k, s)}
  <2>1. /\ HeldStacks(c, m) = {BuiltItem(c, i, m.st[i]) : i \in {i \in 1..2 : m.st[i] # Null}}
        /\ HeldStacks(c, l) = {BuiltItem(c, i, l.st[i]) : i \in {i \in 1..2 : l.st[i] # Null}}
    BY Zenon DEF HeldStacks, BuiltItem
  <2>2. QED BY <1>1, <1>2, <1>3, <2>1
<1>5. ASSUME NEW i \in {i \in 1..2 : l.st[i] # Null},
             StackHolder(<<"built", c, i>>, l.st[i]) = BuiltItem(c, k, s)
      PROVE  FALSE
  <2>1. <<"built", c, i>> = <<"built", c, k>>
    BY Zenon, <1>5 DEF StackHolder, BuiltItem
  <2>2. i = k
    BY Zenon, <2>1
  <2>3. QED BY Zenon, <1>3, <2>2
<1>6. QED BY <1>4, <1>5, Zenon DEF HeldStacks

\* The same, for the caller's own stacks.
LEMMA PutStackCall ==
  ASSUME NEW c, NEW s \in Stacks, call[c].k \in 1..2,
         call[c].st \in [1..2 -> Stacks \cup {Null}], call[c].st[call[c].k] = Null,
         Put(call[c], call'[c], call[c].k, s)
  PROVE  HeldStacks(c, call'[c]) = HeldStacks(c, call[c]) \cup {BuiltItem(c, call[c].k, s)}
<1>1. PICK l, m, k : l = call[c] /\ m = call'[c] /\ k = call[c].k
  BY Zenon
<1>2. l.st \in [1..2 -> Stacks \cup {Null}] /\ l.st[k] = Null /\ k \in 1..2
  BY Zenon, <1>1
<1>3. Put(l, m, k, s)
  BY Zenon, <1>1
<1>4. HeldStacks(c, m) = HeldStacks(c, l) \cup {BuiltItem(c, k, s)} /\ BuiltItem(c, k, s) \notin HeldStacks(c, l)
  BY <1>2, <1>3, PutStack, Zenon
<1>5. QED BY Zenon, <1>1, <1>4

\* And when one is taken from it.
LEMMA TakeStackCall ==
  ASSUME NEW c, NEW s \in Stacks, call[c].k \in 1..2,
         call'[c].st \in [1..2 -> Stacks \cup {Null}], call'[c].st[call[c].k] = Null,
         Put(call'[c], call[c], call[c].k, s)
  PROVE  /\ HeldStacks(c, call[c]) = HeldStacks(c, call'[c]) \cup {BuiltItem(c, call[c].k, s)}
         /\ BuiltItem(c, call[c].k, s) \notin HeldStacks(c, call'[c])
<1>1. PICK l, m, k : l = call'[c] /\ m = call[c] /\ k = call[c].k
  BY Zenon
<1>2. l.st \in [1..2 -> Stacks \cup {Null}] /\ l.st[k] = Null /\ k \in 1..2
  BY Zenon, <1>1
<1>3. Put(l, m, k, s)
  BY Zenon, <1>1
<1>4. HeldStacks(c, m) = HeldStacks(c, l) \cup {BuiltItem(c, k, s)} /\ BuiltItem(c, k, s) \notin HeldStacks(c, l)
  BY <1>2, <1>3, PutStack, Zenon
<1>5. QED BY Zenon, <1>1, <1>4

\* kernstack_allocate takes a stack off the list, or asks for memory.
LEMMA StackAllocateKeeps ==
  ASSUME IInv, NEW c \in Callers, StackAllocate(c)
  PROVE  Kept
<1> USE DEF Growth, Loop, InRound
<1> DEFINE l == call[c]
           m == call'[c]
<1>1. /\ l.pc = "stack" /\ CallOK(l) /\ TypeOK /\ BootInv /\ l \in Locals
      /\ l.buf # Null /\ l.op = "thread" /\ \A x \in l.k..2 : l.st[x] = Null
  BY Zenon, LocalTypes DEF IInv, StackAllocate, At, CallOK
<1>2. UNCHANGED <<boot, free, tables, pages, pte, zone, cpuStack, sched, threads>>
  BY Zenon DEF StackAllocate
<1>3. l.st \in [1..2 -> Stacks \cup {Null}] /\ l.k \in 1..2 /\ stacks \in Seq(Stacks)
  BY Zenon, <1>1, LocalTypes DEF TypeOK
<1>4. CASE stacks = << >>
  <2>1. CallKalloc(c, "stack", StackPages) /\ UNCHANGED stacks /\ StackPages \in Nat
    BY Zenon, <1>4, Sizes DEF StackAllocate
  <2>2. /\ call' \in [Callers -> Locals] /\ \A d \in Callers \ {c} : call'[d] = call[d]
        /\ m.pc = "scan" /\ m.op = l.op /\ m.for = "stack" /\ m.buf = l.buf /\ m.st = l.st /\ m.k = l.k
    BY Zenon, <1>1, <2>1, KallocIs
  <2>3. TypeOK'
    BY Zenon, <1>1, <1>2, <2>1, <2>2 DEF TypeOK
  <2>4. BootInv' /\ boot # "vm"
    BY Zenon, <1>1, <1>2, <2>2, BootSame
  <2> HIDE DEF l, m
  <2>5. CallOK(call[c])'
    BY <1>1, <2>2, Sizes DEF CallOK, m
  <2>6. HeldChunks(c, m) = HeldChunks(c, l)
    BY Zenon, <1>1, <2>2 DEF HeldChunks, HasChunk
  <2>7. QED BY Zenon, <1>1, <1>2, <2>1, <2>2, <2>3, <2>4, <2>5, <2>6, Quiet DEF l, m
<1>5. CASE stacks # << >>
  <2> DEFINE s == Head(stacks)
             pc == IF l.k = 1 THEN "stack" ELSE "built"
             x == TopStack(stacks)
             y == BuiltItem(c, l.k, s)
             z == "thread"
             R == AllBuffers(c, z) \cup StacksBut(c) \cup ChunksBut(c)
                  \cup ThreadStacks(threads) \cup CpuHeld(cpuStack)
  <2>1. Gets(c, s) /\ stacks' = Tail(stacks)
    BY Zenon, <1>5 DEF StackAllocate
  <2>2. s \in Stacks /\ Tail(stacks) \in Seq(Stacks) /\ Len(stacks) > 0
    BY <1>3, <1>5
  <2> HIDE DEF s
  <2>3. /\ call' \in [Callers -> Locals] /\ \A d \in Callers \ {c} : call'[d] = call[d]
        /\ m.pc = pc /\ m.op = l.op /\ m.for = l.for /\ m.buf = l.buf
        /\ Put(l, m, l.k, s) /\ m.k = IF l.k = 1 THEN 2 ELSE 1
    <3>1. Puts(c, s, pc)
      BY Zenon, <2>1 DEF Gets, Puts
    <3>2. pc \in {"stack", "built", "release", "zfree"}
      BY Zenon
    <3> HIDE DEF pc
    <3>3. QED BY <1>1, <2>2, <3>1, <3>2, StIs
  <2>4. TypeOK'
    BY Zenon, <1>1, <1>2, <2>1, <2>2, <2>3 DEF TypeOK
  <2>5. BootInv' /\ boot # "vm"
    BY Zenon, <1>1, <1>2, <2>3, BootSame
  <2> HIDE DEF l, m
  <2>6. CallOK(call[c])'
    <3>1. m.k = 2 => m.st[2] = l.st[2] /\ l.k = 1 /\ l.st[2] = Null
      BY <1>1, <1>3, <2>3 DEF Put
    <3>2. m.pc = "stack" => \A i \in m.k..2 : m.st[i] = Null
      BY <1>3, <2>3, <3>1
    <3>3. QED BY Zenon, <1>1, <1>3, <2>3, <3>2 DEF CallOK, m
  <2>7. HeldChunks(c, m) = HeldChunks(c, l)
    BY Zenon, <1>1, <2>3 DEF HeldChunks, HasChunk
  <2>8. HeldStacks(c, m) = HeldStacks(c, l) \cup {y}
    <3>1. l.st[l.k] = Null
      BY <1>1, <1>3
    <3>2. l.st \in [1..2 -> Stacks \cup {Null}] /\ l.k \in 1..2 /\ s \in Stacks /\ Put(l, m, l.k, s)
      BY Zenon, <1>3, <2>2, <2>3
    <3>3. QED BY Zenon, <3>1, <3>2, PutStackCall DEF l, m
  <2>9. Listed(stacks) = Listed(stacks') \cup {x} /\ x \notin Listed(stacks')
    BY Zenon, <1>3, <2>1, <2>2, PopStacks
  <2>10. /\ FreesBut(z)' = FreesBut(z) /\ BufsBut(c)' = BufsBut(c)
         /\ StacksBut(c)' = StacksBut(c) /\ ChunksBut(c)' = ChunksBut(c) /\ z \in Zones
    BY Zenon, <1>2, <2>3, Elsewhere, Sizes
  <2> HIDE DEF z
  <2>11. Buffers' = Buffers
    BY Zenon, <1>2, <2>3, BuffersStay DEF m, l
  <2>12. Items = R \cup Listed(stacks) \cup HeldStacks(c, l) \cup HeldChunks(c, l)
    BY Zenon, <2>10, Parts DEF AllOthers, l
  <2>13. Items' = R \cup Listed(stacks') \cup HeldStacks(c, m) \cup HeldChunks(c, l)
    <3>1. Items' = Buffers \cup (StacksBut(c) \cup ChunksBut(c) \cup ThreadStacks(threads)
                   \cup Listed(stacks') \cup CpuHeld(cpuStack) \cup HeldStacks(c, m) \cup HeldChunks(c, l))
      BY Zenon, <1>2, <2>7, <2>10, <2>11, PartsAfter DEF m
    <3>2. QED BY Zenon, <2>10, <3>1, Parts
  <2>14. x.who[1] = "list" /\ Same(x, y)
    BY Zenon DEF TopStack, BuiltItem, StackHolder, Same, s
  <2>15. x \notin R /\ x \notin Buffers /\ x \notin HeldStacks(c, l) /\ x \notin HeldChunks(c, l)
    <3> HIDE DEF x, y
    <3>1. x \notin AllBuffers(c, z)
      BY Zenon, <2>10, <2>14, Tags DEF AllBuffers
    <3>2. /\ x \notin StacksBut(c) /\ x \notin ChunksBut(c) /\ x \notin ThreadStacks(threads)
          /\ x \notin CpuHeld(cpuStack) /\ x \notin HeldStacks(c, l) /\ x \notin HeldChunks(c, l)
      BY Zenon, <2>10, <2>14, Tags DEF l
    <3>3. QED BY Zenon, <2>10, <3>1, <3>2, Parts
  <2> HIDE DEF R, x, y
  <2>16. x \in Items /\ Items' = (Items \ {x}) \cup {y}
    BY Zenon, <2>8, <2>9, <2>12, <2>13, <2>15
  <2>17. m.pc \notin Loop /\ boot' # "vm"
    BY Zenon, <1>1, <1>2, <2>3, <2>5
  <2>18. QED BY Zenon, <1>1, <1>2, <2>3, <2>4, <2>5, <2>6, <2>11, <2>14, <2>15, <2>16, <2>17, Handover
                DEF l, m
<1>6. QED BY Zenon, <1>4, <1>5

\* The stack made in a new chunk has all of the chunk.
LEMMA NewStackIs ==
  ASSUME NEW b \in Nat, NEW n \in Nat, n >= PageUnits
  PROVE  /\ NewStack([begin |-> b, size |-> n]) \in Stacks
         /\ NewStack([begin |-> b, size |-> n]).begin = b
         /\ NewStack([begin |-> b, size |-> n]).sp + StackBase - b = n
BY Sizes DEF NewStack, Stacks

\* kernstack_allocate makes a stack of what grow_critical gave it, if anything.
LEMMA StackNewKeeps ==
  ASSUME IInv, NEW c \in Callers, StackNew(c)
  PROVE  Kept
<1> USE DEF Growth, Loop, InRound
<1> DEFINE l == call[c]
           m == call'[c]
           s == IF l.j = 0 THEN Null ELSE NewStack(Chunk(l))
           pc == IF l.k = 1 THEN "stack" ELSE "built"
<1>1. /\ l.pc = "grown" /\ l.for = "stack" /\ CallOK(l) /\ TypeOK /\ BootInv /\ l \in Locals
      /\ l.buf # Null /\ l.op = "thread" /\ \A i \in l.k..2 : l.st[i] = Null
  BY Zenon, LocalTypes DEF IInv, StackNew, At, CallOK
<1>2. UNCHANGED <<boot, free, tables, pages, pte, zone, stacks, cpuStack, sched, threads>>
  BY Zenon DEF StackNew
<1>3. l.st \in [1..2 -> Stacks \cup {Null}] /\ l.k \in 1..2 /\ l.j \in Nat /\ l.i0 \in Nat
  BY Zenon, <1>1, LocalTypes
<1>4. l.j # 0 => /\ NewStack(Chunk(l)) \in Stacks /\ NewStack(Chunk(l)).begin = l.i0 * PageUnits
                 /\ NewStack(Chunk(l)).sp + StackBase - l.i0 * PageUnits = l.j * PageUnits
  <2> SUFFICES ASSUME l.j # 0
               PROVE  /\ NewStack(Chunk(l)) \in Stacks /\ NewStack(Chunk(l)).begin = l.i0 * PageUnits
                      /\ NewStack(Chunk(l)).sp + StackBase - l.i0 * PageUnits = l.j * PageUnits
    BY Zenon
  <2>1. PICK b, n : b = l.i0 * PageUnits /\ n = l.j * PageUnits
    BY Zenon
  <2>2. b \in Nat /\ n \in Nat /\ n >= PageUnits
    <3>1. l.i0 * PageUnits \in Nat /\ l.j * PageUnits \in Nat /\ 1 * PageUnits <= l.j * PageUnits
      BY <1>3, Sizes, Multiples
    <3>2. QED BY <2>1, <3>1, Sizes
  <2>3. Chunk(l) = [begin |-> b, size |-> n]
    BY Zenon, <2>1 DEF Chunk
  <2>4. QED BY <2>1, <2>2, <2>3, NewStackIs
<1>5. s \in Stacks \cup {Null}
  BY Zenon, <1>4
<1>6. /\ call' \in [Callers -> Locals] /\ \A d \in Callers \ {c} : call'[d] = call[d]
      /\ m.pc = pc /\ m.op = l.op /\ m.for = l.for /\ m.buf = l.buf
      /\ Put(l, m, l.k, s) /\ m.k = IF l.k = 1 THEN 2 ELSE 1
  <2>1. Puts(c, s, pc)
    BY Zenon DEF StackNew, Gets, Puts
  <2>2. pc \in {"stack", "built", "release", "zfree"}
    BY Zenon
  <2> HIDE DEF pc, s
  <2>3. QED BY <1>1, <1>5, <2>1, <2>2, StIs
<1> HIDE DEF s
<1>7. TypeOK'
  BY Zenon, <1>1, <1>2, <1>6 DEF TypeOK
<1>8. BootInv' /\ boot # "vm"
  BY Zenon, <1>1, <1>2, <1>6, BootSame
<1>9. m.st \in [1..2 -> Stacks \cup {Null}]
  BY Zenon, <1>6 DEF Locals
<1> HIDE DEF l, m
<1>10. CallOK(call[c])'
  <2>1. m.k = 2 => m.st[2] = l.st[2] /\ l.k = 1 /\ l.st[2] = Null
    BY <1>1, <1>3, <1>6 DEF Put
  <2>2. m.pc = "stack" => \A i \in m.k..2 : m.st[i] = Null
    BY <1>3, <1>6, <2>1
  <2>3. QED BY Zenon, <1>1, <1>3, <1>6, <2>2 DEF CallOK, m
<1>11. HeldChunks(c, m) = {} /\ m.pc \notin Loop /\ boot' # "vm"
  BY Zenon, <1>2, <1>6, <1>8 DEF HeldChunks, HasChunk
<1>12. l.st[l.k] = Null
  BY <1>1, <1>3
<1>13. CASE l.j = 0
  <2>1. HeldChunks(c, l) = {}
    BY <1>13 DEF HeldChunks, HasChunk
  <2>2. s = Null
    BY Zenon, <1>13 DEF s
  <2>3. \A i \in 1..2 : m.st[i] = l.st[i]
    BY Zenon, <1>6, <1>12, <2>2 DEF Put
  <2>4. m.st = l.st
    BY Zenon, <1>3, <1>9, <2>3, SamePair
  <2>5. QED
    BY Zenon, <1>1, <1>2, <1>6, <1>7, <1>8, <1>10, <1>11, <2>1, <2>4, Quiet DEF l, m
<1>14. CASE l.j # 0
  <2> DEFINE x == ChunkItem(c, l)
             y == BuiltItem(c, l.k, s)
             z == "thread"
             R == AllBuffers(c, z) \cup StacksBut(c) \cup ChunksBut(c)
                  \cup ThreadStacks(threads) \cup CpuHeld(cpuStack) \cup Listed(stacks)
  <2>1. s \in Stacks /\ s.begin = l.i0 * PageUnits /\ s.sp + StackBase - l.i0 * PageUnits = l.j * PageUnits
    BY Zenon, <1>4, <1>14 DEF s
  <2>2. HeldChunks(c, l) = {x}
    BY <1>1, <1>3, <1>14 DEF HeldChunks, HasChunk
  <2>3. HeldStacks(c, m) = HeldStacks(c, l) \cup {y}
    BY <1>3, <1>6, <1>12, <2>1, PutStackCall, Zenon DEF l, m
  <2>4. /\ FreesBut(z)' = FreesBut(z) /\ BufsBut(c)' = BufsBut(c)
        /\ StacksBut(c)' = StacksBut(c) /\ ChunksBut(c)' = ChunksBut(c) /\ z \in Zones
    BY Zenon, <1>2, <1>6, Elsewhere, Sizes
  <2> HIDE DEF z
  <2>5. Buffers' = Buffers
    BY Zenon, <1>2, <1>6, BuffersStay DEF m, l
  <2>6. Items = R \cup HeldStacks(c, l) \cup HeldChunks(c, l)
    BY Zenon, <2>4, Parts DEF AllOthers, l
  <2>7. Items' = R \cup HeldStacks(c, m) \cup HeldChunks(c, m)
    <3>1. Items' = Buffers \cup (StacksBut(c) \cup ChunksBut(c) \cup ThreadStacks(threads)
                   \cup Listed(stacks) \cup CpuHeld(cpuStack) \cup HeldStacks(c, m) \cup HeldChunks(c, m))
      BY Zenon, <1>2, <2>4, <2>5, PartsAfter DEF m
    <3>2. QED BY Zenon, <2>4, <3>1, Parts
  <2>8. x.who[1] = "chunk" /\ x.who[2] = c /\ Same(x, y)
    BY Zenon, <2>1 DEF ChunkItem, BuiltItem, StackHolder, Same
  <2>9. x \notin R /\ x \notin Buffers /\ x \notin HeldStacks(c, l)
    <3> HIDE DEF x, y
    <3>1. x \notin AllBuffers(c, z)
      BY Zenon, <2>4, <2>8, Tags DEF AllBuffers
    <3>2. /\ x \notin StacksBut(c) /\ x \notin ChunksBut(c) /\ x \notin ThreadStacks(threads)
          /\ x \notin CpuHeld(cpuStack) /\ x \notin Listed(stacks) /\ x \notin HeldStacks(c, l)
      BY Zenon, <2>4, <2>8, Tags DEF l
    <3>3. QED BY Zenon, <2>4, <3>1, <3>2, Parts
  <2> HIDE DEF R, x, y
  <2>10. x \in Items /\ Items' = (Items \ {x}) \cup {y}
    BY Zenon, <1>1, <1>11, <2>2, <2>3, <2>6, <2>7, <2>9
  <2>11. QED BY Zenon, <1>1, <1>2, <1>6, <1>7, <1>8, <1>10, <1>11, <2>5, <2>8, <2>9, <2>10, Handover DEF l, m
<1>15. QED BY Zenon, <1>13, <1>14

\* thread_allocate gives a stack back to the list.
LEMMA ReleaseKeeps ==
  ASSUME IInv, NEW c \in Callers, Release(c)
  PROVE  Kept
<1> USE DEF Growth, Loop, InRound
<1> DEFINE l == call[c]
           m == call'[c]
           s == l.st[l.k]
           pc == IF l.k = 1 THEN "release" ELSE "zfree"
<1>1. /\ l.pc = "release" /\ CallOK(l) /\ TypeOK /\ BootInv /\ l \in Locals
      /\ l.buf # Null /\ l.op = "thread" /\ \A i \in 1..(l.k - 1) : l.st[i] = Null
  BY Zenon, LocalTypes DEF IInv, Release, At, CallOK
<1>2. UNCHANGED <<boot, free, tables, pages, pte, zone, cpuStack, sched, threads>>
  BY Zenon DEF Release
<1>3. l.st \in [1..2 -> Stacks \cup {Null}] /\ l.k \in 1..2 /\ stacks \in Seq(Stacks)
  BY Zenon, <1>1, LocalTypes DEF TypeOK
<1>4. s \in Stacks \cup {Null}
  BY Zenon, <1>3
<1>5. /\ call' \in [Callers -> Locals] /\ \A d \in Callers \ {c} : call'[d] = call[d]
      /\ m.pc = pc /\ m.op = l.op /\ m.for = l.for /\ m.buf = l.buf
      /\ Put(l, m, l.k, Null) /\ m.k = IF l.k = 1 THEN 2 ELSE 1
  <2>1. Puts(c, Null, pc)
    BY Zenon DEF Release, Puts
  <2>2. pc \in {"stack", "built", "release", "zfree"} /\ Null \in Stacks \cup {Null}
    BY Zenon
  <2> HIDE DEF pc
  <2>3. QED BY <1>1, <2>1, <2>2, StIs
<1>6. stacks' = IF s = Null THEN stacks ELSE <<s>> \o stacks
  BY Zenon DEF Release
<1> HIDE DEF s
<1>7. stacks' \in Seq(Stacks)
  BY Zenon, <1>3, <1>4, <1>6, Pushed
<1>8. TypeOK'
  BY Zenon, <1>1, <1>2, <1>5, <1>7 DEF TypeOK
<1>9. BootInv' /\ boot # "vm"
  BY Zenon, <1>1, <1>2, <1>5, BootSame
<1>10. m.st \in [1..2 -> Stacks \cup {Null}]
  BY Zenon, <1>5 DEF Locals
<1> HIDE DEF l, m
<1>11. m.st[l.k] = Null /\ \A i \in (1..2) \ {l.k} : m.st[i] = l.st[i]
  BY Zenon, <1>5 DEF Put
<1>12. CallOK(call[c])'
  <2>1. CASE l.k = 1
    <3>1. m.pc = "release" /\ m.k = 2 /\ m.st[1] = Null
      BY Zenon, <1>5, <1>11, <2>1
    <3>2. QED BY <1>1, <1>5, <3>1 DEF CallOK, m
  <2>2. CASE l.k = 2
    <3>1. m.pc = "zfree" /\ m.st[1] = Null /\ m.st[2] = Null
      BY <1>1, <1>5, <1>11, <2>2
    <3>2. m.st = NoStacks
      <4>1. \A i \in 1..2 : m.st[i] = NoStacks[i]
        BY <3>1 DEF NoStacks
      <4>2. QED BY Zenon, <1>10, <4>1 DEF NoStacks
    <3>3. QED BY Zenon, <1>1, <1>5, <3>1, <3>2 DEF CallOK, m
  <2>3. QED BY <1>3, <2>1, <2>2
<1>13. HeldChunks(c, m) = {} /\ HeldChunks(c, l) = {} /\ m.pc \notin Loop /\ boot' # "vm"
  BY Zenon, <1>1, <1>2, <1>5, <1>9 DEF HeldChunks, HasChunk
<1>14. CASE s = Null
  <2>1. \A i \in 1..2 : m.st[i] = l.st[i]
    BY Zenon, <1>11, <1>14 DEF s
  <2>2. m.st = l.st
    BY ZenonT(30), <1>3, <1>10, <2>1, SamePair
  <2>3. stacks' = stacks
    BY Zenon, <1>6, <1>14
  <2>4. QED
    BY <1>1, <1>2, <1>5, <1>8, <1>9, <1>12, <1>13, <2>2, <2>3, Quiet, Zenon DEF l, m
<1>15. CASE s # Null
  <2> DEFINE x == BuiltItem(c, l.k, s)
             y == TopStack(stacks')
             z == "thread"
             R == AllBuffers(c, z) \cup StacksBut(c) \cup ChunksBut(c)
                  \cup ThreadStacks(threads) \cup CpuHeld(cpuStack)
  <2>1. s \in Stacks /\ stacks' = <<s>> \o stacks
    BY Zenon, <1>4, <1>6, <1>15
  <2>2. HeldStacks(c, l) = HeldStacks(c, m) \cup {x} /\ x \notin HeldStacks(c, m)
    <3>1. Put(m, l, l.k, s)
      BY Zenon, <1>11 DEF Put, s
    <3>2. QED BY <1>3, <1>10, <1>11, <2>1, <3>1, TakeStackCall, Zenon DEF l, m
  <2>3. Head(stacks') = s /\ Tail(stacks') = stacks /\ Len(stacks') > 0
    BY Zenon, <1>3, <2>1, Pushed
  <2>4. Listed(stacks') = Listed(stacks) \cup {y}
    BY <1>7, <2>3, PopStacks, Zenon
  <2>5. /\ FreesBut(z)' = FreesBut(z) /\ BufsBut(c)' = BufsBut(c)
        /\ StacksBut(c)' = StacksBut(c) /\ ChunksBut(c)' = ChunksBut(c) /\ z \in Zones
    BY Zenon, <1>2, <1>5, Elsewhere, Sizes
  <2> HIDE DEF z
  <2>6. Buffers' = Buffers
    BY Zenon, <1>2, <1>5, BuffersStay DEF m, l
  <2>7. Items = R \cup Listed(stacks) \cup HeldStacks(c, l)
    BY Zenon, <1>13, <2>5, Parts DEF AllOthers, l
  <2>8. Items' = R \cup Listed(stacks') \cup HeldStacks(c, m)
    <3>1. Items' = Buffers \cup (StacksBut(c) \cup ChunksBut(c) \cup ThreadStacks(threads)
                   \cup Listed(stacks') \cup CpuHeld(cpuStack) \cup HeldStacks(c, m) \cup {})
      BY ZenonT(30), <1>2, <1>13, <2>5, <2>6, PartsAfter DEF m
    <3>2. QED BY Zenon, <2>5, <3>1, Parts
  <2>9. x.who[1] = "built" /\ x.who[2] = c /\ Same(x, y)
    BY Zenon, <2>3 DEF TopStack, BuiltItem, StackHolder, Same
  <2>10. x \notin R /\ x \notin Buffers /\ x \notin Listed(stacks)
    <3> HIDE DEF x, y
    <3>1. x \notin AllBuffers(c, z)
      BY Zenon, <2>5, <2>9, Tags DEF AllBuffers
    <3>2. /\ x \notin StacksBut(c) /\ x \notin ChunksBut(c) /\ x \notin ThreadStacks(threads)
          /\ x \notin CpuHeld(cpuStack) /\ x \notin Listed(stacks)
      BY Zenon, <2>5, <2>9, Tags
    <3>3. QED BY Zenon, <2>5, <3>1, <3>2, Parts
  <2> HIDE DEF R, x, y
  <2>11. x \in Items /\ Items' = (Items \ {x}) \cup {y}
    BY Zenon, <1>1, <2>2, <2>4, <2>7, <2>8, <2>10
  <2>12. QED BY Zenon, <1>1, <1>2, <1>5, <1>8, <1>9, <1>12, <1>13, <2>6, <2>9, <2>10, <2>11, Handover
                DEF l, m
<1>16. QED BY Zenon, <1>14, <1>15

-----------------------------------------------------------------------------
\* Threads.

\* A call ends, perhaps with a panic in main().
LEMMA BootAfter ==
  ASSUME BootInv, NEW c \in Callers, call[c].pc # "idle", UNCHANGED <<cpuStack, sched>>,
         \A d \in Callers \ {c} : call'[d] = call[d], call'[c] = Idle,
         boot' = boot \/ (boot = "idle" /\ boot' = "panic")
  PROVE  BootInv' /\ boot # "vm" /\ boot' # "vm"
<1> USE DEF Growth, Loop, InRound
<1>1. boot \notin {"up", "panic"} => c = BootCaller
  BY Zenon DEF BootInv
<1>2. boot # "vm" /\ boot' # "vm"
  BY Zenon, <1>1 DEF BootInv
<1>3. boot' \notin {"up", "panic"} => \A d \in Callers \ {BootCaller} : call'[d].pc = "idle"
  BY Zenon, <1>1 DEF BootInv
<1>4. \A d \in Callers : call'[d].pc \in Growth /\ call'[d].for = "cpu" => boot' = "cpu"
  BY Zenon, IdleTypes DEF BootInv
<1>5. \A d \in Callers : call'[d].op = "sched" => boot' = "sched"
  BY IdleTypes, Sizes DEF BootInv
<1>6. (boot' \in {"vm", "cpu"} => cpuStack' = Null) /\ (sched' # Null => boot' = "up")
  BY Zenon DEF BootInv
<1>7. QED BY Zenon, <1>2, <1>3, <1>4, <1>5, <1>6 DEF BootInv

\* A call that was not given a stack holds none.
LEMMA NoneHeld ==
  ASSUME NEW c, NEW l, l.st = NoStacks
  PROVE  HeldStacks(c, l) = {}
<1>1. \A k \in 1..2 : l.st[k] = Null
  BY Zenon DEF NoStacks
<1>2. QED BY <1>1, Zenon DEF HeldStacks

Refill(z, s, n) == zone' = [zone EXCEPT ![z].list = s, ![z].count = @ + n]

\* A zone with a new list.
LEMMA ZoneRefilled ==
  ASSUME TypeOK, NEW z \in Zones, NEW s \in Seq(Nat), NEW n \in Int, Refill(z, s, n)
  PROVE  /\ zone' \in [Zones -> [list : Seq(Nat), count : Int, lock : Callers \cup {Null}]]
         /\ zone'[z].list = s /\ \A v \in Zones \ {z} : zone'[v].list = zone[v].list
<1>1. zone[z] \in ZoneStates
  BY Zenon DEF TypeOK, ZoneStates
<1>2. zone[z].count + n \in Int
  BY <1>1 DEF ZoneStates
<1> DEFINE r == [zone[z] EXCEPT !.list = s, !.count = zone[z].count + n]
<1>3. r \in ZoneStates /\ r.list = s
  BY <1>1, <1>2, Zenon DEF ZoneStates
<1>4. zone' = [zone EXCEPT ![z] = r]
  <2>1. DOMAIN zone = Zones
    BY Zenon DEF TypeOK
  <2>2. QED BY Zenon DEF Refill
<1> HIDE DEF r
<1>5. QED BY <1>3, <1>4, ZoneIs, Zenon

\* zfree gives the buffer of the thread back.
LEMMA ZfreeKeeps ==
  ASSUME IInv, NEW c \in Callers, Zfree(c)
  PROVE  Kept
<1> USE DEF Growth, Loop, InRound
<1> DEFINE l == call[c]
           m == call'[c]
           z == "thread"
           s == zone[z].list
           t == zone'[z].list
           x == CallBuf(c, l.buf)
           y == TopBuf(z, t)
           R == FreesBut(z) \cup BufsBut(c) \cup ThreadBufs(threads) \cup SchedBufs(sched)
           O == StacksBut(c) \cup ChunksBut(c) \cup ThreadStacks(threads) \cup Listed(stacks)
                \cup CpuHeld(cpuStack)
<1>1. /\ l.pc = "zfree" /\ CallOK(l) /\ TypeOK /\ BootInv /\ l \in Locals
      /\ l.buf \in Nat /\ l.st = NoStacks
  BY Zenon, LocalTypes DEF IInv, Zfree, At, CallOK
<1>2. UNCHANGED <<free, tables, pages, pte, stacks, cpuStack, sched, threads>>
  BY Zenon DEF Zfree
<1>3. call' \in [Callers -> Locals] /\ (\A d \in Callers \ {c} : call'[d] = call[d]) /\ m = Idle
  BY Zenon, <1>1, ReturnedIs DEF Zfree
<1>4. z \in Zones /\ s \in Seq(Nat)
  BY Zenon, <1>1, Sizes DEF TypeOK
<1>5. BootInv' /\ boot # "vm" /\ boot' # "vm" /\ boot' \in {boot, "panic"}
  BY Zenon, <1>1, <1>2, <1>3, BootAfter DEF Zfree
<1>6. /\ t = <<l.buf>> \o s /\ \A v \in Zones \ {z} : zone'[v].list = zone[v].list
      /\ zone' \in [Zones -> [list : Seq(Nat), count : Int, lock : Callers \cup {Null}]]
  <2>1. <<l.buf>> \o s \in Seq(Nat)
    BY Zenon, <1>1, <1>4, Pushed
  <2>2. PICK q : q = <<l.buf>> \o s
    BY Zenon
  <2>3. Refill(z, q, 1)
    BY Zenon, <2>2 DEF Zfree, Refill
  <2>4. q \in Seq(Nat) /\ 1 \in Int
    BY <2>1, <2>2
  <2> HIDE DEF z
  <2>5. /\ zone' \in [Zones -> [list : Seq(Nat), count : Int, lock : Callers \cup {Null}]]
        /\ zone'[z].list = q /\ \A v \in Zones \ {z} : zone'[v].list = zone[v].list
    BY <1>1, <1>4, <2>3, <2>4, ZoneRefilled, Zenon
  <2>6. QED BY Zenon, <2>2, <2>5
<1>7. TypeOK'
  BY Zenon, <1>1, <1>2, <1>3, <1>5, <1>6 DEF TypeOK
<1>8. CallOK(call[c])'
  BY Zenon, <1>3, IdleTypes DEF CallOK
<1>9. m.buf = Null /\ m.st = NoStacks /\ m.pc = "idle"
  BY Zenon, <1>3, IdleTypes
<1> HIDE DEF l, m, z, s, t
<1>10. HeldStacks(c, m) = {} /\ HeldStacks(c, l) = {}
  BY Zenon, <1>1, <1>9, NoneHeld
<1>11. HeldChunks(c, m) = {} /\ HeldChunks(c, l) = {} /\ HeldBufs(c, m) = {} /\ HeldBufs(c, l) = {x}
  BY Zenon, <1>1, <1>9, Sizes DEF HeldChunks, HasChunk, HeldBufs
<1>12. t \in Seq(Nat) /\ Len(t) > 0 /\ Head(t) = l.buf /\ Tail(t) = s
  <2>1. /\ <<l.buf>> \o s \in Seq(Nat) /\ Len(<<l.buf>> \o s) > 0
        /\ Head(<<l.buf>> \o s) = l.buf /\ Tail(<<l.buf>> \o s) = s
    BY Zenon, <1>1, <1>4, Pushed
  <2>2. QED BY Zenon, <1>6, <2>1
<1>13. Bufs(z, t) = Bufs(z, s) \cup {y}
  BY <1>12, PopBufs, Zenon
<1>14. /\ FreesBut(z)' = FreesBut(z) /\ BufsBut(c)' = BufsBut(c)
       /\ StacksBut(c)' = StacksBut(c) /\ ChunksBut(c)' = ChunksBut(c)
  BY Zenon, <1>3, <1>4, <1>6, Elsewhere
<1>16. Buffers = R \cup Bufs(z, s) \cup HeldBufs(c, l) /\ Items = Buffers \cup O
  BY Zenon, <1>4, <1>10, <1>11, Parts DEF AllBuffers, AllOthers, l, s
<1>17. Buffers' = R \cup Bufs(z, t) \cup HeldBufs(c, m) /\ Items' = Buffers' \cup O
  <2>1. /\ Buffers' = FreesBut(z) \cup BufsBut(c) \cup Bufs(z, t) \cup ThreadBufs(threads)
             \cup SchedBufs(sched) \cup HeldBufs(c, m)
        /\ Items' = Buffers' \cup (StacksBut(c) \cup ChunksBut(c) \cup ThreadStacks(threads)
             \cup Listed(stacks) \cup CpuHeld(cpuStack) \cup {} \cup {})
    BY ZenonT(30), <1>2, <1>4, <1>10, <1>11, <1>14, PartsAfter DEF m, t
  <2>2. QED BY Zenon, <2>1
<1>18. x.who[1] = "call" /\ x.who[2] = c /\ Same(x, y)
  <2>1. BufSize[z] = BufSize["thread"]
    BY Zenon DEF z
  <2>2. QED BY Zenon, <1>12, <2>1 DEF CallBuf, TopBuf, Same
<1>19. x \notin R /\ x \notin O /\ x \notin Bufs(z, s)
  <2> HIDE DEF x, y
  <2>1. /\ x \notin FreesBut(z) /\ x \notin BufsBut(c) /\ x \notin ThreadBufs(threads)
        /\ x \notin SchedBufs(sched) /\ x \notin Bufs(z, s)
    BY Zenon, <1>4, <1>18, Tags DEF s
  <2>2. /\ x \notin StacksBut(c) /\ x \notin ChunksBut(c) /\ x \notin ThreadStacks(threads)
        /\ x \notin Listed(stacks) /\ x \notin CpuHeld(cpuStack)
    BY Zenon, <1>4, <1>18, Tags
  <2>3. QED BY Zenon, <2>1, <2>2
<1> HIDE DEF R, O, x, y
<1>20. x \in Items /\ Items' = (Items \ {x}) \cup {y} /\ y \in Buffers' /\ Buffers \ {x} \subseteq Buffers'
  BY Zenon, <1>11, <1>13, <1>16, <1>17, <1>19
<1>21. m.pc \notin Loop
  BY Zenon, <1>9
<1>22. QED BY Zenon, <1>1, <1>2, <1>3, <1>5, <1>7, <1>8, <1>18, <1>20, <1>21, Handover DEF l, m

\* remove_top finds nothing ...
LEMMA RemoveNothing ==
  ASSUME IInv, NEW c \in Callers, RemoveTop(c), zone[call[c].op].list = << >>
  PROVE  Kept
<1> USE DEF Growth, Loop, InRound
<1> DEFINE l == call[c]
           m == call'[c]
           z == l.op
<1>1. /\ l.pc = "take" /\ CallOK(l) /\ TypeOK /\ BootInv /\ l \in Locals /\ z \in {"thread", "sched"}
      /\ l.buf = Null /\ l.st = NoStacks /\ z \in Zones
  BY Zenon, LocalTypes, Sizes DEF IInv, RemoveTop, At, CallOK
<1>2. UNCHANGED <<free, tables, pages, pte, stacks, cpuStack, threads>>
  BY Zenon DEF RemoveTop
<1>3. zone' = [zone EXCEPT ![z].lock = Null] /\ AfterTake(c, Null)
  BY Zenon DEF RemoveTop
<1>4. /\ zone' \in [Zones -> [list : Seq(Nat), count : Int, lock : Callers \cup {Null}]]
      /\ \A v \in Zones : zone'[v].list = zone[v].list
  BY Zenon, <1>1, <1>3, ZoneLocked
<1>5. /\ Returned(c) /\ sched' = sched
      /\ z = "thread" => boot' = boot \/ (boot = "idle" /\ boot' = "panic")
      /\ z = "sched" => boot' = "panic" /\ boot = "sched"
  <2>1. CASE z = "sched"
    <3>1. boot' = "panic" /\ sched' = Null /\ Returned(c)
      BY Zenon, <1>3, <2>1 DEF AfterTake
    <3>2. boot = "sched" /\ sched = Null
      BY Zenon, <1>1, <2>1 DEF BootInv
    <3>3. QED BY Zenon, <2>1, <3>1, <3>2
  <2>2. CASE z = "thread"
    BY Zenon, <1>3, <2>2 DEF AfterTake
  <2>3. QED BY Zenon, <1>1, <2>1, <2>2
<1>6. call' \in [Callers -> Locals] /\ (\A d \in Callers \ {c} : call'[d] = call[d]) /\ m = Idle
  BY Zenon, <1>1, <1>5, ReturnedIs
<1>7. BootInv' /\ boot # "vm" /\ boot' # "vm" /\ boot' \in {boot, "panic"}
  <2>1. CASE z = "thread"
    BY Zenon, <1>1, <1>2, <1>5, <1>6, <2>1, BootAfter
  <2>2. CASE z = "sched"
    <3>1. c = BootCaller /\ \A d \in Callers \ {c} : call[d] = Idle
      BY Zenon, <1>1, <1>5, <2>2 DEF BootInv, IInv, CallOK
    <3>2. \A d \in Callers : call'[d] = Idle
      BY Zenon, <1>6, <3>1
    <3>3. boot' = "panic" /\ sched' = Null
      BY Zenon, <1>1, <1>5, <2>2 DEF BootInv
    <3>4. QED BY Zenon, <1>5, <2>2, <3>2, <3>3, IdleTypes, Sizes DEF BootInv
  <2>3. QED BY Zenon, <1>1, <2>1, <2>2
<1>8. TypeOK'
  BY Zenon, <1>1, <1>2, <1>4, <1>5, <1>6, <1>7 DEF TypeOK
<1>9. CallOK(call[c])'
  BY Zenon, <1>6, IdleTypes DEF CallOK
<1>10. m.buf = l.buf /\ m.st = l.st /\ m.pc = "idle"
  BY Zenon, <1>1, <1>6, IdleTypes
<1> HIDE DEF l, m
<1>11. HeldChunks(c, m) = HeldChunks(c, l)
  BY Zenon, <1>1, <1>10 DEF HeldChunks, HasChunk
<1>12. QED BY Zenon, <1>1, <1>2, <1>4, <1>5, <1>6, <1>7, <1>8, <1>9, <1>10, <1>11, Quiet DEF l, m

\* ... or the buffer that sched_instanciate or thread_allocate gets.
LEMMA RemoveOne ==
  ASSUME IInv, NEW c \in Callers, RemoveTop(c), zone[call[c].op].list # << >>
  PROVE  Kept
<1> USE DEF Growth, Loop, InRound
<1> DEFINE l == call[c]
           m == call'[c]
           z == l.op
           s == zone[z].list
           t == zone'[z].list
           b == Head(s)
           x == TopBuf(z, s)
           R == FreesBut(z) \cup BufsBut(c) \cup ThreadBufs(threads)
           O == StacksBut(c) \cup ChunksBut(c) \cup ThreadStacks(threads) \cup Listed(stacks)
                \cup CpuHeld(cpuStack)
<1>1. /\ l.pc = "take" /\ CallOK(l) /\ TypeOK /\ BootInv /\ l \in Locals /\ z \in {"thread", "sched"}
      /\ l.buf = Null /\ l.st = NoStacks /\ z \in Zones
  BY LocalTypes, Sizes DEF IInv, RemoveTop, At, CallOK
<1>2. UNCHANGED <<free, tables, pages, pte, stacks, cpuStack, threads>>
  BY Zenon DEF RemoveTop
<1>3. s \in Seq(Nat) /\ s # << >> /\ zone[z].count \in Int
  BY Zenon, <1>1 DEF TypeOK
<1>4. Len(s) > 0 /\ Tail(s) \in Seq(Nat) /\ b \in Nat
  BY Zenon, <1>3, NotEmpty
<1>5. zone' = [zone EXCEPT ![z] = [list |-> Tail(s), count |-> @.count - 1, lock |-> Null]] /\ AfterTake(c, b)
  BY Zenon DEF RemoveTop
<1>6. /\ zone' \in [Zones -> [list : Seq(Nat), count : Int, lock : Callers \cup {Null}]]
      /\ t = Tail(s) /\ \A v \in Zones \ {z} : zone'[v].list = zone[v].list
  <2> DEFINE r == [list |-> Tail(s), count |-> zone[z].count - 1, lock |-> Null]
  <2>1. zone[z].count - 1 \in Int
    BY <1>3
  <2>2. r \in ZoneStates /\ r.list = Tail(s)
    BY Zenon, <1>4, <2>1 DEF ZoneStates
  <2>3. zone' = [zone EXCEPT ![z] = r]
    BY Zenon, <1>5
  <2> HIDE DEF r, z, s
  <2>4. QED BY <1>1, <2>2, <2>3, ZoneIs, Zenon
<1>7. Bufs(z, s) = Bufs(z, t) \cup {x} /\ x \notin Bufs(z, t)
  <2>1. Bufs(z, s) = Bufs(z, Tail(s)) \cup {x} /\ x \notin Bufs(z, Tail(s))
    BY Zenon, <1>3, <1>4, PopBufs
  <2>2. QED BY Zenon, <1>6, <2>1
<1>8. x.who[1] = "free" /\ x.who[2] = z /\ x.from = b /\ x.size = BufSize[z]
  BY Zenon DEF TopBuf
<1>9. x \notin R /\ x \notin O
  <2> HIDE DEF x, z
  <2>1. x \notin FreesBut(z) /\ x \notin BufsBut(c) /\ x \notin ThreadBufs(threads)
    BY Zenon, <1>1, <1>8, Tags
  <2>2. /\ x \notin StacksBut(c) /\ x \notin ChunksBut(c) /\ x \notin ThreadStacks(threads)
        /\ x \notin Listed(stacks) /\ x \notin CpuHeld(cpuStack)
    BY Zenon, <1>1, <1>8, Tags
  <2>3. QED BY Zenon, <2>1, <2>2
<1>10. HeldStacks(c, l) = {} /\ HeldChunks(c, l) = {} /\ HeldBufs(c, l) = {}
  <2> HIDE DEF l
  <2>1. HeldStacks(c, l) = {}
    BY Zenon, <1>1, NoneHeld
  <2>2. QED BY Zenon, <1>1, <2>1 DEF HeldChunks, HasChunk, HeldBufs
<1>11. CASE z = "sched"
  <2> DEFINE y == [who |-> <<"sched", 0, 0>>, from |-> b, size |-> BufSize["sched"]]
  <2>1. boot' = "up" /\ sched' = b /\ Returned(c)
    <3>1. b # Null
      BY Zenon, <1>4, Sizes
    <3>2. QED BY Zenon, <1>5, <1>11, <3>1 DEF AfterTake
  <2>2. boot = "sched" /\ sched = Null
    BY Zenon, <1>1, <1>11 DEF BootInv
  <2>3. call' \in [Callers -> Locals] /\ (\A d \in Callers \ {c} : call'[d] = call[d]) /\ m = Idle
    BY Zenon, <1>1, <2>1, ReturnedIs
  <2>4. TypeOK'
    BY Zenon, <1>1, <1>2, <1>4, <1>6, <2>1, <2>3 DEF TypeOK
  <2>5. BootInv'
    <3>1. c = BootCaller /\ \A d \in Callers \ {c} : call[d] = Idle
      BY Zenon, <1>1, <2>2 DEF BootInv, IInv, CallOK
    <3>2. \A d \in Callers : call'[d] = Idle
      BY Zenon, <2>3, <3>1
    <3>3. QED BY Zenon, <2>1, <3>2, IdleTypes, Sizes DEF BootInv
  <2>6. CallOK(call[c])'
    BY Zenon, <2>3, IdleTypes DEF CallOK
  <2>7. m.buf = Null /\ m.st = NoStacks /\ m.pc = "idle"
    BY Zenon, <2>3, IdleTypes
  <2> HIDE DEF m, l
  <2>8. HeldStacks(c, m) = {} /\ HeldChunks(c, m) = {} /\ HeldBufs(c, m) = {}
    <3>1. HeldStacks(c, m) = {}
      BY Zenon, <2>7, NoneHeld
    <3>2. QED BY Zenon, <2>7, <3>1 DEF HeldChunks, HasChunk, HeldBufs
  <2>9. SchedBufs(sched) = {} /\ SchedBufs(sched') = {y}
    BY Zenon, <1>4, <2>1, <2>2, Sizes DEF SchedBufs
  <2>10. PICK v : v = z
    BY Zenon
  <2> HIDE DEF z
  <2>11. /\ FreesBut(v)' = FreesBut(v) /\ BufsBut(c)' = BufsBut(c)
         /\ StacksBut(c)' = StacksBut(c) /\ ChunksBut(c)' = ChunksBut(c)
    BY Zenon, <1>1, <1>6, <2>3, <2>10, Elsewhere
  <2>12. Buffers = R \cup Bufs(z, s) /\ Items = Buffers \cup O
    BY Zenon, <1>1, <1>10, <2>9, Parts DEF AllBuffers, AllOthers, l
  <2>13. Buffers' = R \cup Bufs(z, t) \cup {y} /\ Items' = Buffers' \cup O
    <3>1. /\ Buffers' = FreesBut(v) \cup BufsBut(c) \cup Bufs(v, t) \cup ThreadBufs(threads) \cup {y} \cup {}
          /\ Items' = Buffers' \cup (StacksBut(c) \cup ChunksBut(c) \cup ThreadStacks(threads)
                      \cup Listed(stacks) \cup CpuHeld(cpuStack) \cup {} \cup {})
      BY Zenon, <1>1, <1>2, <2>8, <2>9, <2>10, <2>11, PartsAfter DEF m
    <3>2. Buffers' = R \cup Bufs(z, t) \cup {y}
      BY Zenon, <2>10, <3>1
    <3>3. QED BY Zenon, <3>1, <3>2
  <2>14. Same(x, y)
    BY Zenon, <1>8, <1>11 DEF Same
  <2> HIDE DEF R, O, x, y, s, t
  <2>15. x \in Items /\ Items' = (Items \ {x}) \cup {y} /\ y \in Buffers' /\ Buffers \ {x} \subseteq Buffers'
    BY <1>7, <1>9, <2>12, <2>13
  <2>16. m.pc \notin Loop /\ boot # "vm" /\ boot' # "vm"
    BY Zenon, <1>1, <2>1, <2>2, <2>7
  <2>17. QED BY Zenon, <1>1, <1>2, <1>8, <2>3, <2>4, <2>5, <2>6, <2>14, <2>15, <2>16, Handover DEF l, m
<1>12. CASE z = "thread"
  <2> DEFINE y == CallBuf(c, b)
             n == [l EXCEPT !.pc = "stack", !.buf = b]
  <2>1. call' = [call EXCEPT ![c].pc = "stack", ![c].buf = b] /\ UNCHANGED <<boot, sched>>
    <3>1. b # Null
      BY Zenon, <1>4, Sizes
    <3>2. QED BY Zenon, <1>5, <1>12, <3>1 DEF AfterTake
  <2>2. n \in Locals /\ n.pc = "stack" /\ n.op = l.op /\ n.buf = b /\ n.st = l.st /\ n.k = l.k /\ n.for = l.for
    BY <1>1, <1>4, Zenon DEF Locals
  <2>3. call' = [call EXCEPT ![c] = n]
    BY <2>1, Zenon
  <2> HIDE DEF n
  <2>4. call' \in [Callers -> Locals] /\ (\A d \in Callers \ {c} : call'[d] = call[d]) /\ m = n
    BY <1>1, <2>2, <2>3, Moved, Zenon
  <2>5. TypeOK'
    BY Zenon, <1>1, <1>2, <1>6, <2>1, <2>4 DEF TypeOK
  <2>6. BootInv' /\ boot # "vm"
    BY Zenon, <1>1, <1>2, <2>1, <2>2, <2>4, BootSame
  <2>7. /\ m.pc = "stack" /\ m.op = "thread" /\ m.buf = b /\ m.st = NoStacks /\ m.k = 1
        /\ \A i \in 1..2 : m.st[i] = Null
    BY <1>1, <1>12, <2>2, <2>4 DEF CallOK, NoStacks
  <2> HIDE DEF m, l
  <2>8. CallOK(call[c])'
    BY Zenon, <1>4, <2>7, Sizes DEF CallOK, m
  <2>9. HeldStacks(c, m) = {} /\ HeldChunks(c, m) = {} /\ HeldBufs(c, m) = {y}
    <3>1. HeldStacks(c, m) = {}
      BY Zenon, <2>7, NoneHeld
    <3>2. HeldChunks(c, m) = {}
      BY Zenon, <2>7 DEF HeldChunks, HasChunk
    <3>3. b # Null
      BY Zenon, <1>4, Sizes
    <3>4. QED BY Zenon, <2>7, <3>1, <3>2, <3>3 DEF HeldBufs
  <2>10. PICK v : v = z
    BY Zenon
  <2> HIDE DEF z
  <2>11. /\ FreesBut(v)' = FreesBut(v) /\ BufsBut(c)' = BufsBut(c)
         /\ StacksBut(c)' = StacksBut(c) /\ ChunksBut(c)' = ChunksBut(c)
    BY Zenon, <1>1, <1>6, <2>4, <2>10, Elsewhere
  <2>12. Buffers = R \cup SchedBufs(sched) \cup Bufs(z, s) /\ Items = Buffers \cup O
    <3>1. Buffers = R \cup SchedBufs(sched) \cup Bufs(z, s)
      BY Zenon, <1>1, <1>10, Parts DEF AllBuffers, l
    <3>2. AllOthers(c) = O
      BY Zenon, <1>10 DEF AllOthers, l
    <3>3. QED BY Zenon, <1>1, <3>1, <3>2, Parts
  <2>13. Buffers' = R \cup SchedBufs(sched) \cup Bufs(z, t) \cup {y} /\ Items' = Buffers' \cup O
    <3>1. /\ Buffers' = FreesBut(v)' \cup BufsBut(c)' \cup Bufs(v, zone'[v].list) \cup ThreadBufs(threads')
             \cup SchedBufs(sched') \cup HeldBufs(c, m)
          /\ Items' = Buffers' \cup (StacksBut(c)' \cup ChunksBut(c)' \cup ThreadStacks(threads')
             \cup Listed(stacks') \cup CpuHeld(cpuStack') \cup HeldStacks(c, m) \cup HeldChunks(c, m))
      BY Zenon, <1>1, <2>10, PartsAfter DEF m
    <3>2. QED BY Zenon, <1>2, <2>1, <2>9, <2>10, <2>11, <3>1
  <2>14. Same(x, y)
    BY Zenon, <1>8, <1>12 DEF Same, CallBuf
  <2>15. x \notin SchedBufs(sched)
    <3> HIDE DEF x
    <3>1. QED BY Zenon, <1>1, <1>8, Tags
  <2> HIDE DEF R, O, x, y, s, t
  <2>16. x \in Items /\ Items' = (Items \ {x}) \cup {y} /\ y \in Buffers' /\ Buffers \ {x} \subseteq Buffers'
    BY Zenon, <1>7, <1>9, <2>12, <2>13, <2>15
  <2>17. m.pc \notin Loop /\ boot' # "vm"
    BY Zenon, <1>1, <2>1, <2>6, <2>7
  <2>18. QED BY <1>1, <1>2, <1>8, <2>1, <2>4, <2>5, <2>6, <2>8, <2>14, <2>16, <2>17, Handover DEF l, m
<1>13. z = "sched" \/ z = "thread"
  BY Zenon, <1>1
<1> HIDE DEF l, m, z, s, t, b, x, R, O
<1>14. QED BY Zenon, <1>11, <1>12, <1>13

\* thread_allocate gives up ...
LEMMA BuiltFails ==
  ASSUME IInv, NEW c \in Callers, Built(c), Null \in {call[c].st[1], call[c].st[2]}
  PROVE  Kept
<1> USE DEF Growth, Loop, InRound
<1> DEFINE l == call[c]
           m == call'[c]
<1>1. /\ l.pc = "built" /\ CallOK(l) /\ TypeOK /\ BootInv /\ l.buf # Null /\ l.op = "thread" /\ l.k = 1
  BY Zenon DEF IInv, Built, At, CallOK
<1>2. Goto(c, "release") /\ UNCHANGED <<boot, free, tables, pages, pte, zone, stacks, cpuStack, sched, threads>>
  BY Zenon DEF Built
<1>3. /\ call' \in [Callers -> Locals] /\ \A d \in Callers \ {c} : call'[d] = call[d]
      /\ m.pc = "release" /\ m.op = l.op /\ m.for = l.for /\ m.buf = l.buf /\ m.st = l.st /\ m.k = l.k
  BY <1>1, <1>2, GotoIs, Zenon
<1>4. TypeOK'
  BY Zenon, <1>1, <1>2, <1>3 DEF TypeOK
<1>5. BootInv' /\ boot # "vm"
  BY Zenon, <1>1, <1>2, <1>3, BootSame
<1> HIDE DEF l, m
<1>6. CallOK(call[c])'
  BY <1>1, <1>3 DEF CallOK, m
<1>7. HeldChunks(c, m) = HeldChunks(c, l)
  BY Zenon, <1>1, <1>3 DEF HeldChunks, HasChunk
<1>8. QED BY Zenon, <1>1, <1>2, <1>3, <1>4, <1>5, <1>6, <1>7, Quiet DEF l, m

\* ... or returns a thread.
LEMMA BuiltSucceeds ==
  ASSUME IInv, NEW c \in Callers, Built(c), Null \notin {call[c].st[1], call[c].st[2]}
  PROVE  Kept
<1> USE DEF Growth, Loop, InRound
<1> DEFINE l == call[c]
           m == call'[c]
           z == "thread"
           R == FreesBut(z) \cup BufsBut(c) \cup Bufs(z, zone[z].list) \cup ThreadBufs(threads)
                \cup SchedBufs(sched)
           O == StacksBut(c) \cup ChunksBut(c) \cup ThreadStacks(threads) \cup Listed(stacks)
                \cup CpuHeld(cpuStack)
<1>1. /\ l.pc = "built" /\ CallOK(l) /\ TypeOK /\ BootInv /\ l.buf # Null /\ l.op = "thread" /\ l \in Locals
      /\ boot # "panic"
  BY Zenon, LocalTypes DEF IInv, Built, At, CallOK
<1>2. l.buf \in Nat /\ l.st \in [1..2 -> Stacks \cup {Null}]
  BY Zenon, <1>1, LocalTypes
<1>3. l.st[1] \in Stacks /\ l.st[2] \in Stacks /\ l.st[1] # Null /\ l.st[2] # Null /\ l.st \in [1..2 -> Stacks]
  BY <1>2
<1>4. UNCHANGED <<free, tables, pages, pte, zone, stacks, cpuStack, sched>>
  BY Zenon DEF Built
<1>5. PICK t : t = [buf |-> l.buf, st |-> l.st]
  BY Zenon
<1>6. t \in [buf : Nat, st : [1..2 -> Stacks]] /\ t.buf = l.buf /\ t.st = l.st
  BY Zenon, <1>2, <1>3, <1>5
<1>7. threads' = threads \cup {t}
  BY Zenon, <1>5 DEF Built
<1>8. /\ call' \in [Callers -> Locals] /\ \A d \in Callers \ {c} : call'[d] = call[d]
      /\ m.pc \in {"idle", "zalloc"} /\ m.buf = Null /\ m.st = NoStacks
      /\ CallOK(call[c])' /\ BootInv' /\ boot # "vm" /\ boot' # "vm" /\ boot' \in {"sched", boot}
  <2>1. CASE boot = "idle"
    <3>1. boot' = "sched" /\ CallZalloc(c, "sched")
      BY Zenon, <2>1 DEF Built
    <3>2. /\ call' \in [Callers -> Locals] /\ \A d \in Callers \ {c} : call'[d] = call[d]
          /\ m.pc = "zalloc" /\ m.op = "sched" /\ m.buf = Null /\ m.st = NoStacks /\ m.k = 1
      BY Zenon, <1>1, <3>1, ZallocIs
    <3>3. CallOK(call[c])'
      <4> HIDE DEF m
      <4>1. CallOK(m)
        BY Zenon, <3>2, Sizes DEF CallOK
      <4>2. QED BY Zenon, <1>4, <4>1 DEF CallOK, Mapped, m
    <3>4. c = BootCaller /\ sched' = Null
      BY Zenon, <1>1, <1>4, <2>1 DEF BootInv
    <3>5. BootInv'
      BY <1>1, <1>4, <2>1, <3>1, <3>2, <3>4 DEF BootInv
    <3>6. QED BY Zenon, <2>1, <3>1, <3>2, <3>3, <3>5
  <2>2. CASE boot # "idle"
    <3>1. boot' = boot /\ Returned(c)
      BY Zenon, <2>2 DEF Built
    <3>2. call' \in [Callers -> Locals] /\ (\A d \in Callers \ {c} : call'[d] = call[d]) /\ m = Idle
      BY Zenon, <1>1, <3>1, ReturnedIs
    <3>3. BootInv' /\ boot # "vm" /\ boot' # "vm"
      BY Zenon, <1>1, <1>4, <3>1, <3>2, BootAfter
    <3>4. CallOK(call[c])'
      BY Zenon, <3>2, IdleTypes DEF CallOK
    <3>5. QED BY Zenon, <3>1, <3>2, <3>3, <3>4, IdleTypes
  <2>3. QED BY Zenon, <2>1, <2>2
<1>9. TypeOK'
  BY Zenon, <1>1, <1>4, <1>6, <1>7, <1>8 DEF TypeOK
<1> DEFINE x1 == CallBuf(c, l.buf)
           x2 == BuiltItem(c, 1, l.st[1])
           x3 == BuiltItem(c, 2, l.st[2])
           y1 == ThreadBuf(t)
           y2 == ThreadStack(t, 1)
           y3 == ThreadStack(t, 2)
<1> HIDE DEF l, m, z
<1>10. HeldBufs(c, m) = {} /\ HeldStacks(c, m) = {} /\ HeldChunks(c, m) = {}
  <2>1. HeldStacks(c, m) = {}
    BY Zenon, <1>8, NoneHeld
  <2>2. QED BY Zenon, <1>8, <2>1 DEF HeldBufs, HeldChunks, HasChunk
<1>11. HeldBufs(c, l) = {x1} /\ HeldStacks(c, l) = {x2, x3} /\ HeldChunks(c, l) = {}
  <2>1. {k \in 1..2 : l.st[k] # Null} = {1, 2}
    BY <1>3
  <2>2. HeldStacks(c, l) = {BuiltItem(c, k, l.st[k]) : k \in {1, 2}}
    BY <2>1, Zenon DEF HeldStacks, BuiltItem
  <2>3. HeldStacks(c, l) = {x2, x3}
    BY Zenon, <2>2
  <2>4. QED BY Zenon, <1>1, <2>3 DEF HeldBufs, HeldChunks, HasChunk
<1>12. ThreadBufs(threads') = ThreadBufs(threads) \cup {y1}
  BY Zenon, <1>7 DEF ThreadBufs
<1>13. ThreadStacks(threads') = ThreadStacks(threads) \cup {y2, y3}
  <2>1. {ThreadStack(t, k) : k \in 1..2} = {y2, y3}
    <3>1. 1..2 = {1, 2}
      OBVIOUS
    <3>2. QED BY Zenon, <3>1
  <2>2. ThreadStacks(threads') = ThreadStacks(threads) \cup {ThreadStack(t, k) : k \in 1..2}
    BY <1>7 DEF ThreadStacks
  <2>3. QED BY Zenon, <2>1, <2>2
<1>14. /\ FreesBut(z)' = FreesBut(z) /\ BufsBut(c)' = BufsBut(c)
       /\ StacksBut(c)' = StacksBut(c) /\ ChunksBut(c)' = ChunksBut(c) /\ z \in Zones /\ z' = z
  <2>1. z \in Zones /\ z' = z
    BY Zenon, Sizes DEF z
  <2>2. QED BY Zenon, <1>4, <1>8, <2>1, Elsewhere
<1>15. Buffers = R \cup {x1} /\ Items = Buffers \cup O \cup {x2, x3}
  <2>1. Buffers = R \cup {x1}
    BY Zenon, <1>11, <1>14, Parts DEF AllBuffers, l
  <2>2. AllOthers(c) = O \cup {x2, x3}
    BY Zenon, <1>11 DEF AllOthers, l
  <2>3. QED BY Zenon, <1>14, <2>1, <2>2, Parts
<1>16. Buffers' = R \cup {y1} /\ Items' = Buffers' \cup O \cup {y2, y3}
  <2>1. Buffers' = FreesBut(z) \cup BufsBut(c) \cup Bufs(z, zone[z].list)
                   \cup (ThreadBufs(threads) \cup {y1}) \cup SchedBufs(sched) \cup {}
    <3> HIDE DEF R, O, y1
    <3>1. QED BY Zenon, <1>4, <1>10, <1>12, <1>14, PartsAfter DEF m
  <2>2. Items' = Buffers' \cup (StacksBut(c) \cup ChunksBut(c) \cup (ThreadStacks(threads) \cup {y2, y3})
                   \cup Listed(stacks) \cup CpuHeld(cpuStack) \cup {} \cup {})
    <3> HIDE DEF R, O, y2, y3
    <3>1. QED BY ZenonT(30), <1>4, <1>10, <1>13, <1>14, PartsAfter DEF m
  <2>3. Buffers' = R \cup {y1}
    BY Zenon, <2>1
  <2>4. QED BY Zenon, <2>2, <2>3
<1>17. Same(x1, y1) /\ Same(x2, y2) /\ Same(x3, y3)
  BY Zenon, <1>6 DEF Same, CallBuf, BuiltItem, ThreadBuf, ThreadStack, StackHolder
<1>18. /\ x1.who = <<"call", c, 0>> /\ x2.who = <<"built", c, 1>> /\ x3.who = <<"built", c, 2>>
       /\ y1.who = <<"thread", t, 0>> /\ y2.who = <<"stack", t, 1>> /\ y3.who = <<"stack", t, 2>>
  BY Zenon DEF CallBuf, BuiltItem, ThreadBuf, ThreadStack, StackHolder
<1> HIDE DEF x1, x2, x3, y1, y2, y3
<1>19. /\ x1.who # x2.who /\ x1.who # x3.who /\ x2.who # x3.who
       /\ y1.who # y2.who /\ y1.who # y3.who /\ y2.who # y3.who
       /\ \A d \in Callers : x1.who # <<"chunk", d, 0>> /\ x2.who # <<"chunk", d, 0>> /\ x3.who # <<"chunk", d, 0>>
  BY <1>18
<1>20. x1.who[1] = "call" /\ x1.who[2] = c /\ x2.who[1] = "built" /\ x2.who[2] = c
       /\ x3.who[1] = "built" /\ x3.who[2] = c
  BY <1>18
<1>21. ASSUME NEW x, x.who[1] = "call" \/ x.who[1] = "built", x.who[2] = c PROVE x \notin R /\ x \notin O
  <2>1. /\ x \notin FreesBut(z) /\ x \notin BufsBut(c) /\ x \notin Bufs(z, zone[z].list)
        /\ x \notin ThreadBufs(threads) /\ x \notin SchedBufs(sched)
    BY Zenon, <1>14, <1>21, Tags
  <2>2. /\ x \notin StacksBut(c) /\ x \notin ChunksBut(c) /\ x \notin ThreadStacks(threads)
        /\ x \notin Listed(stacks) /\ x \notin CpuHeld(cpuStack)
    BY Zenon, <1>14, <1>21, Tags
  <2>3. QED BY Zenon, <2>1, <2>2
<1>22. /\ x1 \notin R /\ x2 \notin R /\ x3 \notin R
       /\ x1 \notin O /\ x2 \notin O /\ x3 \notin O
  <2> HIDE DEF R, O
  <2>1. QED BY Zenon, <1>20, <1>21
<1> HIDE DEF R, O
<1>23. Items' = (Items \ {x1, x2, x3}) \cup {y1, y2, y3} /\ {x1, x2, x3} \subseteq Items
  BY Zenon, <1>15, <1>16, <1>22
<1>24. y1 \in Buffers' /\ x2 \notin Buffers /\ x3 \notin Buffers /\ Buffers \ {x1} \subseteq Buffers'
  BY Zenon, <1>15, <1>16, <1>19, <1>22
<1>25. \A d \in Callers : call'[d].pc \in Loop =>
         /\ call[d].pc \in Loop /\ call'[d].i0 = call[d].i0
         /\ \A x \in {x1, x2, x3} : x.who # <<"chunk", d, 0>>
  BY Zenon, <1>8, <1>19 DEF m
<1> DEFINE X == {x1, x2, x3}
           Y == {y1, y2, y3}
           f == [w \in Y |-> IF w = y1 THEN x1 ELSE IF w = y2 THEN x2 ELSE x3]
<1>26. FitInv' /\ CoverInv' /\ (ApartInv => ApartInv')
  <2>1. f[y1] = x1 /\ f[y2] = x2 /\ f[y3] = x3
    BY Zenon, <1>19
  <2>2. \A g \in Items \ X, x \in X : g.who # x.who
    BY Zenon, <1>1, <1>23, Names
  <2> HIDE DEF f
  <2>3. \A y \in Y : f[y] \in X /\ Same(f[y], y) /\ (f[y] \in Buffers => y \in Buffers')
    BY Zenon, <1>17, <1>24, <2>1
  <2>4. (\A x \in X : \E y \in Y : f[y] = x) /\ Buffers \ X \subseteq Buffers'
    BY Zenon, <1>24, <2>1
  <2>5. \A y, w \in Y : y.who # w.who => f[y].who # f[w].who
    BY Zenon, <1>19, <2>1
  <2> HIDE DEF X, Y
  <2>6. HandedOn(X, Y, f)
    BY Zenon, <1>23, <1>25, <2>2, <2>3, <2>4, <2>5 DEF HandedOn, X, Y
  <2>7. QED BY Zenon, <1>4, <2>6, HandedOnKeeps, HandedOnApart DEF IInv
<1>27. QED BY Zenon, <1>1, <1>4, <1>8, <1>9, <1>26, Keeps DEF Kept, l, m

-----------------------------------------------------------------------------
\* _zcram: the pieces a chunk is cut into.
Piece(z, L, b, q) == [who |-> <<"free", z, L + q>>, from |-> b + q * BufSize[z], size |-> BufSize[z]]

Pieces(z, L, b, n) == {Piece(z, L, b, q) : q \in 0..(n - 1)}
Crammed(z, s, b, n) == [k \in 1..n |-> b + (n - k) * BufSize[z]] \o s

\* The pieces lie in the chunk, side by side.
LEMMA PieceInside ==
  ASSUME NEW S \in Nat, NEW B \in Nat \ {0}, NEW n \in Nat, n = S \div B, NEW b \in Nat
  PROVE  /\ n * B \in Nat /\ n * B <= S /\ S < n * B + B
         /\ \A q \in 0..(n - 1) : q * B \in Nat /\ b + q * B + B <= b + S
         /\ \A q, r \in 0..(n - 1) : q < r => q * B + B <= r * B
<1>1. n * B \in Nat /\ n * B <= S /\ S < n * B + B
  BY Zenon, FitsIn
<1>2. ASSUME NEW q \in 0..(n - 1) PROVE q * B \in Nat /\ b + q * B + B <= b + S
  <2>1. q \in Nat /\ q < n
    OBVIOUS
  <2>2. q * B \in Nat /\ q * B + B <= n * B
    BY Zenon, <2>1, Multiples
  <2> DEFINE qb == q * B
             nb == n * B
  <2> HIDE DEF qb, nb
  <2>3. qb \in Nat /\ nb \in Nat /\ qb + B <= nb /\ nb <= S
    BY Zenon, <1>1, <2>2 DEF qb, nb
  <2>4. b + qb + B <= b + S
    BY <2>3
  <2>5. QED BY Zenon, <2>3, <2>4 DEF qb
<1>3. ASSUME NEW q \in 0..(n - 1), NEW r \in 0..(n - 1), q < r PROVE q * B + B <= r * B
  <2>1. q \in Nat /\ r \in Nat
    OBVIOUS
  <2>2. QED BY Zenon, <1>3, <2>1, Multiples
<1>4. QED BY Zenon, <1>1, <1>2, <1>3

\* The piece a unit is on, unless it is behind the last one.
LEMMA PieceOf ==
  ASSUME NEW d \in Nat, NEW B \in Nat \ {0}, NEW n \in Nat
  PROVE  (\E q \in 0..(n - 1) : q * B <= d /\ d < q * B + B) \/ n * B <= d
<1> DEFINE q == d \div B
<1>1. q \in Nat /\ q * B <= d /\ d < q * B + B
  BY Zenon, FitsIn
<1> HIDE DEF q
<1>2. CASE q < n
  <2>1. q \in 0..(n - 1)
    BY <1>1, <1>2
  <2>2. QED BY Zenon, <1>1, <2>1
<1>3. CASE ~(q < n)
  <2>1. n <= q
    BY <1>1, <1>3
  <2>2. n * B <= q * B /\ n * B \in Nat /\ q * B \in Nat
    BY Zenon, <1>1, <2>1, Multiples
  <2>3. QED BY <1>1, <2>2
<1>4. QED BY Zenon, <1>2, <1>3

\* Two lists, one behind the other.
LEMMA Concats ==
  ASSUME NEW S, NEW r \in Seq(S), NEW s \in Seq(S)
  PROVE  /\ r \o s \in Seq(S) /\ Len(r \o s) = Len(r) + Len(s)
         /\ \A k \in 1..Len(r) : (r \o s)[k] = r[k]
         /\ \A k \in (Len(r) + 1)..(Len(r) + Len(s)) : (r \o s)[k] = s[k - Len(r)]
OBVIOUS

\* t is a free list of zone z: the n pieces of the chunk at b in front of s.
FreeListOf(z, s, b, n, t) == t \in Seq(Nat) /\ Bufs(z, t) = Bufs(z, s) \cup Pieces(z, Len(s), b, n)

\* The list gets the pieces in front of what it had.
LEMMA CramList ==
  ASSUME NEW z, NEW s \in Seq(Nat), NEW n \in Nat, NEW b \in Nat, BufSize[z] \in Nat,
         NEW t, t = Crammed(z, s, b, n)
  PROVE  FreeListOf(z, s, b, n, t)
<1> DEFINE a == [k \in 1..n |-> b + (n - k) * BufSize[z]]
           L == Len(s)
           item(k) == [who |-> <<"free", z, (n + L) - k>>, from |-> t[k], size |-> BufSize[z]]
<1>1. \A k \in 1..n : b + (n - k) * BufSize[z] \in Nat
  <2> SUFFICES ASSUME NEW k \in 1..n PROVE b + (n - k) * BufSize[z] \in Nat
    BY Zenon
  <2>1. n - k \in Nat
    OBVIOUS
  <2>2. (n - k) * BufSize[z] \in Nat
    BY <2>1
  <2>3. QED BY <2>2
<1>2. a \in Seq(Nat) /\ Len(a) = n /\ L \in Nat
  <2>1. a \in [1..n -> Nat]
    BY Zenon, <1>1
  <2>2. QED BY <2>1
<1>3. \A k \in 1..n : a[k] = b + (n - k) * BufSize[z]
  BY Zenon
<1>4. t = a \o s
  BY Zenon DEF Crammed
<1> HIDE DEF a, L
<1>5. t \in Seq(Nat) /\ Len(t) = n + L
  BY Zenon, <1>2, <1>4, Concats DEF L
<1>6. /\ \A k \in 1..n : t[k] = a[k]
      /\ \A k \in (n + 1)..(n + L) : t[k] = s[k - n]
  <2>1. /\ \A k \in 1..Len(a) : (a \o s)[k] = a[k]
        /\ \A k \in (Len(a) + 1)..(Len(a) + Len(s)) : (a \o s)[k] = s[k - Len(a)]
    BY <1>2, Concats, Zenon
  <2>2. Len(a) = n /\ Len(s) = L
    BY Zenon, <1>2 DEF L
  <2>3. QED BY <1>4, <2>1, <2>2, Zenon
<1>7. Bufs(z, t) = {item(k) : k \in 1..(n + L)}
  BY Zenon, <1>5 DEF Bufs
<1>8. \A q \in 0..(n - 1) : n - q \in 1..n /\ item(n - q) = Piece(z, L, b, q)
  <2> SUFFICES ASSUME NEW q \in 0..(n - 1) PROVE n - q \in 1..n /\ item(n - q) = Piece(z, L, b, q)
    BY Zenon
  <2>1. n - q \in 1..n /\ (n + L) - (n - q) = L + q /\ n - (n - q) = q
    BY <1>2
  <2>2. t[n - q] = b + q * BufSize[z]
    BY Zenon, <1>3, <1>6, <2>1
  <2>3. QED BY <2>1, <2>2, Zenon DEF Piece
<1>9. Bufs(z, s) = {item(n + k) : k \in 1..L}
  <2>1. \A k \in 1..L : (n + L) - (n + k) = L - k /\ n + k \in (n + 1)..(n + L) /\ (n + k) - n = k
    BY <1>2
  <2>2. \A k \in 1..L : t[n + k] = s[k]
    BY Zenon, <1>6, <2>1
  <2>3. \A k \in 1..L : item(n + k) = [who |-> <<"free", z, L - k>>, from |-> s[k], size |-> BufSize[z]]
    BY <2>1, <2>2, Zenon
  <2>4. Bufs(z, s) = {[who |-> <<"free", z, L - k>>, from |-> s[k], size |-> BufSize[z]] : k \in 1..L}
    BY Zenon DEF Bufs, L
  <2> HIDE DEF item
  <2>5. QED BY <2>3, <2>4, Zenon
<1> HIDE DEF item
<1>10. \A k \in 1..(n + L) : (k \in 1..n /\ n - k \in 0..(n - 1) /\ n - (n - k) = k) \/ (k - n \in 1..L /\ n + (k - n) = k)
  BY <1>2
<1>11. \A k \in 1..L : n + k \in 1..(n + L)
  BY <1>2
<1>12. 1..n \subseteq 1..(n + L)
  BY <1>2
<1>13. Bufs(z, t) \subseteq Bufs(z, s) \cup {Piece(z, L, b, q) : q \in 0..(n - 1)}
  <2> SUFFICES ASSUME NEW k \in 1..(n + L)
               PROVE  item(k) \in Bufs(z, s) \cup {Piece(z, L, b, q) : q \in 0..(n - 1)}
    BY Zenon, <1>7
  <2>1. CASE k \in 1..n /\ n - k \in 0..(n - 1) /\ n - (n - k) = k
    BY Zenon, <1>8, <2>1
  <2>2. CASE k - n \in 1..L /\ n + (k - n) = k
    BY Zenon, <1>9, <2>2
  <2>3. QED BY Zenon, <1>10, <2>1, <2>2
<1>14. Bufs(z, s) \subseteq Bufs(z, t)
  BY Zenon, <1>7, <1>9, <1>11
<1>15. {Piece(z, L, b, q) : q \in 0..(n - 1)} \subseteq Bufs(z, t)
  BY Zenon, <1>7, <1>8, <1>12
<1>16. QED BY Zenon, <1>5, <1>13, <1>14, <1>15 DEF FreeListOf, L, Pieces
\* An item is cut into pieces of B units, what is left being less than one.
LEMMA CutKeeps ==
  ASSUME TypeOK, FitInv, CoverInv, pages' = pages, pte' = pte,
         NEW c \in Callers, NEW z \in Zones, NEW L \in Nat, NEW i \in Nat, NEW j \in Nat \ {0}, NEW n \in Nat,
         n = (j * PageUnits) \div BufSize[z],
         NEW x \in Items, x.who = <<"chunk", c, 0>>, x.from = i * PageUnits, x.size = j * PageUnits,
         NEW Y, Y = Pieces(z, L, x.from, n),
         Items' = (Items \ {x}) \cup Y, x \notin Buffers, Buffers' = Buffers \cup Y,
         call'[c].pc \notin Loop, \A d \in Callers \ {c} : call'[d] = call[d]
  PROVE  FitInv' /\ CoverInv' /\ (ApartInv => ApartInv')
<1> DEFINE P == PageUnits
           B == BufSize[z]
           b == i * P
           S == j * P
<1>1. P \in Nat \ {0} /\ B \in Nat \ {0} /\ B <= P /\ NPages \in Nat
  BY Zenon, Sizes
<1>2. b \in Nat /\ S \in Nat /\ P <= S /\ (i + j) * P = b + S
  <2>1. b \in Nat /\ S \in Nat /\ 1 * P <= S /\ (i + j) * P = b + S
    BY <1>1, Multiples
  <2>2. QED BY <1>1, <2>1
<1>3. n = S \div B
  BY Zenon
<1> HIDE DEF P, B
<1>4. /\ n * B \in Nat /\ n * B <= S /\ S < n * B + B
      /\ \A q \in 0..(n - 1) : q * B \in Nat /\ b + q * B + B <= b + S
      /\ \A q, r \in 0..(n - 1) : q < r => q * B + B <= r * B
  <2> HIDE DEF b, S
  <2>1. QED BY <1>1, <1>2, <1>3, PieceInside, Zenon
<1>5. n >= 1
  <2>1. n = 0 => n * B = 0
    BY <1>1
  <2> HIDE DEF S
  <2>2. QED BY <1>1, <1>2, <1>4, <2>1
<1>6. \A q \in 0..(n - 1) : /\ Piece(z, L, x.from, q).from = b + q * B /\ Piece(z, L, x.from, q).size = B
                            /\ Piece(z, L, x.from, q).who = <<"free", z, L + q>>
                            /\ Piece(z, L, x.from, q) \in Y
  BY Zenon DEF Piece, Pieces, B, P
<1>7. x.from = b /\ x.size = S
  BY Zenon DEF P
<1> HIDE DEF b, S
<1>8. \A y \in Y : \E q \in 0..(n - 1) : y.from = b + q * B /\ y.size = B /\ y.who = <<"free", z, L + q>>
  BY <1>6 DEF Pieces
<1>9. \A y \in Y : y.from \in Nat /\ y.size \in Nat \ {0} /\ b <= y.from /\ y.from + y.size <= b + S
  <2> SUFFICES ASSUME NEW y \in Y
               PROVE  y.from \in Nat /\ y.size \in Nat \ {0} /\ b <= y.from /\ y.from + y.size <= b + S
    BY Zenon
  <2>1. PICK q \in 0..(n - 1) : y.from = b + q * B /\ y.size = B
    BY Zenon, <1>8
  <2>2. q * B \in Nat /\ b + q * B + B <= b + S
    BY Zenon, <1>4
  <2>3. QED BY <1>1, <1>2, <2>1, <2>2
<1>10. FitInv'
  <2>1. ASSUME NEW y \in Y PROVE Fits(y)
    <3>1. PICK m \in 0..NPages : Mapped(m) /\ x.from + x.size <= m * PageUnits
      BY Zenon DEF FitInv, Fits
    <3>2. y.from + y.size <= m * PageUnits
      <4>1. m * PageUnits \in Nat
        BY <1>1, <3>1 DEF P
      <4>2. QED BY <1>2, <1>7, <1>9, <3>1, <4>1
    <3>3. ASSUME NEW p \in 0..(NPages - 1), p * PageUnits < y.from + y.size,
                 y.from < (p + 1) * PageUnits
          PROVE  pte[p] # Null
      <4> DEFINE lo == p * PageUnits
                 hi == (p + 1) * PageUnits
      <4>1. lo \in Nat /\ hi \in Nat
        BY <1>1 DEF P
      <4>2. lo < y.from + y.size /\ y.from < hi
        BY Zenon, <3>3
      <4> HIDE DEF lo, hi
      <4>3. lo < x.from + x.size /\ x.from < hi
        BY <1>2, <1>7, <1>9, <4>1, <4>2
      <4>4. QED BY Zenon, <4>3 DEF FitInv, Fits, lo, hi
    <3>4. QED BY Zenon, <1>9, <3>1, <3>2, <3>3 DEF Fits
  <2>2. \A h \in Items' : Fits(h)
    BY Zenon, <2>1 DEF FitInv
  <2>3. QED BY Zenon, <2>2 DEF FitInv, Fits, Mapped
<1>11. CoverInv'
  <2> SUFFICES ASSUME NEW p \in 0..(NPages - 1), pte[p] # Null,
                      NEW u \in (p * PageUnits)..((p + 1) * PageUnits - 1)
               PROVE  \/ \E h \in Items' : Covers(h, u)
                      \/ \E h \in Buffers' : Rest(h, p, u)
    BY Zenon DEF CoverInv, Covers, Rest
  <2>1. CASE \E g \in Items \ {x} : Covers(g, u)
    BY Zenon, <2>1
  <2>2. CASE \E g \in Buffers : Rest(g, p, u)
    BY Zenon, <2>2
  <2>3. CASE Covers(x, u)
    <3>1. p \in Nat /\ p * P \in Nat /\ (p + 1) * P = p * P + P
      BY <1>1, Multiples
    <3>2. u \in Nat /\ p * P <= u /\ u < p * P + P
      <4>1. u \in (p * P)..((p + 1) * P - 1)
        BY Zenon DEF P
      <4>2. QED BY <1>1, <3>1, <4>1
    <3>3. b <= u /\ u < b + S
      BY Zenon, <1>7, <2>3 DEF Covers
    <3>4. u - b \in Nat
      BY <1>2, <3>2, <3>3
    <3>5. (\E q \in 0..(n - 1) : q * B <= u - b /\ u - b < q * B + B) \/ n * B <= u - b
      BY <1>1, <3>4, PieceOf, Zenon
    <3>6. CASE \E q \in 0..(n - 1) : q * B <= u - b /\ u - b < q * B + B
      <4>1. PICK q \in 0..(n - 1) : q * B <= u - b /\ u - b < q * B + B
        BY Zenon, <3>6
      <4>2. q * B \in Nat
        BY Zenon, <1>4
      <4>3. b + q * B <= u /\ u < b + q * B + B
        BY <1>1, <1>2, <3>2, <4>1, <4>2
      <4>4. Covers(Piece(z, L, x.from, q), u)
        BY Zenon, <1>6, <4>3 DEF Covers
      <4>5. QED BY Zenon, <1>6, <4>4
    <3>7. CASE n * B <= u - b
      <4>1. (p + 1) * P = b + S
        <5>1. p < i + j
          <6>1. i + j <= p => (i + j) * P <= p * P
            BY <1>1, <3>1, Multiples
          <6> DEFINE pp == p * P
                     e == (i + j) * P
          <6>2. pp \in Nat /\ e = b + S /\ pp <= u /\ (i + j <= p => e <= pp)
            BY Zenon, <1>2, <3>1, <3>2, <6>1
          <6> HIDE DEF pp, e
          <6>3. QED BY <1>2, <3>1, <3>2, <3>3, <6>2
        <5>2. p + 1 >= i + j
          <6>1. p + 1 < i + j => (p + 1) * P + P <= (i + j) * P
            BY <1>1, <3>1, Multiples
          <6> DEFINE pp == p * P
                     nb == n * B
                     e == (i + j) * P
          <6>2. pp \in Nat /\ e = b + S /\ u < pp + P /\ (p + 1 < i + j => pp + P + P <= e)
            BY Zenon, <1>1, <1>2, <3>1, <3>2, <6>1
          <6>3. nb \in Nat /\ S < nb + B /\ nb <= u - b /\ B <= P
            BY Zenon, <1>1, <1>4, <3>7
          <6> HIDE DEF pp, e, nb
          <6>4. QED BY <1>1, <1>2, <3>1, <3>2, <6>2, <6>3
        <5>3. p + 1 = i + j
          BY <3>1, <5>1, <5>2
        <5>4. QED BY Zenon, <1>2, <5>3
      <4> DEFINE q == n - 1
                 qb == q * B
                 nb == n * B
      <4>2. q \in 0..(n - 1) /\ qb \in Nat /\ nb = qb + B
        <5>1. q \in Nat /\ q \in 0..(n - 1) /\ n = q + 1
          BY <1>5
        <5> HIDE DEF q
        <5>2. QED BY <1>1, <5>1, Multiples
      <4>3. nb \in Nat /\ S < nb + B /\ nb <= u - b
        BY Zenon, <1>4, <3>7
      <4> HIDE DEF qb, nb
      <4>4. b + qb <= u /\ b + S < b + qb + 2 * B
        BY <1>1, <1>2, <3>2, <4>2, <4>3
      <4>5. Piece(z, L, x.from, q).from = b + qb /\ Piece(z, L, x.from, q).size = B /\ Piece(z, L, x.from, q) \in Y
        BY Zenon, <1>6, <4>2 DEF qb
      <4>6. Rest(Piece(z, L, x.from, q), p, u)
        BY Zenon, <4>1, <4>4, <4>5 DEF Rest, P
      <4>7. QED BY Zenon, <4>5, <4>6
    <3>8. QED BY Zenon, <3>5, <3>6, <3>7
  <2>4. QED BY Zenon, <2>1, <2>2, <2>3 DEF CoverInv
<1>12. ASSUME ApartInv PROVE ApartInv'
  <2>1. ASSUME NEW g \in Items \ {x}, NEW y \in Y PROVE Apart(g, y) /\ Apart(y, g)
    <3>1. Apart(g, x)
      BY Zenon, <1>12, Names DEF ApartInv
    <3>2. g.from \in Nat /\ g.size \in Nat
      BY Zenon DEF FitInv, Fits
    <3>3. QED BY <1>2, <1>7, <1>9, <3>1, <3>2 DEF Apart
  <2>2. ASSUME NEW g \in Y, NEW y \in Y, g.who # y.who PROVE Apart(g, y)
    <3>1. PICK q \in 0..(n - 1) : g.from = b + q * B /\ g.size = B /\ g.who = <<"free", z, L + q>>
      BY Zenon, <1>8
    <3>2. PICK r \in 0..(n - 1) : y.from = b + r * B /\ y.size = B /\ y.who = <<"free", z, L + r>>
      BY Zenon, <1>8
    <3>3. q # r
      BY Zenon, <2>2, <3>1, <3>2
    <3>4. q * B \in Nat /\ r * B \in Nat /\ (q * B + B <= r * B \/ r * B + B <= q * B)
      BY <1>4, <3>3
    <3> DEFINE qb == q * B
               rb == r * B
    <3>5. g.from = b + qb /\ y.from = b + rb /\ qb \in Nat /\ rb \in Nat /\ (qb + B <= rb \/ rb + B <= qb)
      BY Zenon, <3>1, <3>2, <3>4
    <3> HIDE DEF qb, rb
    <3>6. QED BY <1>1, <1>2, <3>1, <3>2, <3>5 DEF Apart
  <2>3. ASSUME NEW g \in Items', NEW h \in Items', g.who # h.who PROVE Apart(g, h)
    <3>1. CASE g \in Items \ {x} /\ h \in Items \ {x}
      BY Zenon, <1>12, <2>3, <3>1 DEF ApartInv
    <3>2. QED BY Zenon, <2>1, <2>2, <2>3, <3>1
  <2>4. ASSUME NEW d \in Callers, call'[d].pc \in Loop, NEW h \in Items', h.who # <<"chunk", d, 0>>
        PROVE  h.from + h.size <= call'[d].i0 * PageUnits
    <3>1. d # c /\ call'[d] = call[d]
      BY Zenon, <2>4
    <3>2. CASE h \in Items
      BY Zenon, <1>12, <2>4, <3>1, <3>2 DEF ApartInv
    <3>3. CASE h \in Y
      <4>1. x.who # <<"chunk", d, 0>>
        BY <3>1
      <4>2. x.from + x.size <= call[d].i0 * PageUnits
        BY Zenon, <1>12, <2>4, <3>1, <4>1 DEF ApartInv
      <4>3. call[d].i0 * PageUnits \in Nat
        BY Zenon, LocalTypes, Sizes, Multiples
      <4>4. QED BY <1>2, <1>7, <1>9, <3>1, <3>3, <4>2, <4>3
    <3>4. QED BY Zenon, <3>2, <3>3
  <2>5. QED BY Zenon, <2>3, <2>4 DEF ApartInv, Apart
<1>13. QED BY Zenon, <1>10, <1>11, <1>12
\* zalloc crams the chunk that it got, if any, into its zone.
LEMMA ZrefilledKeeps ==
  ASSUME IInv, NEW c \in Callers, Zrefilled(c)
  PROVE  Kept
<1> USE DEF Growth, Loop, InRound
<1> DEFINE l == call[c]
           m == call'[c]
           z == l.op
<1>1. /\ l.pc = "grown" /\ l.for = "zone" /\ CallOK(l) /\ TypeOK /\ BootInv /\ z \in {"thread", "sched"}
      /\ l.buf = Null /\ l.st = NoStacks /\ l.k = 1 /\ z \in Zones /\ l.j \in Nat /\ l.i0 \in Nat
  BY Zenon, LocalTypes, Sizes DEF IInv, Zrefilled, At, CallOK
<1>2. UNCHANGED <<boot, free, tables, pages, pte, stacks, cpuStack, sched, threads>> /\ Goto(c, "take")
  BY Zenon DEF Zrefilled
<1>3. /\ call' \in [Callers -> Locals] /\ \A d \in Callers \ {c} : call'[d] = call[d]
      /\ m.pc = "take" /\ m.op = l.op /\ m.for = l.for /\ m.buf = l.buf /\ m.st = l.st /\ m.k = l.k
  BY <1>1, <1>2, GotoIs, Zenon
<1>4. BootInv' /\ boot # "vm"
  BY Zenon, <1>1, <1>2, <1>3, BootSame
<1>5. CallOK(call[c])'
  <2> HIDE DEF m, l
  <2>1. CallOK(m)
    BY Zenon, <1>1, <1>3, Sizes DEF CallOK
  <2>2. QED BY Zenon, <1>2, <2>1 DEF CallOK, Mapped, m
<1>6. CASE l.j = 0
  <2>1. zone' = zone
    BY Zenon, <1>6 DEF Zrefilled
  <2>2. TypeOK'
    BY Zenon, <1>1, <1>2, <1>3, <2>1 DEF TypeOK
  <2> HIDE DEF l, m
  <2>3. HeldChunks(c, m) = HeldChunks(c, l)
    BY <1>3, <1>6 DEF HeldChunks, HasChunk
  <2>4. QED BY Zenon, <1>1, <1>2, <1>3, <1>4, <1>5, <2>1, <2>2, <2>3, Quiet DEF l, m
<1>7. CASE l.j # 0
  <2> DEFINE s == zone[z].list
             x == ChunkItem(c, l)
             R == FreesBut(z) \cup BufsBut(c) \cup ThreadBufs(threads) \cup SchedBufs(sched) \cup HeldBufs(c, l)
             O == StacksBut(c) \cup ChunksBut(c) \cup ThreadStacks(threads) \cup Listed(stacks)
                  \cup CpuHeld(cpuStack) \cup HeldStacks(c, l)
  <2>1. PICK b, S, n : b = l.i0 * PageUnits /\ S = l.j * PageUnits /\ n = S \div BufSize[z]
    BY Zenon
  <2>2. BufSize[z] \in Nat \ {0} /\ b \in Nat /\ S \in Nat /\ n \in Nat /\ s \in Seq(Nat)
    <3>1. BufSize[z] \in Nat \ {0} /\ s \in Seq(Nat)
      BY Zenon, <1>1, Sizes DEF TypeOK
    <3>2. b \in Nat /\ S \in Nat
      BY Zenon, <1>1, <2>1, Sizes, Multiples
    <3>3. QED BY Zenon, <2>1, <3>1, <3>2, FitsIn
  <2>3. PICK t : t = Crammed(z, s, b, n)
    BY Zenon
  <2>4. PICK v : v = z
    BY Zenon
  <2>5. t \in Seq(Nat) /\ Bufs(v, t) = Bufs(v, s) \cup Pieces(v, Len(s), b, n)
    <3>1. BufSize[v] \in Nat /\ t = Crammed(v, s, b, n)
      BY Zenon, <2>2, <2>3, <2>4
    <3> HIDE DEF s
    <3>2. PICK w : w = s
      BY Zenon
    <3>3. w \in Seq(Nat) /\ t = Crammed(v, w, b, n)
      BY Zenon, <2>2, <3>1, <3>2
    <3>4. w \in Seq(Nat) /\ n \in Nat /\ b \in Nat /\ BufSize[v] \in Nat /\ t = Crammed(v, w, b, n)
      BY Zenon, <2>2, <3>1, <3>3
    <3>5. FreeListOf(v, w, b, n, t)
      BY <3>4, CramList, Zenon
    <3>6. QED BY Zenon, <3>2, <3>5 DEF FreeListOf
  <2>6. Refill(v, t, n)
    <3>1. zone' = Cram(z, Chunk(l))
      BY Zenon, <1>7 DEF Zrefilled
    <3>2. Chunk(l).begin = b /\ Chunk(l).size = S
      BY Zenon, <2>1 DEF Chunk
    <3>3. QED BY <2>1, <2>3, <2>4, <3>1, <3>2, Zenon DEF Cram, Refill, Crammed
  <2>7. /\ zone' \in [Zones -> [list : Seq(Nat), count : Int, lock : Callers \cup {Null}]]
        /\ zone'[v].list = t /\ \A y \in Zones \ {v} : zone'[y].list = zone[y].list
    <3>1. n \in Int /\ v \in Zones
      BY <1>1, <2>2, <2>4
    <3>2. QED BY <1>1, <2>5, <2>6, <3>1, ZoneRefilled, Zenon
  <2>8. TypeOK'
    BY <1>1, <1>2, <1>3, <2>7, Zenon DEF TypeOK
  <2> HIDE DEF l, m, z
  <2>9. HeldChunks(c, m) = {} /\ HeldChunks(c, l) = {x} /\ HeldBufs(c, m) = HeldBufs(c, l)
        /\ HeldStacks(c, m) = HeldStacks(c, l)
    BY <1>1, <1>3, <1>7 DEF HeldChunks, HasChunk, HeldBufs, HeldStacks
  <2>10. /\ FreesBut(v)' = FreesBut(v) /\ BufsBut(c)' = BufsBut(c)
         /\ StacksBut(c)' = StacksBut(c) /\ ChunksBut(c)' = ChunksBut(c)
    BY Zenon, <1>1, <1>3, <2>4, <2>7, Elsewhere
  <2>11. Buffers = R \cup Bufs(v, s) /\ Items = Buffers \cup O \cup {x}
    BY Zenon, <1>1, <2>4, <2>9, Parts DEF AllBuffers, AllOthers, l
  <2>12. Buffers' = R \cup Bufs(v, t) /\ Items' = Buffers' \cup O
    BY Zenon, <1>1, <1>2, <2>4, <2>7, <2>9, <2>10, PartsAfter DEF m
  <2>13. x.who = <<"chunk", c, 0>> /\ x.from = b /\ x.size = S
    BY Zenon, <2>1 DEF ChunkItem
  <2>14. x.who[1] = "chunk" /\ x.who[2] = c
    BY <2>13
  <2> HIDE DEF x
  <2>15. x \notin R /\ x \notin O /\ x \notin Bufs(v, s)
    <3>1. /\ x \notin FreesBut(v) /\ x \notin BufsBut(c) /\ x \notin ThreadBufs(threads)
          /\ x \notin SchedBufs(sched) /\ x \notin Bufs(v, s) /\ x \notin HeldBufs(c, l)
      BY Zenon, <1>1, <2>4, <2>14, Tags DEF l
    <3>2. /\ x \notin StacksBut(c) /\ x \notin ChunksBut(c) /\ x \notin ThreadStacks(threads)
          /\ x \notin Listed(stacks) /\ x \notin CpuHeld(cpuStack) /\ x \notin HeldStacks(c, l)
      BY Zenon, <1>1, <2>4, <2>14, Tags DEF l
    <3>3. QED BY Zenon, <2>4, <3>1, <3>2
  <2> DEFINE Y == Pieces(v, Len(s), b, n)
  <2>16. x \notin Y
    BY <2>14 DEF Piece, Pieces
  <2> HIDE DEF R, O, Y
  <2>17. /\ x \in Items /\ x \notin Buffers /\ Items' = (Items \ {x}) \cup Y /\ Buffers' = Buffers \cup Y
    BY Zenon, <2>5, <2>11, <2>12, <2>15, <2>16 DEF Y
  <2>18. FitInv' /\ CoverInv' /\ (ApartInv => ApartInv')
    <3>1. TypeOK /\ FitInv /\ CoverInv /\ pages' = pages /\ pte' = pte
      BY Zenon, <1>2 DEF IInv
    <3>2. PICK L, i, j : L = Len(s) /\ i = l.i0 /\ j = l.j
      BY Zenon
    <3>3. L \in Nat /\ i \in Nat /\ j \in Nat \ {0} /\ n = (j * PageUnits) \div BufSize[v] /\ v \in Zones
      BY <1>1, <1>7, <2>1, <2>2, <2>4, <3>2
    <3>4. x.from = i * PageUnits /\ x.size = j * PageUnits
      BY Zenon, <2>1, <2>13, <3>2
    <3>5. Y = Pieces(v, L, x.from, n)
      BY Zenon, <2>13, <3>2 DEF Y
    <3>6. call'[c].pc \notin Loop
      BY Zenon, <1>3 DEF m
    <3>7. PICK w : w = x
      BY Zenon
    <3>8. /\ w \in Items /\ w.who = <<"chunk", c, 0>> /\ w.from = i * PageUnits /\ w.size = j * PageUnits
          /\ Y = Pieces(v, L, w.from, n) /\ Items' = (Items \ {w}) \cup Y /\ w \notin Buffers
          /\ Buffers' = Buffers \cup Y
      BY Zenon, <2>13, <2>17, <3>4, <3>5, <3>7
    <3>9. n \in Nat /\ \A d \in Callers \ {c} : call'[d] = call[d]
      BY Zenon, <1>3, <2>2
    <3> HIDE DEF Growth, Loop, InRound
    <3>10. QED BY <3>1, <3>3, <3>6, <3>8, <3>9, CutKeeps
  <2>19. QED BY Zenon, <1>1, <1>2, <1>3, <1>4, <1>5, <2>8, <2>18, Keeps DEF Kept, l, m
<1>8. QED BY Zenon, <1>6, <1>7

-----------------------------------------------------------------------------
\* A round of the loop.

\* The two ways out of remove_top.
LEMMA RemoveTopKeeps ==
  ASSUME IInv, NEW c \in Callers, RemoveTop(c)
  PROVE  Kept
BY Zenon, RemoveNothing, RemoveOne

\* And of thread_allocate's test.
LEMMA BuiltKeeps ==
  ASSUME IInv, NEW c \in Callers, Built(c)
  PROVE  Kept
BY Zenon, BuiltFails, BuiltSucceeds
=============================================================================
