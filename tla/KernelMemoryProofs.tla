------------------------- MODULE KernelMemoryProofs -------------------------
(***************************************************************************)
(* Safety of the kernel memory, continued: grow_critical fills the pages   *)
(* of the dataspace, vm_init makes the page tables, and every step keeps   *)
(* the invariant of KernelAllocProofs.  The theorems follow.               *)
(*                                                                         *)
(* That chunks do not overlap, and that the page table has the frames of   *)
(* ds_pages, needs more: grow_critical has no lock, and two calls of it at *)
(* once fill the same pages.  It is shown for executions in which the      *)
(* loops of two calls are never under way at once, and for every execution *)
(* until main() has made the scheduler.                                    *)
(***************************************************************************)
EXTENDS KernelAllocProofs

\* What a step has to show when other loops may be under way.
KeptIfOne ==
  /\ IInv'
  /\ ApartInv /\ OneGrows => ApartInv'
  /\ SyncInv /\ OneGrows => SyncInv'

\* A unit below the end of m pages is on one of them.
LEMMA PageBelow ==
  ASSUME NEW x \in Nat, NEW m \in Nat, NEW u \in Nat \ {0}, x < m * u
  PROVE  x \div u \in Nat /\ x \div u < m
<1> DEFINE d == x \div u
<1>1. d \in Nat /\ d * u <= x
  <2>1. x = u * (x \div u) + (x % u) /\ x % u \in Nat /\ x \div u \in Nat
    OBVIOUS
  <2>2. QED BY <2>1
<1> HIDE DEF d
<1>2. m <= d => m * u <= d * u
  BY Zenon, <1>1, Multiples
<1>3. d < m
  <2>1. m * u \in Nat /\ d * u \in Nat
    BY <1>1
  <2> DEFINE mu == m * u
             du == d * u
  <2> HIDE DEF mu, du
  <2>2. mu \in Nat /\ du \in Nat /\ (m <= d => mu <= du) /\ x < mu /\ du <= x
    BY Zenon, <1>1, <1>2, <2>1 DEF mu, du
  <2>3. QED BY <1>1, <2>2
<1>4. QED BY Zenon, <1>1, <1>3 DEF d

\* The first pages are the ones that are there.
LEMMA Front ==
  ASSUME FrameInv, TypeOK, NEW f \in 0..NPages, \A p \in 0..(NPages - 1) : pages[p] # 0 <=> p < f
  PROVE  /\ \A m \in 0..NPages : Mapped(m) <=> m <= f
         /\ Unset = f..(NPages - 1)
         /\ Unset = {} <=> f = NPages
         /\ Unset # {} => Min(Unset) = f
<1> NPages \in Nat
  BY Zenon, Sizes
<1>1. \A m \in 0..NPages : Mapped(m) <=> m <= f
  <2>1. ASSUME NEW m \in 0..NPages, Mapped(m) PROVE m <= f
    BY <2>1 DEF Mapped
  <2>2. ASSUME NEW m \in 0..NPages, m <= f PROVE Mapped(m)
    BY <2>2 DEF Mapped
  <2>3. QED BY Zenon, <2>1, <2>2
<1>2. Unset = f..(NPages - 1)
  BY DEF Unset
<1>3. f <= NPages - 1 => Min(f..(NPages - 1)) = f
  <2>1. ASSUME f <= NPages - 1 PROVE Min(f..(NPages - 1)) = f
    <3>1. f \in f..(NPages - 1) /\ \A y \in f..(NPages - 1) : f <= y
      BY <2>1
    <3>2. \A x \in f..(NPages - 1) : (\A y \in f..(NPages - 1) : x <= y) => x = f
      BY <3>1
    <3>3. QED BY Zenon, <3>1, <3>2 DEF Min
  <2>2. QED BY Zenon, <2>1
<1>4. QED BY <1>1, <1>2, <1>3

\* grow_critical looks for the first unset page.
LEMMA GrowScanKeeps ==
  ASSUME IInv, NEW c \in Callers, GrowScan(c)
  PROVE  Kept
<1> USE DEF Growth, Loop, InRound
<1> DEFINE l == call[c]
           i == IF Unset = {} THEN l.i0 ELSE Min(Unset)
           m == call'[c]
<1>1. l \in Locals /\ l.pc = "scan" /\ CallOK(l) /\ l.for # Null
  BY Zenon, LocalTypes DEF IInv, GrowScan, At, CallOK
<1>3. PICK f \in 0..NPages : \A p \in 0..(NPages - 1) : pages[p] # 0 <=> p < f
  BY Zenon DEF IInv, FrameInv
<1>4. i \in Nat /\ (Unset # {} => i = f /\ f < NPages) /\ \A k \in 0..NPages : Mapped(k) <=> k <= f
  <2>1. /\ \A k \in 0..NPages : Mapped(k) <=> k <= f
        /\ Unset = {} <=> f = NPages
        /\ Unset # {} => Min(Unset) = f
    BY Zenon, <1>3, Front DEF IInv
  <2>2. l.i0 \in Nat /\ NPages \in Nat
    BY Zenon, <1>1, Sizes DEF Locals
  <2>3. QED BY <2>1, <2>2
<1>5. /\ \A d \in Callers \ {c} : call'[d] = call[d]
      /\ m = [l EXCEPT !.pc = IF Unset = {} THEN "grown" ELSE "grow", !.i0 = i, !.j = 0]
      /\ call' \in [Callers -> Locals]
  <2>1. call \in [Callers -> Locals]
    BY Zenon DEF IInv, TypeOK
  <2>2. [l EXCEPT !.pc = IF Unset = {} THEN "grown" ELSE "grow", !.i0 = i, !.j = 0] \in Locals
    BY <1>1, <1>4, Zenon DEF Locals
  <2>3. call' = [call EXCEPT ![c] = [l EXCEPT !.pc = IF Unset = {} THEN "grown" ELSE "grow", !.i0 = i, !.j = 0]]
    BY Zenon DEF GrowScan
  <2> HIDE DEF l, i
  <2>4. QED BY Zenon, <2>1, <2>2, <2>3
<1> HIDE DEF i
<1>6. /\ m.pc = (IF Unset = {} THEN "grown" ELSE "grow") /\ m.i0 = i /\ m.j = 0
      /\ m.buf = l.buf /\ m.st = l.st /\ m.k = l.k /\ m.op = l.op /\ m.for = l.for /\ m.n = l.n
  BY Zenon, <1>1, <1>5 DEF Locals
<1> HIDE DEF l, m
<1>7. TypeOK'
  BY Zenon, <1>5 DEF GrowScan, IInv, TypeOK
<1>8. CallOK(m)
  <2>1. Unset # {} => m.i0 + m.j = f /\ Mapped(f)
    BY <1>4, <1>6, Sizes
  <2>2. QED BY <1>1, <1>6, <2>1 DEF CallOK, PageOf
<1>9. CallOK(call[c])'
  BY <1>8, Zenon DEF CallOK, Mapped, GrowScan, m
<1>10. HeldChunks(c, m) = HeldChunks(c, l)
  BY <1>1, <1>6 DEF HeldChunks, HasChunk
<1>11. Stays
  BY <1>5, <1>6, <1>10, StaysIf, Zenon DEF GrowScan, m, l
<1>12. FitInv' /\ CoverInv'
  BY Zenon, <1>11, StaysKeeps DEF IInv, GrowScan
<1>13. BootInv' /\ boot # "vm"
  <2>1. call[c].pc = "scan" /\ call'[c].op = call[c].op /\ call'[c].for = call[c].for
    BY Zenon, <1>1, <1>6 DEF l, m
  <2>2. UNCHANGED <<boot, cpuStack, sched>> /\ BootInv
    BY Zenon DEF GrowScan, IInv
  <2>3. QED BY Zenon, <1>5, <2>1, <2>2, BootSame
<1>14. IInv' /\ (SyncInv => SyncInv')
  <2>1. ~InRound(call[c]) /\ ~InRound(call'[c]) /\ UNCHANGED <<boot, free, tables, pages, pte>>
    <3>1. ~InRound(call[c]) /\ ~InRound(call'[c])
      BY <1>1, <1>6 DEF l, m
    <3>2. QED BY Zenon, <3>1 DEF GrowScan
  <2> HIDE DEF Growth, Loop, InRound
  <2>2. QED BY <1>5, <1>7, <1>9, <1>12, <1>13, <2>1, Keeps, Zenon
<1>15. ASSUME ApartInv PROVE ApartInv'
  <2>1. \A g, h \in Items' : g.who # h.who => Apart(g, h)
    BY Zenon, <1>11, <1>15 DEF ApartInv, Stays
  <2>2. ASSUME NEW d \in Callers, call'[d].pc \in Loop, NEW h \in Items', h.who # <<"chunk", d, 0>>
        PROVE  h.from + h.size <= call'[d].i0 * PageUnits
    <3>1. CASE d # c
      BY Zenon, <1>5, <1>11, <1>15, <2>2, <3>1 DEF ApartInv, Stays
    <3>2. CASE d = c
      <4>1. call'[d].i0 = f
        BY Zenon, <1>4, <1>6, <2>2, <3>2 DEF m
      <4>2. h \in Items
        BY Zenon, <1>11 DEF Stays
      <4>3. h.from \in Nat /\ h.size \in Nat /\ \E k \in 0..NPages : Mapped(k) /\ h.from + h.size <= k * PageUnits
        BY Zenon, <4>2 DEF IInv, FitInv, Fits
      <4>4. PICK k \in 0..NPages : Mapped(k) /\ h.from + h.size <= k * PageUnits
        BY Zenon, <4>3
      <4>5. k \in Nat /\ f \in Nat /\ k <= f /\ PageUnits \in Nat
        BY <1>4, <4>4, Sizes
      <4>6. k * PageUnits <= f * PageUnits /\ k * PageUnits \in Nat /\ f * PageUnits \in Nat
        BY Zenon, <4>5, Multiples
      <4>7. h.from + h.size <= f * PageUnits
        BY <4>3, <4>4, <4>6
      <4>8. QED BY Zenon, <4>1, <4>7
    <3>3. QED BY Zenon, <3>1, <3>2
  <2>3. QED BY Zenon, <2>1, <2>2 DEF ApartInv, Apart
<1>16. QED BY Zenon, <1>14, <1>15 DEF Kept

-----------------------------------------------------------------------------
\* A round of the loop leaves the other calls as they are: no page is unset.
LEMMA OthersOK ==
  ASSUME IInv, NEW c \in Callers, tables' = tables,
         \A d \in Callers \ {c} : call'[d] = call[d],
         \A p \in 0..(NPages - 1) : pages[p] # 0 => pages'[p] # 0
  PROVE  \A d \in Callers \ {c} : CallOK(call[d])'
<1> SUFFICES ASSUME NEW d \in Callers \ {c} PROVE CallOK(call[d])'
  BY Zenon
<1>1. /\ CallOK(call[d]) /\ call'[d] = call[d] /\ call[d].i0 \in Nat /\ call[d].j \in Nat
      /\ NPages \in Nat
  BY Zenon, LocalTypes, Sizes DEF IInv
<1>2. PageOf(call[d]) \in Nat /\ (PageOf(call[d]) < NPages => PageOf(call[d]) \in 0..(NPages - 1))
  BY <1>1 DEF PageOf
<1>3. call[d].pc = "enter" => pages'[PageOf(call[d])] # 0
  BY Zenon, <1>1, <1>2 DEF CallOK, InRound
<1>4. Mapped(PageOf(call[d])) => \A p \in 0..(NPages - 1) : p < PageOf(call[d]) => pages'[p] # 0
  BY Zenon DEF Mapped
<1>5. QED BY <1>1, <1>3, <1>4 DEF CallOK, PageOf, Mapped, InRound

\* The frame that a round takes is above all that are in use.
LEMMA FrameTaken ==
  ASSUME FrameInv, boot # "vm", NEW c \in Callers, NEW i \in Nat, free # {},
         UNCHANGED <<boot, tables, pages, pte>>, free' = free \ {PhysAlloc},
         \A d \in Callers \ {c} : call'[d] = call[d], ~InRound(call[c]),
         InRound(call'[c]), PageOf(call'[c]) = i, call'[c].cur = PhysAlloc
  PROVE  FrameInv' /\ PhysAlloc \in Nat \ {0} /\ tables # 0
<1>1. PICK a \in Nat \ {0}, b \in Int :
        /\ free = a..b /\ (free # {} => tables # 0)
        /\ \A p \in 0..(NPages - 1), f \in Nat : Owns(f, p) => f < a
  BY Zenon DEF FrameInv
<1>2. a <= b /\ tables # 0
  BY <1>1
<1>3. PhysAlloc = a
  <2>1. \A k \in free : a <= k
    BY <1>1
  <2>2. a \in free
    BY <1>1, <1>2
  <2>3. \A x \in free : (\A k \in free : x <= k) => x = a
    BY <1>1, <1>2
  <2>4. QED BY <2>1, <2>2, <2>3, Zenon DEF PhysAlloc, Min
<1>4. free' = (a + 1)..b /\ a + 1 \in Nat \ {0} /\ ~(a < a) /\ a < a + 1 /\ \A f \in Nat : f < a => f < a + 1
  BY <1>1, <1>2, <1>3
<1>5. ASSUME NEW p \in 0..(NPages - 1), NEW f \in Nat, Owns(f, p)'
      PROVE  Owns(f, p) \/ (f = a /\ p = i)
  <2>1. CASE pages'[p] = f \/ pte'[p] = f
    BY Zenon, <2>1 DEF Owns
  <2>2. CASE \E d \in Callers : InRound(call'[d]) /\ PageOf(call'[d]) = p /\ call'[d].cur = f
    <3>1. PICK d \in Callers : InRound(call'[d]) /\ PageOf(call'[d]) = p /\ call'[d].cur = f
      BY Zenon, <2>2
    <3>2. CASE d = c
      BY Zenon, <1>3, <3>1, <3>2
    <3>3. CASE d # c
      BY Zenon, <3>1, <3>3 DEF Owns
    <3>4. QED BY Zenon, <3>2, <3>3
  <2>3. QED BY Zenon, <1>5, <2>1, <2>2 DEF Owns, InRound, PageOf
<1>6. \A p \in 0..(NPages - 1), f \in Nat : Owns(f, p)' => f < a + 1
  BY Zenon, <1>1, <1>4, <1>5
<1>7. ASSUME NEW p \in 0..(NPages - 1), NEW q \in 0..(NPages - 1), NEW f \in Nat \ {0},
             Owns(f, p)', Owns(f, q)'
      PROVE  p = q
  <2>1. f \in Nat /\ (Owns(f, p) \/ (f = a /\ p = i)) /\ (Owns(f, q) \/ (f = a /\ q = i))
    BY Zenon, <1>5, <1>7
  <2>2. ~Owns(a, p) /\ ~Owns(a, q)
    BY Zenon, <1>1, <1>4
  <2>3. Owns(f, p) /\ Owns(f, q) => p = q
    BY Zenon DEF FrameInv
  <2>4. QED BY Zenon, <2>1, <2>2, <2>3
<1>8. \A p \in 0..(NPages - 1) :
        /\ pte'[p] # 0
        /\ pages'[p] # 0 /\ pte'[p] = Null => \E d \in Callers : InRound(call'[d]) /\ PageOf(call'[d]) = p
  <2>1. \A d \in Callers : InRound(call[d]) => call'[d] = call[d]
    BY Zenon
  <2>2. QED BY Zenon, <2>1 DEF FrameInv
<1>9. FrameInv'
  BY Zenon, <1>2, <1>4, <1>6, <1>7, <1>8 DEF FrameInv, InRound, PageOf
<1>10. QED BY Zenon, <1>1, <1>2, <1>3, <1>9

\* A round begins.
LEMMA GrowTakeKeeps ==
  ASSUME IInv, NEW c \in Callers, GrowTake(c)
  PROVE  Kept
<1> USE DEF Growth, Loop
<1> DEFINE l == call[c]
           m == call'[c]
           i == PageOf(l)
<1>1. /\ l \in Locals /\ l.pc = "grow" /\ CallOK(l) /\ TypeOK /\ FrameInv /\ BootInv /\ FitInv /\ CoverInv
      /\ l.i0 \in Nat /\ l.j \in Nat /\ NPages \in Nat
  BY Zenon, LocalTypes, Sizes DEF IInv, GrowTake, At
<1>2. /\ UNCHANGED <<boot, tables, pages, pte, zone, stacks, cpuStack, sched, threads>>
      /\ free' = free \ {PhysAlloc} /\ free # {} /\ i # NPages
  BY Zenon DEF GrowTake, MayGrow
<1>3. /\ \A d \in Callers \ {c} : call'[d] = call[d]
      /\ m = [l EXCEPT !.pc = "set", !.cur = PhysAlloc]
  <2>1. call \in [Callers -> Locals] /\ call' = [call EXCEPT ![c] = [l EXCEPT !.pc = "set", !.cur = PhysAlloc]]
    BY Zenon, <1>1 DEF GrowTake, TypeOK
  <2> HIDE DEF l
  <2>2. QED BY Zenon, <2>1
<1>4. /\ m.pc = "set" /\ m.op = l.op /\ m.for = l.for /\ m.n = l.n /\ m.i0 = l.i0 /\ m.j = l.j
      /\ m.buf = l.buf /\ m.st = l.st /\ m.k = l.k /\ m.cur = PhysAlloc
  BY Zenon, <1>1, <1>3 DEF Locals
<1> HIDE DEF l, m
<1>5. BootInv' /\ boot # "vm"
  <2>1. /\ call[c].pc = "grow" /\ call'[c].op = call[c].op /\ call'[c].for = call[c].for
        /\ UNCHANGED <<boot, cpuStack, sched>>
    BY Zenon, <1>1, <1>2, <1>4 DEF l, m
  <2>2. QED BY Zenon, <1>1, <1>3, <2>1, BootSame
<1>6. i \in Nat /\ i < NPages /\ PageOf(m) = i
  <2>1. i \in Nat /\ PageOf(m) = i
    BY <1>1, <1>4 DEF PageOf
  <2>2. i <= NPages
    BY Zenon, <1>1 DEF CallOK
  <2>3. QED BY <1>1, <1>2, <2>1, <2>2
<1> HIDE DEF i
<1>7. FrameInv' /\ PhysAlloc \in Nat \ {0} /\ tables # 0
  <2>1. ~InRound(call[c]) /\ InRound(call'[c]) /\ PageOf(call'[c]) = i /\ call'[c].cur = PhysAlloc
    BY Zenon, <1>1, <1>4, <1>6 DEF l, m, InRound
  <2>2. UNCHANGED <<boot, tables, pages, pte>>
    BY Zenon, <1>2
  <2>3. QED BY Zenon, <1>1, <1>2, <1>3, <1>5, <1>6, <2>1, <2>2, FrameTaken
<1>8. TypeOK'
  <2>1. m \in Locals
    BY <1>1, <1>3, <1>7, Zenon DEF Locals
  <2>2. call' \in [Callers -> Locals]
    <3>1. call' = [call EXCEPT ![c] = m] /\ call \in [Callers -> Locals]
      BY Zenon, <1>1, <1>3 DEF GrowTake, TypeOK, l
    <3>2. QED BY Zenon, <2>1, <3>1
  <2>3. QED BY Zenon, <1>1, <1>2, <2>2 DEF TypeOK
<1>9. \A d \in Callers : CallOK(call[d])'
  <2>1. CallOK(call[c])'
    <3>1. CallOK(m)
      BY Zenon, <1>1, <1>4, <1>6, <1>7 DEF CallOK, InRound, PageOf, i
    <3>2. QED BY Zenon, <1>2, <3>1 DEF CallOK, InRound, Mapped, PageOf, m
  <2>2. \A d \in Callers \ {c} : CallOK(call[d])'
    BY Zenon, <1>2, <1>3, OthersOK
  <2>3. QED BY Zenon, <2>1, <2>2
<1>10. Stays
  <2>1. HeldChunks(c, call'[c]) = HeldChunks(c, call[c])
    BY Zenon, <1>1, <1>4 DEF HeldChunks, HasChunk, ChunkItem, l, m
  <2>2. call'[c].buf = call[c].buf /\ call'[c].st = call[c].st
    BY Zenon, <1>4 DEF l, m
  <2>3. QED BY Zenon, <1>2, <1>3, <2>1, <2>2, StaysIf
<1>11. FitInv' /\ CoverInv'
  BY Zenon, <1>1, <1>2, <1>10, StaysKeeps
<1>12. \A d \in Callers : call'[d].pc \in Loop => call[d].pc \in Loop /\ call'[d].i0 = call[d].i0
  BY Zenon, <1>1, <1>3, <1>4 DEF l, m
<1>13. ASSUME SyncInv PROVE SyncInv'
  <2>1. \A d \in Callers : (call'[d].pc = "enter" => call[d].pc = "enter") /\ (call[d].pc = "enter" => call'[d] = call[d])
    BY Zenon, <1>1, <1>3, <1>4 DEF l, m
  <2>2. \A d \in Callers : call'[d].pc = "enter" => call'[d] = call[d]
    BY Zenon, <2>1
  <2>3. QED BY Zenon, <1>2, <1>13, <2>1, <2>2 DEF SyncInv, PageOf
<1>14. QED BY Zenon, <1>5, <1>7, <1>8, <1>9, <1>10, <1>11, <1>12, <1>13, StaysApart DEF Kept, IInv

\* The page that a round fills is the first unset one, or one that another call
\* filled in the meantime: the pages that are there stay the first ones.
LEMMA PageSet ==
  ASSUME TypeOK, FrameInv, NEW i \in 0..(NPages - 1), Mapped(i), NEW x \in Nat \ {0},
         pages' = [pages EXCEPT ![i] = x]
  PROVE  /\ pages' \in [0..(NPages - 1) -> Nat] /\ pages'[i] = x
         /\ \A p \in 0..(NPages - 1) \ {i} : pages'[p] = pages[p]
         /\ \A p \in 0..(NPages - 1) : pages[p] # 0 => pages'[p] # 0
         /\ \E f \in 0..NPages : \A p \in 0..(NPages - 1) : pages'[p] # 0 <=> p < f
<1>1. pages \in [0..(NPages - 1) -> Nat] /\ NPages \in Nat \ {0} /\ x # 0
  BY Zenon, Sizes DEF TypeOK
<1>2. /\ pages' \in [0..(NPages - 1) -> Nat] /\ pages'[i] = x
      /\ \A p \in 0..(NPages - 1) \ {i} : pages'[p] = pages[p]
  BY Zenon, <1>1
<1>3. \A p \in 0..(NPages - 1) : pages[p] # 0 => pages'[p] # 0
  BY Zenon, <1>1, <1>2
<1>4. PICK f \in 0..NPages : \A p \in 0..(NPages - 1) : pages[p] # 0 <=> p < f
  BY Zenon DEF FrameInv
<1>5. i <= f
  <2>1. CASE f = NPages
    BY <1>1, <2>1
  <2>2. CASE f # NPages
    <3>1. f \in 0..(NPages - 1) /\ pages[f] = 0
      BY <1>1, <1>4, <2>2
    <3>2. QED BY <1>1, <3>1 DEF Mapped
  <2>3. QED BY Zenon, <2>1, <2>2
<1>6. CASE i = f
  <2>1. f + 1 \in 0..NPages
    BY <1>1, <1>6
  <2>2. \A p \in 0..(NPages - 1) : pages'[p] # 0 <=> p < f + 1
    BY <1>1, <1>2, <1>4, <1>6
  <2>3. QED BY Zenon, <1>2, <1>3, <2>1, <2>2
<1>7. CASE i < f
  <2>1. \A p \in 0..(NPages - 1) : pages'[p] # 0 <=> p < f
    BY Zenon, <1>1, <1>2, <1>4, <1>7
  <2>2. QED BY Zenon, <1>2, <1>3, <2>1
<1>8. i = f \/ i < f
  BY <1>1, <1>5
<1>9. QED BY Zenon, <1>6, <1>7, <1>8

\* It assigns the frame to ds_pages: only that the page table will agree needs
\* that no other call is in its loop.
LEMMA GrowSetKeeps ==
  ASSUME IInv, NEW c \in Callers, GrowSet(c)
  PROVE  KeptIfOne
<1> USE DEF Growth, Loop
<1> DEFINE l == call[c]
           m == call'[c]
           i == PageOf(l)
<1>1. /\ l \in Locals /\ l.pc = "set" /\ CallOK(l) /\ TypeOK /\ FrameInv /\ BootInv /\ FitInv /\ CoverInv
      /\ l.i0 \in Nat /\ l.j \in Nat /\ NPages \in Nat
  BY Zenon, LocalTypes, Sizes DEF IInv, GrowSet, At
<1>2. /\ UNCHANGED <<boot, free, tables, pte, zone, stacks, cpuStack, sched, threads>>
      /\ pages' = [pages EXCEPT ![i] = l.cur]
  BY Zenon DEF GrowSet
<1>3. /\ call' \in [Callers -> Locals] /\ \A d \in Callers \ {c} : call'[d] = call[d]
      /\ m = [l EXCEPT !.pc = "enter"]
      /\ m.pc = "enter" /\ m.op = l.op /\ m.for = l.for /\ m.n = l.n /\ m.i0 = l.i0 /\ m.j = l.j
      /\ m.buf = l.buf /\ m.st = l.st /\ m.k = l.k
  BY <1>1, GotoIs, Zenon DEF GrowSet
<1>4. m.cur = l.cur
  BY Zenon, <1>1, <1>3 DEF Locals
<1> HIDE DEF l, m
<1>5. BootInv' /\ boot # "vm"
  <2>1. /\ call[c].pc = "set" /\ call'[c].op = call[c].op /\ call'[c].for = call[c].for
        /\ UNCHANGED <<boot, cpuStack, sched>>
    BY Zenon, <1>1, <1>2, <1>3 DEF l, m
  <2>2. QED BY Zenon, <1>1, <1>3, <2>1, BootSame
<1>6. /\ i \in 0..(NPages - 1) /\ Mapped(i) /\ l.cur \in Nat \ {0} /\ PageOf(m) = i /\ tables # 0
  <2>1. i < NPages /\ Mapped(i) /\ l.cur \in Nat \ {0} /\ PageOf(m) = i /\ tables # 0
    BY Zenon, <1>1, <1>3 DEF CallOK, InRound, PageOf
  <2>2. i \in Nat
    BY <1>1 DEF PageOf
  <2>3. QED BY <1>1, <2>1, <2>2
<1>7. /\ call[c].pc = "set" /\ InRound(call[c]) /\ PageOf(call[c]) = i /\ call[c].cur = l.cur
      /\ call'[c].pc = "enter" /\ InRound(call'[c]) /\ PageOf(call'[c]) = i /\ call'[c].cur = l.cur
  BY Zenon, <1>1, <1>3, <1>4, <1>6 DEF InRound, l, m
<1> DEFINE x == l.cur
<1> HIDE DEF i, x
<1>8. /\ pages' \in [0..(NPages - 1) -> Nat] /\ pages'[i] = x
      /\ \A p \in 0..(NPages - 1) \ {i} : pages'[p] = pages[p]
      /\ \A p \in 0..(NPages - 1) : pages[p] # 0 => pages'[p] # 0
      /\ \E f \in 0..NPages : \A p \in 0..(NPages - 1) : pages'[p] # 0 <=> p < f
  <2>1. x \in Nat \ {0} /\ pages' = [pages EXCEPT ![i] = x]
    BY Zenon, <1>2, <1>6 DEF x
  <2>2. QED BY Zenon, <1>1, <1>6, <2>1, PageSet
<1>9. FrameInv'
  <2>1. ASSUME NEW p \in 0..(NPages - 1), NEW f \in Nat, Owns(f, p)' PROVE Owns(f, p)
    <3>1. CASE pages'[p] = f \/ pte'[p] = f
      BY Zenon, <1>2, <1>7, <1>8, <3>1 DEF Owns, x
    <3>2. CASE \E d \in Callers : InRound(call'[d]) /\ PageOf(call'[d]) = p /\ call'[d].cur = f
      <4>1. PICK d \in Callers : InRound(call'[d]) /\ PageOf(call'[d]) = p /\ call'[d].cur = f
        BY Zenon, <3>2
      <4>2. InRound(call[d]) /\ PageOf(call[d]) = p /\ call[d].cur = f
        BY Zenon, <1>3, <1>7, <4>1
      <4>3. QED BY Zenon, <4>2 DEF Owns
    <3>3. QED BY Zenon, <2>1, <3>1, <3>2 DEF Owns, InRound, PageOf
  <2>2. ASSUME NEW p \in 0..(NPages - 1)
        PROVE  /\ pte'[p] # 0
               /\ pages'[p] # 0 /\ pte'[p] = Null => \E d \in Callers : InRound(call'[d]) /\ PageOf(call'[d]) = p
    <3>1. pte'[p] = pte[p] /\ pte[p] # 0
      BY Zenon, <1>1, <1>2 DEF FrameInv
    <3>2. CASE p = i
      BY Zenon, <1>7, <3>1, <3>2
    <3>3. CASE p # i
      <4>1. pages'[p] = pages[p]
        BY Zenon, <1>8, <3>3
      <4>2. \A d \in Callers : InRound(call[d]) /\ PageOf(call[d]) = p => call'[d] = call[d]
        BY Zenon, <1>3, <1>7, <3>3
      <4>3. QED BY Zenon, <1>1, <3>1, <4>1, <4>2 DEF FrameInv
    <3>4. QED BY Zenon, <3>2, <3>3
  <2>3. boot' # "vm" /\ boot # "vm" /\ UNCHANGED <<free, tables>>
    BY Zenon, <1>2, <1>5
  <2>4. QED BY Zenon, <1>1, <1>8, <2>1, <2>2, <2>3 DEF FrameInv, InRound, PageOf
<1>10. TypeOK'
  BY Zenon, <1>1, <1>2, <1>3, <1>8 DEF TypeOK
<1>11. \A d \in Callers : CallOK(call[d])'
  <2>1. CallOK(call[c])'
    <3>1. \A p \in 0..(NPages - 1) : p < PageOf(m) => pages'[p] # 0
      BY Zenon, <1>6, <1>8 DEF Mapped
    <3>2. pages'[PageOf(m)] # 0 /\ PageOf(m) < NPages /\ PageOf(m) <= NPages
      BY <1>1, <1>6, <1>8 DEF x
    <3>3. l.cur \in Nat \ {0} /\ tables' # 0
      BY Zenon, <1>2, <1>6
    <3>4. QED BY <1>1, <1>3, <1>4, <3>1, <3>2, <3>3 DEF CallOK, InRound, Mapped, PageOf, m
  <2>2. \A d \in Callers \ {c} : CallOK(call[d])'
    BY Zenon, <1>2, <1>3, <1>8, OthersOK
  <2>3. QED BY Zenon, <2>1, <2>2
<1>12. Stays
  <2>1. HeldChunks(c, call'[c]) = HeldChunks(c, call[c])
    BY Zenon, <1>1, <1>3 DEF HeldChunks, HasChunk, ChunkItem, l, m
  <2>2. call'[c].buf = call[c].buf /\ call'[c].st = call[c].st
    BY Zenon, <1>3 DEF l, m
  <2>3. QED BY Zenon, <1>2, <1>3, <2>1, <2>2, StaysIf
<1>13. FitInv' /\ CoverInv'
  <2>1. \A k \in 0..NPages : Mapped(k) => Mapped(k)'
    BY Zenon, <1>8 DEF Mapped
  <2>2. FitInv'
    BY Zenon, <1>1, <1>2, <1>12, <2>1 DEF FitInv, Fits, Stays
  <2>3. CoverInv'
    BY Zenon, <1>1, <1>2, <1>12 DEF CoverInv, Covers, Rest, Stays
  <2>4. QED BY Zenon, <2>2, <2>3
<1>14. \A d \in Callers : call'[d].pc \in Loop => call[d].pc \in Loop /\ call'[d].i0 = call[d].i0
  BY Zenon, <1>1, <1>3 DEF l, m
<1>15. ASSUME SyncInv, OneGrows PROVE SyncInv'
  <2>1. \A d \in Callers \ {c} : call[d].pc # "enter"
    BY Zenon, <1>7, <1>15 DEF OneGrows
  <2>2. ASSUME NEW p \in 0..(NPages - 1), pages'[p] # 0
        PROVE  pte'[p] = pages'[p] \/ \E d \in Callers : call'[d].pc = "enter" /\ PageOf(call'[d]) = p
    BY Zenon, <1>2, <1>7, <1>8, <1>15, <2>1, <2>2 DEF SyncInv
  <2>3. ASSUME NEW d \in Callers, call'[d].pc = "enter" PROVE pages'[PageOf(call'[d])] = call'[d].cur
    <3>1. d = c
      BY Zenon, <1>3, <2>1, <2>3
    <3>2. QED BY Zenon, <1>7, <1>8, <3>1 DEF x
  <2>4. QED BY Zenon, <2>2, <2>3 DEF SyncInv, PageOf
<1>16. QED BY Zenon, <1>5, <1>9, <1>10, <1>11, <1>12, <1>13, <1>14, <1>15, StaysApart DEF KeptIfOne, IInv

\* The chunk, if there was one yet, is replaced by one that ends a page later.
Grows(c, i0, j, X, y) ==
  /\ X \subseteq Items /\ Items' = (Items \ X) \cup {y} /\ Buffers' = Buffers
  /\ y.who = <<"chunk", c, 0>> /\ y.from = i0 * PageUnits /\ y.size = (j + 1) * PageUnits
  /\ \A x \in X : x.who = <<"chunk", c, 0>> /\ x.from = i0 * PageUnits /\ x.size = j * PageUnits
  /\ \A g \in Items \ X : g.who # <<"chunk", c, 0>>
  /\ j > 0 => X # {}

\* The longer chunk is in mapped pages, and no unit of the new page is lost.
LEMMA GrowsFit ==
  ASSUME FitInv, CoverInv, NEW c \in Callers, NEW i0 \in Nat, NEW j \in Nat, i0 + j < NPages,
         \A p \in 0..(NPages - 1) \ {i0 + j} : pte'[p] = pte[p], pte'[i0 + j] # Null,
         pages' = pages, Mapped(i0 + j + 1),
         NEW X, NEW y, Grows(c, i0, j, X, y)
  PROVE  FitInv' /\ CoverInv'
<1> DEFINE P == PageUnits
           b == i0 * P
           S == j * P
           i == i0 + j
<1>1. P \in Nat \ {0} /\ NPages \in Nat /\ i \in Nat /\ i + 1 \in 0..NPages
  BY Sizes
<1>2. b \in Nat /\ S \in Nat /\ i * P = b + S /\ (i + 1) * P = b + S + P /\ (j + 1) * P = S + P
  <2>1. b \in Nat /\ S \in Nat /\ (i0 + j) * P = b + S /\ (j + 1) * P = S + P
    BY <1>1, Multiples
  <2>2. (i + 1) * P = i * P + P
    <3> HIDE DEF i
    <3>1. QED BY Zenon, <1>1, Multiples
  <2>3. QED BY Zenon, <2>1, <2>2
<1>3. /\ y.from = b /\ y.size = S + P
      /\ \A x \in X : x.from = b /\ x.size = S
  BY Zenon, <1>2 DEF Grows
<1>4. /\ X \subseteq Items /\ Items' = (Items \ X) \cup {y} /\ Buffers' = Buffers /\ (j > 0 => X # {})
  BY Zenon DEF Grows
<1>10. /\ \A p \in 0..(NPages - 1) : pte[p] # Null => pte'[p] # Null
       /\ \A m \in 0..NPages : Mapped(m) => Mapped(m)'
  BY Zenon DEF Mapped
<1>5. i = i0 + j
  BY Zenon
<1>6. PageUnits = P
  BY Zenon
<1> HIDE DEF P, b, S, i
<1>7. FitInv'
  <2>1. ASSUME NEW h \in Items' PROVE Fits(h)'
    <3>1. CASE h \in Items
      BY Zenon, <1>10, <3>1 DEF FitInv, Fits
    <3>2. CASE h = y
      <4>1. h.from \in Nat /\ h.size \in Nat \ {0} /\ h.from + h.size = (i + 1) * P
        BY <1>1, <1>2, <1>3, <3>2
      <4>2. h.from + h.size <= (i + 1) * PageUnits
        <5> DEFINE e == (i + 1) * P
        <5>1. e \in Nat /\ h.from + h.size = e
          BY <1>1, <1>2, <4>1
        <5> HIDE DEF e
        <5>2. h.from + h.size <= e
          BY <5>1
        <5>3. QED BY Zenon, <1>6, <5>2 DEF e
      <4>3. ASSUME NEW p \in 0..(NPages - 1), p * PageUnits < h.from + h.size, h.from < (p + 1) * PageUnits
            PROVE  pte'[p] # Null
        <5>1. CASE p = i
          BY Zenon, <1>5, <5>1
        <5>2. CASE p # i
          <6> DEFINE pp == p * P
                     ip == i * P
          <6>1. /\ p \in Nat /\ pp \in Nat /\ ip \in Nat /\ (p + 1) * P = pp + P
                /\ (p < i => pp + P <= ip) /\ (i < p => ip + P <= pp)
            BY <1>1, Multiples
          <6>2. pp < b + S + P /\ b < pp + P /\ ip = b + S
            BY Zenon, <1>2, <1>6, <4>1, <4>3, <3>2, <1>3, <6>1
          <6> HIDE DEF pp, ip
          <6>3. p < i /\ pp < b + S /\ S # 0
            BY <1>1, <1>2, <5>2, <6>1, <6>2
          <6>4. j > 0
            <7>1. j = 0 => S = 0
              BY <1>1 DEF S
            <7>2. QED BY <6>3, <7>1
          <6>5. PICK x \in X : x \in Items /\ x.from = b /\ x.size = S
            BY Zenon, <1>3, <1>4, <6>4
          <6>6. p * PageUnits < x.from + x.size /\ x.from < (p + 1) * PageUnits
            BY Zenon, <1>6, <6>1, <6>2, <6>3, <6>5 DEF pp
          <6>7. pte[p] # Null
            BY Zenon, <6>5, <6>6 DEF FitInv, Fits
          <6>8. QED BY Zenon, <1>10, <6>7
        <5>3. QED BY Zenon, <5>1, <5>2
      <4>4. Mapped(i + 1)'
        BY Zenon, <1>1, <1>5, <1>10
      <4>5. QED BY Zenon, <1>1, <4>1, <4>2, <4>3, <4>4 DEF Fits
    <3>3. QED BY Zenon, <1>4, <3>1, <3>2
  <2>2. QED BY Zenon, <2>1 DEF FitInv
<1>8. CoverInv'
  <2> SUFFICES ASSUME NEW p \in 0..(NPages - 1), pte'[p] # Null,
                      NEW u \in (p * PageUnits)..((p + 1) * PageUnits - 1)
               PROVE  \/ \E h \in Items' : Covers(h, u)
                      \/ \E h \in Buffers' : Rest(h, p, u)
    BY Zenon DEF CoverInv, Covers, Rest
  <2>1. p * P \in Nat /\ (p + 1) * P = p * P + P
    BY <1>1, Multiples
  <2> DEFINE pp == p * P
  <2>2. u \in Nat /\ pp \in Nat /\ pp <= u /\ u < pp + P
    <3>1. u \in pp..((pp + P) - 1)
      BY Zenon, <1>6, <2>1
    <3>2. QED BY <1>1, <2>1, <3>1
  <2>3. CASE p = i
    <3>1. pp = b + S
      BY Zenon, <1>2, <2>3
    <3> HIDE DEF pp
    <3>2. Covers(y, u)
      BY <1>1, <1>2, <1>3, <2>2, <3>1 DEF Covers
    <3>3. QED BY Zenon, <1>4, <3>2
  <2> HIDE DEF pp
  <2>4. CASE p # i
    <3>1. pte[p] # Null
      BY Zenon, <1>5, <2>4
    <3>2. (\E h \in Items : Covers(h, u)) \/ (\E h \in Buffers : Rest(h, p, u))
      BY Zenon, <3>1 DEF CoverInv
    <3>3. CASE \E h \in X : Covers(h, u)
      <4>1. b <= u /\ u < b + S
        BY Zenon, <1>3, <3>3 DEF Covers
      <4>2. Covers(y, u)
        BY <1>1, <1>2, <1>3, <2>2, <4>1 DEF Covers
      <4>3. QED BY Zenon, <1>4, <4>2
    <3>4. CASE \E h \in Items \ X : Covers(h, u)
      BY Zenon, <1>4, <3>4
    <3>5. CASE \E h \in Buffers : Rest(h, p, u)
      BY Zenon, <1>4, <3>5
    <3>6. QED BY Zenon, <1>4, <3>2, <3>3, <3>4, <3>5
  <2>5. QED BY Zenon, <2>3, <2>4
<1>9. QED BY Zenon, <1>7, <1>8

\* Nothing lies behind the chunk, as long as no other call is in its loop.
LEMMA GrowsApart ==
  ASSUME FitInv, ApartInv, OneGrows, NEW c \in Callers, NEW i0 \in Nat, NEW j \in Nat,
         call[c].pc \in Loop, call[c].i0 = i0, call'[c].i0 = i0,
         \A d \in Callers \ {c} : call'[d] = call[d],
         NEW X, NEW y, Grows(c, i0, j, X, y)
  PROVE  ApartInv'
<1>1. \A h \in Items \ X : h.from + h.size <= i0 * PageUnits
  BY Zenon DEF ApartInv, Grows
<1>2. Items' = (Items \ X) \cup {y} /\ y.from = i0 * PageUnits /\ y.who = <<"chunk", c, 0>>
  BY Zenon DEF Grows
<1>3. \A h \in Items \ X : Apart(h, y) /\ Apart(y, h)
  BY Zenon, <1>1, <1>2 DEF Apart
<1>4. ASSUME NEW g \in Items', NEW h \in Items', g.who # h.who PROVE Apart(g, h)
  <2>1. CASE g \in Items \ X /\ h \in Items \ X
    BY Zenon, <1>4, <2>1 DEF ApartInv
  <2>2. QED BY Zenon, <1>2, <1>3, <1>4, <2>1
<1>5. ASSUME NEW d \in Callers, call'[d].pc \in Loop, NEW h \in Items', h.who # <<"chunk", d, 0>>
      PROVE  h.from + h.size <= call'[d].i0 * PageUnits
  <2>1. d = c
    BY Zenon, <1>5 DEF OneGrows
  <2>2. h \in Items \ X
    BY Zenon, <1>2, <1>5, <2>1
  <2>3. QED BY Zenon, <1>1, <2>1, <2>2
<1>6. QED BY Zenon, <1>4, <1>5 DEF ApartInv, Apart

\* It enters the page in the page table, and counts it: only the part about
\* overlaps needs that no other call is in its loop.
LEMMA GrowEnterKeeps ==
  ASSUME IInv, NEW c \in Callers, GrowEnter(c)
  PROVE  KeptIfOne
<1> USE DEF Growth, Loop
<1> DEFINE l == call[c]
           m == call'[c]
           z == "thread"
<1>1. /\ l \in Locals /\ l.pc = "enter" /\ CallOK(l) /\ TypeOK /\ FrameInv /\ BootInv /\ FitInv /\ CoverInv
      /\ l.i0 \in Nat /\ l.j \in Nat /\ z \in Zones /\ NPages \in Nat
  BY Zenon, LocalTypes, Sizes DEF IInv, GrowEnter, At
<1>2. /\ UNCHANGED <<boot, free, tables, pages, zone, stacks, cpuStack, sched, threads>>
      /\ PdEnter(PageOf(l), l.cur)
  BY Zenon DEF GrowEnter
<1>3. /\ call' = [call EXCEPT ![c] = [l EXCEPT !.pc = "grow", !.j = @ + 1, !.cur = Null]]
      /\ [l EXCEPT !.pc = "grow", !.j = @ + 1, !.cur = Null] \in Locals
  <2>1. call' = [call EXCEPT ![c] = [l EXCEPT !.pc = "grow", !.j = @ + 1, !.cur = Null]]
    BY Zenon DEF GrowEnter
  <2>2. l.j + 1 \in Nat
    BY <1>1
  <2>3. [l EXCEPT !.pc = "grow", !.j = l.j + 1, !.cur = Null] \in Locals
    <3> HIDE DEF l
    <3>1. QED BY Zenon, <1>1, <2>2 DEF Locals
  <2>4. QED BY Zenon, <2>1, <2>3
<1>4. /\ call' \in [Callers -> Locals] /\ m = [l EXCEPT !.pc = "grow", !.j = @ + 1, !.cur = Null]
      /\ \A d \in Callers \ {c} : call'[d] = call[d]
  <2> HIDE DEF l
  <2>1. QED BY <1>1, <1>3, Moved, Zenon
<1>5. /\ m.pc = "grow" /\ m.op = l.op /\ m.for = l.for /\ m.n = l.n /\ m.i0 = l.i0 /\ m.j = l.j + 1
      /\ m.buf = l.buf /\ m.st = l.st /\ m.k = l.k
  BY Zenon, <1>1, <1>4 DEF Locals
<1> HIDE DEF l, m
<1>6. BootInv' /\ boot # "vm"
  <2>1. /\ call[c].pc = "enter" /\ call'[c].op = call[c].op /\ call'[c].for = call[c].for
        /\ UNCHANGED <<boot, cpuStack, sched>>
    BY Zenon, <1>1, <1>2, <1>5 DEF l, m
  <2>2. QED BY Zenon, <1>1, <1>4, <2>1, BootSame
<1>7. PICK i0, j, i, x : i0 = l.i0 /\ j = l.j /\ i = PageOf(l) /\ x = l.cur
  BY Zenon
<1>8. /\ i0 \in Nat /\ j \in Nat /\ i = i0 + j /\ i \in 0..(NPages - 1) /\ i0 + j < NPages /\ Mapped(i)
      /\ x \in Nat \ {0} /\ pages[i] # 0 /\ tables # 0
  <2>1. i \in Nat /\ i = i0 + j
    BY <1>1, <1>7 DEF PageOf
  <2>2. i < NPages /\ Mapped(i) /\ x \in Nat \ {0} /\ pages[i] # 0 /\ tables # 0
    BY Zenon, <1>1, <1>7 DEF CallOK, InRound
  <2>3. QED BY <1>1, <1>7, <2>1, <2>2
<1>9. /\ pte' \in [0..(NPages - 1) -> Nat \cup {Null}] /\ pte'[i] = x /\ x # Null
      /\ \A p \in 0..(NPages - 1) \ {i} : pte'[p] = pte[p]
  <2>1. pte' = [pte EXCEPT ![i] = x] /\ pte \in [0..(NPages - 1) -> Nat \cup {Null}]
    BY Zenon, <1>1, <1>2, <1>7, <1>8 DEF PdEnter, TypeOK
  <2>2. QED BY Zenon, <1>8, <2>1, Sizes
<1>10. Mapped(i + 1)
  BY <1>1, <1>8 DEF Mapped
<1>11. TypeOK'
  BY <1>1, <1>2, <1>4, <1>9, Zenon DEF TypeOK
<1>12. /\ call[c].pc = "enter" /\ InRound(call[c]) /\ PageOf(call[c]) = i /\ call[c].cur = x
       /\ call'[c].pc = "grow" /\ ~InRound(call'[c])
  BY Zenon, <1>1, <1>5, <1>7 DEF InRound, l, m
<1>13. FrameInv'
  <2>1. ASSUME NEW p \in 0..(NPages - 1), NEW f \in Nat, Owns(f, p)' PROVE Owns(f, p)
    <3>1. CASE pages'[p] = f \/ pte'[p] = f
      BY Zenon, <1>2, <1>9, <1>12, <3>1 DEF Owns
    <3>2. CASE \E d \in Callers : InRound(call'[d]) /\ PageOf(call'[d]) = p /\ call'[d].cur = f
      BY Zenon, <1>4, <1>12, <3>2 DEF Owns
    <3>3. QED BY Zenon, <2>1, <3>1, <3>2 DEF Owns, InRound, PageOf
  <2>2. ASSUME NEW p \in 0..(NPages - 1)
        PROVE  /\ pte'[p] # 0
               /\ pages'[p] # 0 /\ pte'[p] = Null => \E d \in Callers : InRound(call'[d]) /\ PageOf(call'[d]) = p
    <3>1. CASE p = i
      BY Zenon, <1>8, <1>9, <3>1
    <3>2. CASE p # i
      <4>1. pte'[p] = pte[p] /\ pages'[p] = pages[p]
        BY Zenon, <1>2, <1>9, <3>2
      <4>2. \A d \in Callers : InRound(call[d]) /\ PageOf(call[d]) = p => call'[d] = call[d]
        BY Zenon, <1>4, <1>12, <3>2
      <4>3. QED BY Zenon, <1>1, <4>1, <4>2 DEF FrameInv
    <3>3. QED BY Zenon, <3>1, <3>2
  <2>3. boot' # "vm" /\ boot # "vm" /\ UNCHANGED <<free, tables, pages>>
    BY Zenon, <1>2, <1>6
  <2>4. QED BY Zenon, <1>1, <2>1, <2>2, <2>3 DEF FrameInv, InRound, PageOf
<1>14. \A d \in Callers : CallOK(call[d])'
  <2>1. CallOK(call[c])'
    <3>1. PageOf(m) = i + 1 /\ i + 1 <= NPages
      BY <1>5, <1>7, <1>8, <1>1 DEF PageOf
    <3>2. CallOK(m)
      BY Zenon, <1>1, <1>5, <1>10, <3>1 DEF CallOK, InRound
    <3>3. QED BY Zenon, <1>2, <3>2 DEF CallOK, InRound, Mapped, PageOf, m
  <2>2. \A d \in Callers \ {c} : CallOK(call[d])'
    BY Zenon, <1>2, <1>4, OthersOK
  <2>3. QED BY Zenon, <2>1, <2>2
<1> DEFINE X == HeldChunks(c, l)
           y == ChunkItem(c, m)
           R == FreesBut(z) \cup BufsBut(c) \cup Bufs(z, zone[z].list) \cup ThreadBufs(threads)
                \cup SchedBufs(sched) \cup HeldBufs(c, l)
           O == StacksBut(c) \cup ChunksBut(c) \cup ThreadStacks(threads) \cup Listed(stacks)
                \cup CpuHeld(cpuStack) \cup HeldStacks(c, l)
<1>15. /\ FreesBut(z)' = FreesBut(z) /\ BufsBut(c)' = BufsBut(c)
       /\ StacksBut(c)' = StacksBut(c) /\ ChunksBut(c)' = ChunksBut(c)
  BY Zenon, <1>1, <1>2, <1>4, Elsewhere
<1>16. HeldChunks(c, m) = {y} /\ HeldBufs(c, m) = HeldBufs(c, l) /\ HeldStacks(c, m) = HeldStacks(c, l)
  BY <1>1, <1>5 DEF HeldChunks, HasChunk, HeldBufs, HeldStacks
<1>17. Buffers = R /\ Items = R \cup O \cup X
  <2>1. Buffers = R
    BY Zenon, <1>1, Parts DEF AllBuffers, l
  <2>2. AllOthers(c) = O \cup X
    BY Zenon DEF AllOthers, l
  <2>3. QED BY Zenon, <1>1, <2>1, <2>2, Parts
<1>18. Buffers' = R /\ Items' = R \cup O \cup {y}
  <2>1. Buffers' = R
    BY ZenonT(30), <1>1, <1>2, <1>15, <1>16, PartsAfter DEF m
  <2>2. Items' = Buffers' \cup (StacksBut(c) \cup ChunksBut(c) \cup ThreadStacks(threads)
                   \cup Listed(stacks) \cup CpuHeld(cpuStack) \cup HeldStacks(c, l) \cup {y})
    <3> HIDE DEF R, O, y
    <3>1. QED BY ZenonT(30), <1>1, <1>2, <1>15, <1>16, PartsAfter DEF m
  <2>3. QED BY Zenon, <2>1, <2>2
<1>19. \A h \in R \cup O : h.who # <<"chunk", c, 0>>
  <2>1. ASSUME NEW h, h.who = <<"chunk", c, 0>> PROVE h \notin R /\ h \notin O
    <3>1. h.who[1] = "chunk" /\ h.who[2] = c
      BY <2>1
    <3>2. /\ h \notin FreesBut(z) /\ h \notin BufsBut(c) /\ h \notin ThreadBufs(threads)
          /\ h \notin SchedBufs(sched) /\ h \notin Bufs(z, zone[z].list) /\ h \notin HeldBufs(c, l)
      BY Zenon, <1>1, <3>1, Tags DEF l
    <3>3. /\ h \notin StacksBut(c) /\ h \notin ChunksBut(c) /\ h \notin ThreadStacks(threads)
          /\ h \notin Listed(stacks) /\ h \notin CpuHeld(cpuStack) /\ h \notin HeldStacks(c, l)
      BY Zenon, <1>1, <3>1, Tags DEF l
    <3>4. QED BY Zenon, <3>2, <3>3
  <2> HIDE DEF R, O
  <2>2. QED BY Zenon, <2>1
<1>20. /\ \A x1 \in X : x1.who = <<"chunk", c, 0>> /\ x1.from = i0 * PageUnits /\ x1.size = j * PageUnits
       /\ y.who = <<"chunk", c, 0>> /\ y.from = i0 * PageUnits /\ y.size = (j + 1) * PageUnits
  BY <1>5, <1>7 DEF HeldChunks, ChunkItem
<1>21. j > 0 => X # {}
  BY Zenon, <1>1, <1>7 DEF HeldChunks, HasChunk
<1> HIDE DEF X, y, R, O
<1>22. Grows(c, i0, j, X, y)
  <2>1. Items \ X = (R \cup O) \ X /\ Items' = (Items \ X) \cup {y} /\ X \subseteq Items
    BY Zenon, <1>17, <1>18, <1>19, <1>20
  <2>2. QED BY Zenon, <1>17, <1>18, <1>19, <1>20, <1>21, <2>1 DEF Grows
<1>23. FitInv' /\ CoverInv'
  <2>1. /\ i0 + j = i /\ Mapped(i0 + j + 1) /\ pages' = pages /\ pte'[i0 + j] # Null
        /\ \A p \in 0..(NPages - 1) \ {i0 + j} : pte'[p] = pte[p]
    BY Zenon, <1>2, <1>8, <1>9, <1>10
  <2>2. QED BY <1>1, <1>8, <1>22, <2>1, GrowsFit, Zenon
<1>24. IInv'
  BY Zenon, <1>6, <1>11, <1>13, <1>14, <1>23 DEF IInv
<1>25. ASSUME ApartInv, OneGrows PROVE ApartInv'
  <2>1. call[c].pc \in Loop /\ call[c].i0 = i0 /\ call'[c].i0 = i0
    BY Zenon, <1>1, <1>5, <1>7 DEF l, m
  <2>2. QED BY Zenon, <1>1, <1>4, <1>8, <1>22, <1>25, <2>1, GrowsApart
<1>26. ASSUME SyncInv PROVE SyncInv'
  <2>1. ASSUME NEW p \in 0..(NPages - 1), pages'[p] # 0
        PROVE  pte'[p] = pages'[p] \/ \E d \in Callers : call'[d].pc = "enter" /\ PageOf(call'[d]) = p
    <3>1. CASE p = i
      BY Zenon, <1>2, <1>9, <1>12, <1>26, <3>1 DEF SyncInv
    <3>2. CASE p # i
      <4>1. pte'[p] = pte[p] /\ pages'[p] = pages[p]
        BY Zenon, <1>2, <1>9, <3>2
      <4>2. \A d \in Callers : PageOf(call[d]) = p => call'[d] = call[d]
        BY Zenon, <1>4, <1>12, <3>2
      <4>3. QED BY Zenon, <1>26, <2>1, <4>1, <4>2 DEF SyncInv
    <3>3. QED BY Zenon, <3>1, <3>2
  <2>2. \A d \in Callers : call'[d].pc = "enter" => pages'[PageOf(call'[d])] = call'[d].cur
    BY Zenon, <1>2, <1>4, <1>12, <1>26 DEF SyncInv
  <2>3. QED BY Zenon, <2>1, <2>2 DEF SyncInv, PageOf
<1>27. QED BY Zenon, <1>24, <1>25, <1>26 DEF KeptIfOne

\* The loop ends, and the chunk is what it is from then on.
LEMMA GrowEndKeeps ==
  ASSUME IInv, NEW c \in Callers, GrowEnd(c)
  PROVE  Kept
<1> USE DEF Growth, Loop, InRound
<1> DEFINE l == call[c]
           m == call'[c]
<1>1. l.pc = "grow" /\ CallOK(l) /\ TypeOK
  BY Zenon DEF IInv, GrowEnd, At
<1>2. /\ call' \in [Callers -> Locals] /\ \A d \in Callers \ {c} : call'[d] = call[d]
      /\ m.pc = "grown" /\ m.op = l.op /\ m.for = l.for /\ m.i0 = l.i0 /\ m.j = l.j
      /\ m.buf = l.buf /\ m.st = l.st /\ m.k = l.k
  BY <1>1, GotoIs, Zenon DEF GrowEnd
<1>3. TypeOK'
  BY Zenon, <1>1, <1>2 DEF GrowEnd, TypeOK
<1>4. BootInv' /\ boot # "vm"
  BY Zenon, <1>1, <1>2, BootSame DEF IInv, GrowEnd
<1> HIDE DEF l, m
<1>5. CallOK(m)
  BY Zenon, <1>1, <1>2 DEF CallOK, PageOf
<1>6. CallOK(call[c])'
  BY Zenon, <1>5 DEF CallOK, Mapped, GrowEnd, m
<1>7. HeldChunks(c, m) = HeldChunks(c, l)
  BY Zenon, <1>1, <1>2 DEF HeldChunks, HasChunk, ChunkItem
<1>8. /\ ~InRound(call[c]) /\ ~InRound(call'[c]) /\ call[c].pc \in Loop
      /\ UNCHANGED <<boot, free, tables, pages, pte, zone, stacks, cpuStack, sched, threads>>
  BY Zenon, <1>1, <1>2 DEF GrowEnd, l, m
<1>9. QED BY Zenon, <1>2, <1>3, <1>4, <1>6, <1>7, <1>8, Quiet DEF l, m

-----------------------------------------------------------------------------
\* Nothing is held when main() starts.
LEMMA InitHolds == Init => IInv /\ ApartInv /\ SyncInv
<1> SUFFICES ASSUME Init PROVE IInv /\ ApartInv /\ SyncInv
  BY Zenon
<1> DEFINE z == "thread"
           c == BootCaller
<1>1. PICK n \in Nat : free = 0..(n - 1)
  BY Sizes, Zenon DEF Init
<1>2. /\ boot = "vm" /\ tables = 0 /\ pages = [i \in 0..(NPages - 1) |-> 0]
      /\ pte = [i \in 0..(NPages - 1) |-> Null]
      /\ zone = [y \in Zones |-> [list |-> << >>, count |-> 0, lock |-> Null]]
      /\ stacks = << >> /\ cpuStack = Null /\ sched = Null /\ threads = {}
      /\ call = [d \in Callers |-> Idle]
  BY Zenon DEF Init
<1>3. Idle \in Locals /\ Idle.pc = "idle" /\ Idle.op = Null /\ Idle.buf = Null /\ \A k \in 1..2 : Idle.st[k] = Null
  BY Sizes DEF Idle, Locals
<1>4. NPages \in Nat \ {0} /\ c \in Callers /\ z \in Zones
  BY Zenon, Sizes
<1>5. TypeOK
  <2>1. zone \in [Zones -> [list : Seq(Nat), count : Int, lock : Callers \cup {Null}]]
    BY <1>2
  <2>2. stacks \in Seq(Stacks)
    BY <1>2
  <2>3. call \in [Callers -> Locals]
    BY Zenon, <1>2, <1>3
  <2>4. pages \in [0..(NPages - 1) -> Nat] /\ pte \in [0..(NPages - 1) -> Nat \cup {Null}] /\ tables \in Nat
    BY Zenon, <1>2
  <2>5. QED BY Zenon, <1>2, <2>1, <2>2, <2>3, <2>4 DEF TypeOK
<1>6. \A p \in 0..(NPages - 1) : pages[p] = 0 /\ pte[p] = Null /\ Null # 0
  <2>1. Null # 0
    BY Sizes
  <2>2. QED BY Zenon, <1>2, <2>1
<1>8. \A d \in Callers : call[d] = Idle
  BY Zenon, <1>2
<1>7. FrameInv
  <2>1. Unset = 0..(NPages - 1)
    BY Zenon, <1>6 DEF Unset
  <2>2. \E f \in 0..NPages : \A p \in 0..(NPages - 1) : pages[p] # 0 <=> p < f
    <3>1. 0 \in 0..NPages /\ \A p \in 0..(NPages - 1) : pages[p] # 0 <=> p < 0
      BY <1>4, <1>6
    <3>2. QED BY Zenon, <3>1
  <2>3. \A p \in 0..(NPages - 1), f \in Nat \ {0} : ~Owns(f, p)
    BY Zenon, <1>3, <1>6, <1>8, Sizes DEF Owns, InRound
  <2>4. QED BY Zenon, <1>1, <1>2, <1>6, <2>1, <2>2, <2>3 DEF FrameInv
<1>9. BootInv
  <2>1. Idle.op # "sched"
    BY Zenon, <1>3, Sizes
  <2>2. QED BY Zenon, <1>2, <1>3, <1>4, <1>8, <2>1 DEF BootInv, Growth, Loop
<1>10. \A d \in Callers : CallOK(call[d])
  <2>1. CallOK(Idle)
    BY Zenon, <1>3 DEF CallOK, Growth, Loop, InRound
  <2>2. QED BY Zenon, <1>8, <2>1
<1>11. Items = {}
  <2>1. \A y \in Zones : Bufs(y, zone[y].list) = {}
    <3>1. \A y \in Zones : zone[y].list = << >>
      BY Zenon, <1>2
    <3>2. Len(<< >>) = 0
      BY Zenon
    <3>3. \A y \in Zones : 1..Len(zone[y].list) = {}
      BY <3>1, <3>2
    <3>4. QED BY Zenon, <3>3 DEF Bufs
  <2>2. \A d \in Callers : HeldBufs(d, call[d]) = {} /\ HeldStacks(d, call[d]) = {} /\ HeldChunks(d, call[d]) = {}
    BY <1>3, <1>8, Zenon DEF HeldBufs, HeldStacks, HeldChunks, HasChunk, Loop
  <2>3. FreesBut(z) = {} /\ BufsBut(c) = {} /\ StacksBut(c) = {} /\ ChunksBut(c) = {}
    BY Zenon, <2>1, <2>2 DEF FreesBut, BufsBut, StacksBut, ChunksBut
  <2>4. Listed(stacks) = {}
    <3>1. 1..Len(stacks) = {}
      BY <1>2
    <3>2. QED BY <3>1, Zenon DEF Listed
  <2>5. ThreadBufs(threads) = {} /\ ThreadStacks(threads) = {} /\ SchedBufs(sched) = {} /\ CpuHeld(cpuStack) = {}
    BY Zenon, <1>2 DEF ThreadBufs, ThreadStacks, SchedBufs, CpuHeld
  <2>6. AllBuffers(c, z) = {} /\ AllOthers(c) = {}
    BY Zenon, <1>4, <2>1, <2>2, <2>3, <2>4, <2>5 DEF AllBuffers, AllOthers
  <2>7. QED BY Zenon, <1>4, <2>6, ItemParts
<1>12. FitInv /\ CoverInv
  BY Zenon, <1>6, <1>11 DEF FitInv, CoverInv
<1>13. ApartInv /\ SyncInv
  BY Zenon, <1>3, <1>6, <1>8, <1>11 DEF ApartInv, SyncInv
<1>14. QED BY Zenon, <1>5, <1>7, <1>9, <1>10, <1>12, <1>13 DEF IInv

\* Once main() has made the scheduler, it stays made.
LEMMA UpForGood ==
  ASSUME IInv, Next, boot' # "up"
  PROVE  boot \notin {"up", "panic"}
<1>1. boot = "up" => \A c \in Callers : call[c].op # "sched"
  BY Zenon DEF IInv, BootInv
<1>2. CASE VmInit
  BY Zenon, <1>2 DEF VmInit
<1>3. ASSUME NEW c \in Callers, ThreadAllocate(c) \/ Step(c) PROVE boot \notin {"up", "panic"}
  <2>1. CASE ThreadAllocate(c)
    BY Zenon, <2>1 DEF ThreadAllocate
  <2>2. CASE GrowScan(c) \/ GrowTake(c) \/ GrowSet(c) \/ GrowEnter(c) \/ GrowEnd(c)
    BY Zenon, <2>2 DEF GrowScan, GrowTake, GrowSet, GrowEnter, GrowEnd, At
  <2>3. CASE Zalloc(c) \/ Zrefilled(c)
    BY Zenon, <2>3 DEF Zalloc, Zrefilled, At
  <2>4. CASE RemoveTop(c)
    <3>1. boot # "panic"
      BY Zenon, <2>4 DEF RemoveTop, At
    <3>2. boot = "up" => boot' = "up"
      BY Zenon, <1>1, <2>4 DEF RemoveTop, AfterTake
    <3>3. QED BY Zenon, <3>1, <3>2
  <2>5. CASE CpuStack(c)
    <3>1. boot = "cpu"
      <4>1. call[c].pc \in Growth /\ call[c].for = "cpu"
        BY Zenon, <2>5 DEF CpuStack, At, Growth
      <4>2. QED BY Zenon, <4>1 DEF IInv, BootInv
    <3>2. QED BY Zenon, <3>1
  <2>6. CASE StackAllocate(c) \/ StackNew(c)
    BY Zenon, <2>6 DEF StackAllocate, StackNew, At
  <2>7. CASE Built(c)
    BY Zenon, <2>7 DEF Built, At
  <2>8. CASE Release(c)
    BY Zenon, <2>8 DEF Release, At
  <2>9. CASE Zfree(c)
    BY Zenon, <2>9 DEF Zfree, At
  <2>10. QED BY Zenon, <1>3, <2>1, <2>2, <2>3, <2>4, <2>5, <2>6, <2>7, <2>8, <2>9 DEF Step
<1>4. QED BY Zenon, <1>2, <1>3 DEF Next

\* The pages of memory that ends below page m are below page m, and the memory
\* reaches into each of them.
LEMMA PagesOfHolder ==
  ASSUME NEW a \in Nat, NEW s \in Nat \ {0}, NEW m \in 0..NPages, a + s <= m * PageUnits,
         NEW p \in (a \div PageUnits)..((a + s - 1) \div PageUnits)
  PROVE  /\ p \in 0..(NPages - 1) /\ p < m
         /\ p * PageUnits < a + s /\ a < (p + 1) * PageUnits
<1> DEFINE e == a + s - 1
           u == PageUnits
           mu == m * u
<1>1. u \in Nat \ {0} /\ NPages \in Nat /\ m \in Nat /\ mu \in Nat
  BY Sizes, Multiples
<1>2. e \in Nat /\ e < mu /\ a < mu /\ e < a + s
  <2>1. a + s <= mu
    BY Zenon
  <2> HIDE DEF mu
  <2>2. QED BY <1>1, <2>1
<1> HIDE DEF e, u
<1>3. e \div u \in Nat /\ e \div u < m /\ a \div u \in Nat
  BY Zenon, <1>1, <1>2, PageBelow
<1> DEFINE x == a \div u
           y == e \div u
<1>4. p \in x..y
  BY Zenon DEF e, u
<1>5. x \in Nat /\ y \in Nat /\ y < m
  BY Zenon, <1>3
<1>6. y * u <= e /\ a < x * u + u
  BY Zenon, <1>1, <1>2, FitsIn
<1> HIDE DEF x, y, mu
<1>7. p \in 0..(NPages - 1) /\ p < m /\ p \in Nat /\ x <= p /\ p <= y
  BY <1>1, <1>4, <1>5
<1>8. p * u <= y * u /\ x * u <= p * u /\ (p + 1) * u = p * u + u
  BY Zenon, <1>1, <1>5, <1>7, Multiples
<1> DEFINE pu == p * u
           xu == x * u
           yu == y * u
<1>9. pu \in Nat /\ xu \in Nat /\ yu \in Nat
  BY Zenon, <1>1, <1>5, <1>7, Multiples
<1>10. pu <= yu /\ xu <= pu /\ yu <= e /\ a < xu + u
  BY Zenon, <1>6, <1>8
<1> HIDE DEF pu, xu, yu
<1>11. pu < a + s /\ a < pu + u
  BY <1>1, <1>2, <1>9, <1>10
<1>12. p * u < a + s /\ a < (p + 1) * u
  BY Zenon, <1>8, <1>11 DEF pu
<1>13. QED BY Zenon, <1>7, <1>12 DEF u

\* The library's facts about finite sets.
FST == INSTANCE FiniteSetTheorems

\* The number of free frames.
LEMMA CardinalityOfInterval == ASSUME NEW n \in Nat PROVE Cardinality(0..(n - 1)) = n
<1>1. Cardinality(0..(n - 1)) = FST!Cardinality(0..(n - 1))
  BY Zenon DEF Cardinality, FST!Cardinality, IsFiniteSet, FST!IsFiniteSet
<1>2. FST!Cardinality(0..(n - 1)) = n
  BY FST!FS_Interval
<1>3. QED BY Zenon, <1>1, <1>2

\* pmap_init takes the lowest frames for the page tables, frame 0 among them.
LEMMA PmapInitTakes ==
  ASSUME NEW n \in Nat, free = 0..(n - 1), PmapInit
  PROVE  /\ tables' \in Nat /\ free' = tables'..(n - 1)
         /\ n # 0 => tables' # 0
         /\ n = 0 => free' = 1..0
<1> DEFINE t == Min({NTables, n})
<1>1. Cardinality(free) = n
  BY Zenon, CardinalityOfInterval
<1>2. t \in Nat /\ (n # 0 => t # 0) /\ (n = 0 => t = 0)
  <2>1. NTables \in Nat \ {0}
    BY Zenon, Sizes
  <2>2. PICK x \in {NTables, n} : \A y \in {NTables, n} : x <= y
    BY <2>1
  <2>3. t \in {NTables, n} /\ \A y \in {NTables, n} : t <= y
    BY Zenon, <2>2 DEF Min
  <2> HIDE DEF t
  <2>4. QED BY <2>1, <2>3
<1>3. tables' = t /\ free' = {f \in free : Cardinality({g \in free : g < f}) >= t}
  BY <1>1, Zenon DEF PmapInit
<1> HIDE DEF t
<1>4. ASSUME NEW f \in free PROVE Cardinality({g \in free : g < f}) = f
  <2>1. {g \in free : g < f} = 0..(f - 1)
    OBVIOUS
  <2>2. f \in Nat
    OBVIOUS
  <2>3. QED BY <2>1, <2>2, CardinalityOfInterval, Zenon
<1>5. free' = {f \in free : f >= t}
  BY Zenon, <1>3, <1>4
<1>6. QED BY <1>2, <1>3, <1>5

\* vm_init: the page tables are made, and no page is filled yet.
LEMMA VmInitKeeps ==
  ASSUME IInv, VmInit
  PROVE  Kept
<1> USE DEF Growth, Loop
<1> DEFINE c == BootCaller
           l == call[c]
           m == call'[c]
<1>1. l = Idle /\ TypeOK /\ boot = "vm" /\ BootInv /\ c \in Callers /\ FrameInv /\ l.pc = "idle" /\ FitInv /\ CoverInv
  BY Zenon, Sizes DEF IInv, VmInit, At, CallOK, BootInv
<1>2. /\ call' \in [Callers -> Locals] /\ \A d \in Callers \ {c} : call'[d] = call[d]
      /\ m.pc = "scan" /\ m.op = l.op /\ m.buf = l.buf /\ m.st = l.st /\ m.k = l.k /\ m.for = "cpu"
  <2>1. CallKalloc(c, "cpu", StackPages) /\ StackPages \in Nat
    BY Zenon, Sizes DEF VmInit
  <2>2. QED BY Zenon, <1>1, <2>1, KallocIs
<1>3. UNCHANGED <<pages, pte, zone, stacks, cpuStack, sched, threads>> /\ boot' = "cpu"
  BY Zenon DEF VmInit
<1>4. PICK n \in Nat : free = 0..(n - 1)
  BY Zenon, <1>1 DEF FrameInv
<1>5. /\ tables' \in Nat /\ free' = tables'..(n - 1) /\ (n # 0 => tables' # 0) /\ (n = 0 => free' = 1..0)
  BY Zenon, <1>4, PmapInitTakes DEF VmInit
<1>6. TypeOK'
  BY Zenon, <1>1, <1>2, <1>3, <1>5 DEF TypeOK
<1>7. BootInv'
  <2>1. Idle.op = Null /\ Null # "sched"
    BY Zenon, IdleTypes, <1>1, LocalTypes DEF BootInv
  <2>2. QED BY <1>1, <1>2, <1>3, <2>1 DEF BootInv
<1>19. /\ \A p \in 0..(NPages - 1) : pages'[p] = 0 /\ pte'[p] = Null /\ Null \notin Nat /\ Null # 0
       /\ \A d \in Callers : call'[d].pc \in {"idle", "scan"} /\ ~InRound(call'[d])
  <2>1. ASSUME NEW d \in Callers PROVE call'[d].pc \in {"idle", "scan"}
    <3>1. CASE d = c
      BY Zenon, <1>2, <3>1
    <3>2. CASE d # c
      <4>1. call[d].pc = "idle" /\ call'[d] = call[d]
        BY Zenon, <1>1, <1>2, <3>2 DEF BootInv
      <4>2. QED BY Zenon, <4>1
    <3>3. QED BY Zenon, <3>1, <3>2
  <2>2. Null # 0
    BY Sizes
  <2>3. \A p \in 0..(NPages - 1) : pages[p] = 0 /\ pte[p] = Null
    BY Zenon, <1>1 DEF FrameInv, Unset
  <2>4. QED BY Zenon, <1>3, <2>1, <2>2, <2>3, Sizes DEF InRound
<1>8. \E a \in Nat \ {0}, b \in Int :
        /\ free' = a..b
        /\ free' # {} => tables' # 0
        /\ \A p \in 0..(NPages - 1), f \in Nat : Owns(f, p)' => f < a
  <2>1. \A p \in 0..(NPages - 1), f \in Nat : Owns(f, p)' => f = 0
    BY Zenon, <1>19 DEF Owns, InRound
  <2>2. CASE n = 0
    <3>1. free' = 1..0 /\ free' = {}
      BY <1>5, <2>2
    <3>2. 1 \in Nat \ {0} /\ 0 \in Int /\ 0 < 1
      OBVIOUS
    <3>3. QED BY Zenon, <2>1, <3>1, <3>2
  <2>3. CASE n # 0
    <3>1. free' = tables'..(n - 1) /\ tables' \in Nat \ {0} /\ n - 1 \in Int
      BY <1>5, <2>3
    <3>2. \A p \in 0..(NPages - 1), f \in Nat : Owns(f, p)' => f < tables'
      BY <2>1, <3>1
    <3>3. QED BY Zenon, <3>1, <3>2
  <2>4. QED BY Zenon, <2>2, <2>3
<1>9. FrameInv'
  <2>1. \A p \in 0..(NPages - 1), f \in Nat \ {0} : ~Owns(f, p)'
    <3>1. \A p \in 0..(NPages - 1), f \in Nat : Owns(f, p)' => f = 0
      BY Zenon, <1>19 DEF Owns, InRound
    <3>2. QED BY Zenon, <3>1
  <2>2. \A p \in 0..(NPages - 1) : pte'[p] # 0 /\ pages'[p] = 0
    BY Zenon, <1>19
  <2>3. boot' # "vm" /\ pages' = pages
    BY Zenon, <1>3
  <2>4. QED BY Zenon, <1>1, <1>8, <2>1, <2>2, <2>3 DEF FrameInv
<1>10. m.buf = Null /\ m.st = NoStacks /\ m.k = 1
  BY Zenon, <1>1, <1>2, IdleTypes
<1> HIDE DEF l, m, c
<1>11. CallOK(m)
  <2>1. Null # "cpu"
    BY Zenon, Sizes
  <2>2. QED BY Zenon, <1>2, <1>10, <2>1 DEF CallOK, InRound
<1>12. CallOK(call[c])'
  BY Zenon, <1>2, <1>3, <1>11 DEF CallOK, Mapped, InRound, m
<1>13. \A d \in Callers : CallOK(call[d])'
  <2>1. ASSUME NEW d \in Callers, d # c PROVE CallOK(call[d])'
    <3>1. call'[d] = call[d] /\ CallOK(call[d]) /\ call'[d].pc = "idle"
      BY Zenon, <1>1, <1>2, <2>1 DEF IInv, BootInv, c
    <3>2. QED BY Zenon, <3>1 DEF CallOK, InRound
  <2>2. QED BY Zenon, <1>12, <2>1
<1>14. HeldChunks(c, m) = HeldChunks(c, l)
  BY Zenon, <1>1, <1>2 DEF HeldChunks, HasChunk
<1>15. Stays
  BY Zenon, <1>1, <1>2, <1>3, <1>14, StaysIf DEF l, m
<1>16. FitInv' /\ CoverInv'
  BY Zenon, <1>1, <1>3, <1>15, StaysKeeps
<1>17. \A d \in Callers : call'[d].pc \in Loop => call[d].pc \in Loop /\ call'[d].i0 = call[d].i0
  BY Zenon, <1>19
<1>20. SyncInv'
  BY Zenon, <1>19 DEF SyncInv
<1>18. QED BY Zenon, <1>6, <1>7, <1>9, <1>13, <1>15, <1>16, <1>17, <1>20, StaysApart DEF IInv, Kept

\* Every step keeps the invariant.
LEMMA NextKeeps ==
  ASSUME IInv, [Next]_vars
  PROVE  KeptIfOne
<1>0. Kept => KeptIfOne
  BY Zenon DEF Kept, KeptIfOne
<1>1. CASE VmInit
  BY Zenon, <1>0, <1>1, VmInitKeeps
<1>2. ASSUME NEW c \in Callers, ThreadAllocate(c) \/ Step(c)
      PROVE  KeptIfOne
  <2>1. CASE ThreadAllocate(c)
    BY Zenon, <1>0, <2>1, ThreadAllocateKeeps
  <2>2. CASE GrowScan(c)
    BY Zenon, <1>0, <2>2, GrowScanKeeps
  <2>3. CASE GrowTake(c)
    BY Zenon, <1>0, <2>3, GrowTakeKeeps
  <2>15. CASE GrowSet(c)
    BY Zenon, <2>15, GrowSetKeeps
  <2>16. CASE GrowEnter(c)
    BY Zenon, <2>16, GrowEnterKeeps
  <2>4. CASE GrowEnd(c)
    BY Zenon, <1>0, <2>4, GrowEndKeeps
  <2>5. CASE Zalloc(c)
    BY Zenon, <1>0, <2>5, ZallocKeeps
  <2>6. CASE Zrefilled(c)
    BY Zenon, <1>0, <2>6, ZrefilledKeeps
  <2>7. CASE RemoveTop(c)
    BY Zenon, <1>0, <2>7, RemoveTopKeeps
  <2>8. CASE CpuStack(c)
    BY Zenon, <1>0, <2>8, CpuStackKeeps
  <2>9. CASE StackAllocate(c)
    BY Zenon, <1>0, <2>9, StackAllocateKeeps
  <2>10. CASE StackNew(c)
    BY Zenon, <1>0, <2>10, StackNewKeeps
  <2>11. CASE Built(c)
    BY Zenon, <1>0, <2>11, BuiltKeeps
  <2>12. CASE Release(c)
    BY Zenon, <1>0, <2>12, ReleaseKeeps
  <2>13. CASE Zfree(c)
    BY Zenon, <1>0, <2>13, ZfreeKeeps
  <2>14. QED BY Zenon, <1>2, <2>1, <2>2, <2>3, <2>4, <2>5, <2>6, <2>7, <2>8, <2>9, <2>10, <2>11,
                <2>12, <2>13, <2>15, <2>16 DEF Step
<1>3. CASE UNCHANGED vars
  <2>1. UNCHANGED <<boot, free, tables, pages, pte, zone, stacks, cpuStack, sched, threads, call>>
    BY Zenon, <1>3 DEF vars
  <2>2. Stays
    BY Zenon, <2>1, StaysIf, Sizes
  <2>3. FitInv' /\ CoverInv' /\ (ApartInv => ApartInv')
    BY Zenon, <2>1, <2>2, StaysKeeps, StaysApart DEF IInv
  <2>4. TypeOK' /\ FrameInv' /\ BootInv' /\ \A c \in Callers : CallOK(call[c])'
    <3>1. TypeOK'
      BY Zenon, <2>1 DEF IInv, TypeOK
    <3>2. FrameInv'
      <4>1. \A f, p : Owns(f, p)' => Owns(f, p)
        BY Zenon, <2>1 DEF Owns, InRound, PageOf
      <4>2. QED BY Zenon, <2>1, <4>1 DEF IInv, FrameInv, Unset, InRound, PageOf
    <3>3. BootInv'
      BY Zenon, <2>1 DEF IInv, BootInv
    <3>4. ASSUME NEW c \in Callers PROVE CallOK(call[c])'
      BY <2>1 DEF IInv, CallOK, Mapped, InRound, PageOf
    <3>5. QED BY Zenon, <3>1, <3>2, <3>3, <3>4
  <2>5. SyncInv => SyncInv'
    BY Zenon, <2>1 DEF SyncInv, PageOf
  <2>6. QED BY Zenon, <2>3, <2>4, <2>5 DEF IInv, KeptIfOne
<1>4. QED BY Zenon, <1>1, <1>2, <1>3 DEF Next

-----------------------------------------------------------------------------
\* The inductive invariant holds throughout, whatever the callers do.
THEOREM Invariance == Spec => []IInv
<1>1. Init => IInv
  BY Zenon, InitHolds
<1>2. IInv /\ [Next]_vars => IInv'
  BY Zenon, NextKeeps DEF KeptIfOne
<1>3. QED BY <1>1, <1>2, PTL DEF Spec

\* Where a holder has memory.
LEMMA HolderPages ==
  ASSUME IInv, NEW h \in Holders, NEW p \in PagesOf(h)
  PROVE  /\ p \in 0..(NPages - 1) /\ pages[p] # 0 /\ pte[p] # Null
         /\ p * PageUnits < h.from + h.size /\ h.from \in Nat /\ h.size \in Nat
<1>1. Fits(h)
  BY Zenon DEF IInv, FitInv, Items
<1>2. PICK m \in 0..NPages : Mapped(m) /\ h.from + h.size <= m * PageUnits
  BY Zenon, <1>1 DEF Fits
<1>3. PICK a, s : a = h.from /\ s = h.size
  BY Zenon
<1>4. a \in Nat /\ s \in Nat \ {0} /\ a + s <= m * PageUnits
  BY Zenon, <1>1, <1>2, <1>3 DEF Fits
<1>5. p \in (a \div PageUnits)..((a + s - 1) \div PageUnits)
  BY Zenon, <1>3 DEF PagesOf
<1>6. p \in 0..(NPages - 1) /\ p < m /\ p * PageUnits < a + s /\ a < (p + 1) * PageUnits
  BY Zenon, <1>4, <1>5, PagesOfHolder
<1>7. pages[p] # 0
  BY Zenon, <1>2, <1>6 DEF Mapped
<1>8. pte[p] # Null
  BY Zenon, <1>1, <1>3, <1>6 DEF Fits
<1>9. QED BY Zenon, <1>3, <1>4, <1>6, <1>7, <1>8

\* What grow_critical, the zones and the stacks hand out is mapped memory, for
\* any number of callers and however their calls of grow_critical interleave:
\* each page has a frame in the page table that no other page has and that
\* vm_phys_alloc will not give out again.
THEOREM HeldMemoryAlwaysMapped == Spec => []HeldMemoryMapped
<1>1. IInv => HeldMemoryMapped
  <2> SUFFICES ASSUME IInv, NEW h \in Holders, NEW p \in PagesOf(h)
               PROVE  /\ p \in 0..(NPages - 1) /\ pages[p] # 0
                      /\ pte[p] # Null /\ pte[p] \notin free
                      /\ \A q \in 0..(NPages - 1) : pte[q] = pte[p] => q = p
    BY Zenon DEF HeldMemoryMapped
  <2>1. p \in 0..(NPages - 1) /\ pages[p] # 0 /\ pte[p] # Null
    BY Zenon, HolderPages
  <2>2. PICK f : f = pte[p]
    BY Zenon
  <2>3. f \in Nat \ {0} /\ boot # "vm" /\ Owns(f, p)
    BY Zenon, <2>1, <2>2 DEF IInv, TypeOK, FrameInv, Owns
  <2>4. f \notin free
    <3>1. PICK a \in Nat \ {0}, b \in Int :
             free = a..b /\ \A q \in 0..(NPages - 1), g \in Nat : Owns(g, q) => g < a
      BY Zenon, <2>3 DEF IInv, FrameInv
    <3>2. f < a /\ f \in Nat
      BY Zenon, <2>1, <2>3, <3>1
    <3>3. QED BY <3>1, <3>2
  <2>5. ASSUME NEW q \in 0..(NPages - 1), pte[q] = f PROVE q = p
    <3>1. Owns(f, q)
      BY Zenon, <2>5 DEF Owns
    <3>2. QED BY Zenon, <2>1, <2>3, <3>1 DEF IInv, FrameInv
  <2>6. QED BY Zenon, <2>1, <2>2, <2>4, <2>5
<1>2. QED BY <1>1, Invariance, PTL

\* No unit of kernel memory is lost, for any number of callers: between the
\* calls each is held, but for the rest behind the last buffer of _zcram.
THEOREM NothingEverLost == Spec => []NothingLost
<1>1. IInv => NothingLost
  <2> SUFFICES ASSUME IInv, \A c \in Callers : call[c].pc = "idle",
                      NEW p \in 0..(NPages - 1), pages[p] # 0,
                      NEW u \in (p * PageUnits)..((p + 1) * PageUnits - 1)
               PROVE  \/ \E h \in Holders : h.from <= u /\ u < h.from + h.size
                      \/ \E h \in Buffers : h.from <= u /\ (p + 1) * PageUnits < h.from + 2 * h.size
    BY Zenon DEF NothingLost
  <2>1. Pending = {}
    BY Zenon DEF Pending, Loop
  <2>2. pte[p] # Null
    BY Zenon DEF IInv, FrameInv, InRound
  <2>3. (\E h \in Items : Covers(h, u)) \/ (\E h \in Buffers : Rest(h, p, u))
    BY Zenon, <2>2 DEF IInv, CoverInv
  <2>4. QED BY Zenon, <2>1, <2>3 DEF Items, Covers, Rest
<1>2. QED BY <1>1, Invariance, PTL

\* What holds memory is not a chunk that grows.
LEMMA HolderNames == ASSUME NEW h \in Holders, NEW c \in Callers PROVE h.who # <<"chunk", c, 0>>
<1>1. h.who[1] # "chunk"
  <2>1. CASE h \in Buffers
    BY <2>1 DEF Buffers, FreeBuffers, ThreadBuffers, CallBuffers, SchedBuffers
  <2>2. CASE h \in ListedStacks \cup StacksOfThreads \cup StacksOfCalls \cup CpuHolders
    BY <2>2 DEF ListedStacks, StacksOfThreads, StacksOfCalls, CpuHolders, StackHolder
  <2>3. QED BY Zenon, <2>1, <2>2 DEF Holders
<1>2. QED BY <1>1

\* Chunks that grow behind all that is held are apart from it, and so are the
\* pages on which the page table and ds_pages differ.
LEMMA SoundThen == ASSUME IInv, ApartInv, SyncInv PROVE ChunksDisjoint /\ TableAgrees
<1>1. ChunksDisjoint
  BY Zenon DEF ApartInv, Apart, ChunksDisjoint, Items
<1>2. TableAgrees
  <2> SUFFICES ASSUME NEW h \in Holders, NEW p \in PagesOf(h), pte[p] # pages[p]
               PROVE  FALSE
    BY Zenon DEF TableAgrees
  <2>1. /\ p \in 0..(NPages - 1) /\ pages[p] # 0 /\ p * PageUnits < h.from + h.size
        /\ h.from \in Nat /\ h.size \in Nat
    BY Zenon, HolderPages
  <2>2. PICK c \in Callers : call[c].pc = "enter" /\ PageOf(call[c]) = p
    BY Zenon, <2>1 DEF SyncInv
  <2>3. h.from + h.size <= call[c].i0 * PageUnits
    BY Zenon, <2>2, HolderNames DEF ApartInv, Items, Loop
  <2>4. PICK i0, j : i0 = call[c].i0 /\ j = call[c].j
    BY Zenon
  <2>5. i0 \in Nat /\ j \in Nat /\ p = i0 + j /\ PageUnits \in Nat /\ p \in Nat /\ i0 <= p
    <3>1. i0 \in Nat /\ j \in Nat /\ p = i0 + j /\ PageUnits \in Nat
      BY Zenon, <2>2, <2>4, LocalTypes, Sizes DEF IInv, PageOf
    <3>2. QED BY <3>1
  <2>6. i0 * PageUnits <= p * PageUnits /\ i0 * PageUnits \in Nat /\ p * PageUnits \in Nat
    BY Zenon, <2>5, Multiples
  <2> DEFINE x == i0 * PageUnits
             y == p * PageUnits
             e == h.from + h.size
  <2>7. x \in Nat /\ y \in Nat /\ e \in Nat /\ x <= y /\ y < e /\ e <= x
    BY <2>1, <2>3, <2>4, <2>6
  <2> HIDE DEF x, y, e
  <2>8. QED BY <2>7
<1>3. QED BY Zenon, <1>1, <1>2

\* As long as no two calls of grow_critical, which takes no lock, are in their
\* loops at once, two holders of kernel memory never overlap and the page table
\* has the frames of ds_pages for all they hold.
THEOREM SoundIfOneGrows == Spec => SoundWhenOneGrows
<1> DEFINE J == IInv /\ ApartInv /\ SyncInv
<1>1. Init => J
  BY Zenon, InitHolds
<1>2. J /\ OneGrows /\ [Next]_vars => J'
  BY Zenon, NextKeeps DEF KeptIfOne
<1>3. J => ChunksDisjoint /\ TableAgrees
  BY Zenon, SoundThen
<1> HIDE DEF J
<1>4. QED BY <1>1, <1>2, <1>3, PTL DEF Spec, SoundWhenOneGrows

\* In particular when there is only one caller.
THEOREM SoundAlone == (Callers = {BootCaller}) => (Spec => [](ChunksDisjoint /\ TableAgrees))
<1> SUFFICES ASSUME Callers = {BootCaller} PROVE Spec => [](ChunksDisjoint /\ TableAgrees)
  BY Zenon
<1>1. OneGrows
  BY Zenon DEF OneGrows
<1>2. QED BY <1>1, SoundIfOneGrows, PTL DEF SoundWhenOneGrows

\* And, whatever the callers, until main() has made the scheduler: the stack of
\* the CPU, the idle thread with its stacks and the buffers that the zones got
\* meanwhile do not overlap, because only main() allocates until then.
THEOREM SoundInBoot == Spec => [](boot # "up" => ChunksDisjoint /\ TableAgrees)
<1> DEFINE J == IInv /\ (boot # "up" => ApartInv /\ SyncInv)
<1>1. Init => J
  BY Zenon, InitHolds
<1>2. J /\ [Next]_vars => J'
  <2> SUFFICES ASSUME J, [Next]_vars PROVE J'
    BY Zenon
  <2>1. IInv'
    BY Zenon, NextKeeps DEF KeptIfOne
  <2>2. ASSUME boot' # "up", Next PROVE ApartInv' /\ SyncInv'
    <3>1. boot \notin {"up", "panic"}
      BY Zenon, <2>2, UpForGood
    <3>2. OneGrows
      <4>1. \A c \in Callers \ {BootCaller} : call[c].pc = "idle"
        BY Zenon, <3>1 DEF IInv, BootInv
      <4>2. QED BY <4>1 DEF OneGrows, Loop
    <3>3. QED BY Zenon, <3>1, <3>2, NextKeeps DEF KeptIfOne
  <2>3. ASSUME boot' # "up", UNCHANGED vars PROVE ApartInv' /\ SyncInv'
    <3>1. boot # "up" /\ call' = call /\ pages' = pages /\ pte' = pte
      BY Zenon, <2>3 DEF vars
    <3>2. Items' = Items /\ Buffers' = Buffers
      BY <2>3 DEF vars, Items, Holders, Pending, Buffers, FreeBuffers, ThreadBuffers, CallBuffers, SchedBuffers,
                  ListedStacks, StacksOfThreads, StacksOfCalls, CpuHolders
    <3>3. ApartInv'
      BY Zenon, <3>1, <3>2, StaysApart DEF Stays
    <3>4. SyncInv'
      BY Zenon, <3>1 DEF SyncInv, PageOf
    <3>5. QED BY Zenon, <3>3, <3>4
  <2>4. QED BY Zenon, <2>1, <2>2, <2>3
<1>3. J => (boot # "up" => ChunksDisjoint /\ TableAgrees)
  BY Zenon, SoundThen
<1> HIDE DEF J
<1>4. QED BY <1>1, <1>2, <1>3, PTL DEF Spec
=============================================================================
