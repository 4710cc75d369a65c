---------------------------- MODULE PagingProofs ----------------------------
(***************************************************************************)
(* Temporary mappings are safe although unmap_page takes no lock and the   *)
(* TLBs of other CPUs are never told: proofs for any window, any number of *)
(* CPUs and threads, and any page tables.                                  *)
(***************************************************************************)
EXTENDS Paging, TLAPS

Pcs == {"idle", "init", "map", "access", "unmap", "invlpg", "panic"}
Kinds == {"none", "table", "enter", "get", "range"}
Op == [pc : Pcs, kind : Kinds, frame : Nat, e : Tables \cup Entries \cup {Null}, val : Data \cup {Null},
       slots : SUBSET Int, base : Int, r : Ranges \cup {Null}]

\* The slots an operation has when it comes to its access.
Wanted(l) == IF l.kind = "range" THEN l.base..(l.base + RangePages(l.r) - 1) ELSE {l.base}

\* The variables of the window.
WindowType ==
  /\ kpt \in [Slots -> Nat \cup {Null}]
  /\ tlb \in [Cpus -> [Slots -> Nat \cup {Null}]]
  /\ op \in [Threads -> Op]
  /\ \A t \in Threads : Holds(t) \subseteq Slots
  /\ \A t \in Threads : op[t].kind = "range" => op[t].r \in Ranges

\* At its access a thread has the slots it needs, they show its frame, and its
\* own CPU has loaded nothing else for them.
AccessReady ==
  \A t \in Threads : op[t].pc = "access" =>
    /\ op[t].slots = Wanted(op[t])
    /\ \A s \in op[t].slots : /\ kpt[s] = op[t].frame + (s - op[t].base)
                              /\ tlb[Home[t]][s] \in {Null, kpt[s]}

\* The page tables: a frame that is being zeroed is neither free nor in the
\* page directory.
TableType ==
  /\ dir \in [Tables -> Frames \cup {Null}]
  /\ free \subseteq Frames
  /\ mem \in [Frames -> [Entries -> Data \cup {Junk, Null}]]
  /\ \A i \in Tables : dir[i] \notin free
  /\ \A t \in Threads : op[t].kind = "table" =>
       /\ t = Boot /\ op[t].frame \in Frames /\ op[t].frame \notin free
       /\ \A i \in Tables : dir[i] # op[t].frame

WInv == WindowType /\ SlotsHeldOnce /\ AccessReady
IInv == WInv /\ TableType

-----------------------------------------------------------------------------
\* Helpers.

\* The pages of a range, counted for the mapping and for the unmapping.
LEMMA RangeCount ==
  ASSUME NEW x \in Nat \ {0}
  PROVE  (x + PageBytes - 1) \div PageBytes = ((x - 1) \div PageBytes) + 1
<1>1. PageBytes \in Nat \ {0}
  BY WindowOK
<1>2. PICK y \in Int : y = x - 1
  OBVIOUS
<1>3. (y + PageBytes) \div PageBytes = (y \div PageBytes) + 1
  BY <1>1, Z3
<1> QED BY <1>1, <1>2, <1>3

\* __i686_mp_unmap_range goes through just the slots that were taken.
LEMMA UnmappedIsWanted ==
  ASSUME NEW l \in Op, l.kind = "range", l.r \in Ranges
  PROVE  Unmapped(l) = Wanted(l)
<1>1. PICK o \in Nat, m \in Nat \ {0} : o = l.r.off /\ m = l.r.n
  BY WindowOK
<1>2. PICK b \in Int : b = l.base
  BY DEF Op
<1> DEFINE d == (o + m - 1) \div PageBytes
<1>3. d \in Int /\ RangePages(l.r) = d + 1
  <2>1. PageBytes \in Nat \ {0}
    BY WindowOK
  <2>2. d \in Int
    BY <2>1
  <2>3. RangePages(l.r) = (o + m + PageBytes - 1) \div PageBytes
    BY <1>1 DEF RangePages
  <2>4. o + m \in Nat \ {0}
    OBVIOUS
  <2> QED BY <2>2, <2>3, <2>4, RangeCount
<1>d. (l.r.off + l.r.n - 1) \div PageBytes = d
  BY <1>1
<1> HIDE DEF d
<1>4. Unmapped(l) = {b + k : k \in 0..d}
  BY <1>d, <1>2 DEF Unmapped
<1>5. {b + k : k \in 0..d} = b..(b + d)
  <2>1. \A s \in b..(b + d) : s - b \in 0..d /\ b + (s - b) = s
    BY <1>3
  <2>2. \A k \in 0..d : b + k \in b..(b + d)
    BY <1>3
  <2> QED BY <2>1, <2>2
<1>6. b + (d + 1) - 1 = b + d
  BY <1>3
<1> QED BY <1>2, <1>3, <1>4, <1>5, <1>6 DEF Wanted

\* What a thread that does nothing looks like.
LEMMA IdleOp == Idle \in Op /\ Idle.pc = "idle" /\ Idle.kind = "none"
BY DEF Op, Pcs, Kinds, Idle

\* A run of free slots lies in the window.
LEMMA RunInWindow ==
  ASSUME NEW n \in Int, NEW i \in Runs(n)
  PROVE  /\ i \in Slots /\ i \in Int /\ i..(i + n - 1) \subseteq Slots
         /\ \A s \in i..(i + n - 1) : kpt[s] = Null
BY WindowOK DEF Runs

-----------------------------------------------------------------------------
\* The window.

\* The processor loads an entry as it is.
LEMMA TlbLoadInv ==
  ASSUME WInv, NEW c \in Cpus, NEW s \in Slots, TlbLoad(c, s)
  PROVE  WInv'
<1>1. WindowType /\ SlotsHeldOnce /\ AccessReady
  BY DEF WInv
<1>2. /\ kpt' = kpt /\ op' = op /\ tlb' = [tlb EXCEPT ![c] = [tlb[c] EXCEPT ![s] = kpt[s]]]
  BY DEF TlbLoad
<1>3. WindowType'
  BY <1>1, <1>2 DEF WindowType, Holds
<1>4. SlotsHeldOnce'
  BY <1>1, <1>2 DEF SlotsHeldOnce, Holds
<1>5. AccessReady'
  <2>1. SUFFICES ASSUME NEW t \in Threads, op[t].pc = "access"
                 PROVE  /\ op[t].slots = Wanted(op[t])
                        /\ \A u \in op[t].slots : /\ kpt[u] = op[t].frame + (u - op[t].base)
                                                  /\ tlb'[Home[t]][u] \in {Null, kpt[u]}
    BY <1>2 DEF AccessReady, Wanted, RangePages
  <2>2. \A u \in op[t].slots : u \in Slots /\ tlb[Home[t]][u] \in {Null, kpt[u]}
    BY <1>1, <2>1 DEF AccessReady, WindowType, Holds
  <2>3. \A u \in Slots : tlb'[Home[t]][u] = IF Home[t] = c /\ u = s THEN kpt[s] ELSE tlb[Home[t]][u]
    BY <1>1, <1>2, WindowOK DEF WindowType
  <2> QED BY <1>1, <2>1, <2>2, <2>3 DEF AccessReady
<1> QED BY <1>3, <1>4, <1>5 DEF WInv

\* A thread that holds no slot changes what it does, and holds none.
LEMMA QuietInv ==
  ASSUME WInv, NEW t \in Threads, NEW l \in Op, op' = [op EXCEPT ![t] = l],
         op[t].pc \notin {"access", "unmap", "invlpg"}, l.pc \notin {"access", "unmap", "invlpg"},
         l.kind = "range" => l.r \in Ranges, kpt' = kpt, tlb' = tlb
  PROVE  WInv'
<1>1. WindowType /\ SlotsHeldOnce /\ AccessReady
  BY DEF WInv
<1>2. op'[t] = l /\ (\A u \in Threads : u # t => op'[u] = op[u]) /\ op' \in [Threads -> Op]
  BY <1>1 DEF WindowType
<1>3. \A u \in Threads : Holds(u)' = Holds(u)
  BY <1>2 DEF Holds
<1>4. WindowType'
  BY <1>1, <1>2, <1>3 DEF WindowType
<1>5. SlotsHeldOnce'
  BY <1>1, <1>3 DEF SlotsHeldOnce
<1>6. AccessReady'
  BY <1>1, <1>2 DEF AccessReady, Wanted, RangePages
<1> QED BY <1>4, <1>5, <1>6 DEF WInv

\* map_page and map_page_range take slots that nobody holds, and flush them.
LEMMA TakeSlotsInv ==
  ASSUME WInv, NEW t \in Threads, op[t].pc = "map", NEW n \in Int, NEW i \in Runs(n), TakeSlots(t, i, n),
         n = IF op[t].kind = "range" THEN RangePages(op[t].r) ELSE 1
  PROVE  WInv'
<1> DEFINE taken == i..(i + n - 1)
           l == [op[t] EXCEPT !.pc = "access", !.slots = taken, !.base = i]
<1>1. WindowType /\ SlotsHeldOnce /\ AccessReady
  BY DEF WInv
<1>2. i \in Int /\ taken \subseteq Slots /\ taken \subseteq Int /\ \A s \in taken : kpt[s] = Null
  BY RunInWindow
<1>3. op[t] \in Op
  BY <1>1 DEF WindowType
<1>4. /\ l \in Op /\ l.pc = "access" /\ l.slots = taken /\ l.base = i /\ l.frame = op[t].frame
      /\ l.kind = op[t].kind /\ l.r = op[t].r /\ l.frame \in Nat
  BY <1>2, <1>3 DEF Op, Pcs
<1>5. op' = [op EXCEPT ![t] = l] /\ kpt' = [s \in Slots |-> IF s \in taken THEN op[t].frame + (s - i) ELSE kpt[s]]
      /\ tlb' = [tlb EXCEPT ![Home[t]] = [s \in Slots |-> IF s \in taken THEN Null ELSE tlb[Home[t]][s]]]
  BY DEF TakeSlots, Become
<1>t. taken = i..(i + n - 1)
  OBVIOUS
<1> HIDE DEF l, taken
<1>6. op'[t] = l /\ (\A u \in Threads : u # t => op'[u] = op[u]) /\ op' \in [Threads -> Op]
  BY <1>1, <1>4, <1>5 DEF WindowType
<1>7. /\ \A s \in taken : kpt'[s] = l.frame + (s - i) /\ kpt'[s] \in Nat /\ kpt'[s] # Null
      /\ \A s \in Slots : s \notin taken => kpt'[s] = kpt[s]
  <2>1. \A s \in taken : s \in Slots /\ s - i \in Nat
    BY <1>2, RunInWindow DEF taken
  <2> QED BY <1>4, <1>5, <2>1, WindowOK
<1>8. \A s \in Slots : s \notin taken => \A c \in Cpus : tlb'[c][s] = tlb[c][s]
  BY <1>1, <1>5 DEF WindowType
<1>9. \A s \in taken : s \in Slots /\ tlb'[Home[t]][s] = Null
  BY <1>1, <1>2, <1>5, WindowOK DEF WindowType
<1>10. Holds(t)' = taken /\ Holds(t) = {} /\ \A u \in Threads : u # t => Holds(u)' = Holds(u)
  BY <1>4, <1>6 DEF Holds
<1>11. \A u \in Threads : Holds(u) \cap taken = {} /\ Holds(u) \subseteq Slots
  BY <1>1, <1>2 DEF SlotsHeldOnce, WindowType
<1>12. WindowType'
  <2>1. kpt' \in [Slots -> Nat \cup {Null}]
    BY <1>1, <1>5, <1>7 DEF WindowType
  <2>2. tlb' \in [Cpus -> [Slots -> Nat \cup {Null}]]
    BY <1>1, <1>5, WindowOK DEF WindowType
  <2>3. \A u \in Threads : Holds(u)' \subseteq Slots
    BY <1>2, <1>10, <1>11
  <2> QED BY <1>1, <1>4, <1>6, <2>1, <2>2, <2>3 DEF WindowType
<1>13. SlotsHeldOnce'
  <2>1. \A u, v \in Threads : u # v => Holds(u)' \cap Holds(v)' = {}
    BY <1>1, <1>10, <1>11 DEF SlotsHeldOnce
  <2>2. \A s \in Slots : kpt'[s] # Null <=> \E u \in Threads : s \in Holds(u)'
    BY <1>1, <1>7, <1>10, <1>11 DEF SlotsHeldOnce
  <2> QED BY <2>1, <2>2 DEF SlotsHeldOnce
<1>14. AccessReady'
  <2>1. l.slots = Wanted(l)
    <3>1. op[t].kind = "range" => n = RangePages(l.r)
      BY <1>4
    <3>2. op[t].kind # "range" => taken = {i}
      BY <1>2, <1>t
    <3> QED BY <3>1, <3>2, <1>4, <1>t DEF Wanted
  <2>2. ASSUME NEW u \in Threads, u # t, op[u].pc = "access"
        PROVE  \A s \in op[u].slots : /\ kpt'[s] = op[u].frame + (s - op[u].base)
                                      /\ tlb'[Home[u]][s] \in {Null, kpt'[s]}
    <3>1. \A s \in op[u].slots : s \in Slots /\ s \notin taken
      BY <1>11, <2>2 DEF Holds
    <3> QED BY <3>1, <2>2, <1>1, <1>7, <1>8, WindowOK DEF AccessReady
  <2>3. \A s \in l.slots : kpt'[s] = l.frame + (s - l.base) /\ tlb'[Home[t]][s] \in {Null, kpt'[s]}
    BY <1>4, <1>7, <1>9
  <2>4. ASSUME NEW u \in Threads, op'[u].pc = "access"
        PROVE  /\ op'[u].slots = Wanted(op'[u])
               /\ \A v \in op'[u].slots : /\ kpt'[v] = op'[u].frame + (v - op'[u].base)
                                          /\ tlb'[Home[u]][v] \in {Null, kpt'[v]}
    <3>1. CASE u = t
      BY <3>1, <1>6, <2>1, <2>3
    <3>2. CASE u # t
      BY <3>2, <2>4, <1>1, <1>6, <2>2 DEF AccessReady
    <3> QED BY <3>1, <3>2
  <2> QED BY <2>4 DEF AccessReady
<1> QED BY <1>12, <1>13, <1>14 DEF WInv

\* unmap_page clears a slot that the thread alone holds.
LEMMA UnmapInv ==
  ASSUME WInv, NEW t \in Threads, Unmap(t)
  PROVE  WInv'
<1>1. WindowType /\ SlotsHeldOnce /\ AccessReady /\ op[t] \in Op
  BY DEF WInv, WindowType
<1>2. PICK s \in op[t].slots : /\ kpt' = [kpt EXCEPT ![s] = Null] /\ op[t].pc = "unmap" /\ tlb' = tlb
                              /\ op' = [op EXCEPT ![t] = [op[t] EXCEPT !.pc = "invlpg", !.base = s, !.slots = op[t].slots \ {s}]]
  BY DEF Unmap, Become
<1> DEFINE l == [op[t] EXCEPT !.pc = "invlpg", !.base = s, !.slots = op[t].slots \ {s}]
<1>3. /\ l \in Op /\ l.pc = "invlpg" /\ l.slots = op[t].slots \ {s} /\ l.kind = op[t].kind /\ l.r = op[t].r
  BY <1>1 DEF Op, Pcs
<1>4. op' = [op EXCEPT ![t] = l]
  BY <1>2
<1> HIDE DEF l
<1>5. op'[t] = l /\ (\A u \in Threads : u # t => op'[u] = op[u]) /\ op' \in [Threads -> Op]
  BY <1>1, <1>3, <1>4 DEF WindowType
<1>6. Holds(t) = op[t].slots /\ Holds(t)' = Holds(t) \ {s} /\ \A u \in Threads : u # t => Holds(u)' = Holds(u)
  BY <1>2, <1>3, <1>5 DEF Holds
<1>7. /\ s \in Slots /\ kpt'[s] = Null /\ \A v \in Slots : v # s => kpt'[v] = kpt[v]
  BY <1>1, <1>2, <1>6 DEF WindowType
<1>8. \A u \in Threads : u # t => s \notin Holds(u)
  BY <1>1, <1>6 DEF SlotsHeldOnce
<1>9. WindowType'
  BY <1>1, <1>2, <1>3, <1>5, <1>6 DEF WindowType
<1>10. SlotsHeldOnce'
  <2>1. \A u, v \in Threads : u # v => Holds(u)' \cap Holds(v)' = {}
    BY <1>1, <1>6 DEF SlotsHeldOnce
  <2>2. \A v \in Slots : kpt'[v] # Null <=> \E u \in Threads : v \in Holds(u)'
    BY <1>1, <1>6, <1>7, <1>8 DEF SlotsHeldOnce
  <2> QED BY <2>1, <2>2 DEF SlotsHeldOnce
<1>11. AccessReady'
  <2>1. ASSUME NEW u \in Threads, u # t, op[u].pc = "access"
        PROVE  \A v \in op[u].slots : kpt'[v] = kpt[v]
    BY <2>1, <1>1, <1>7, <1>8 DEF Holds, WindowType
  <2>2. ASSUME NEW u \in Threads, op'[u].pc = "access"
        PROVE  /\ op'[u].slots = Wanted(op'[u])
               /\ \A v \in op'[u].slots : /\ kpt'[v] = op'[u].frame + (v - op'[u].base)
                                          /\ tlb'[Home[u]][v] \in {Null, kpt'[v]}
    <3>1. u # t
      BY <2>2, <1>3, <1>5
    <3> QED BY <3>1, <2>1, <2>2, <1>1, <1>2, <1>5 DEF AccessReady
  <2> QED BY <2>2 DEF AccessReady
<1> QED BY <1>9, <1>10, <1>11 DEF WInv

\* A slot is forgotten by one CPU; behind the last one the thread holds none.
LEMMA InvlpgInv ==
  ASSUME WInv, NEW t \in Threads, Invlpg(t)
  PROVE  WInv'
<1> DEFINE more == [op[t] EXCEPT !.pc = "unmap"]
           next == IF op[t].kind = "table" THEN [Idle EXCEPT !.pc = "init", !.e = op[t].e] ELSE Idle
           l == IF op[t].slots # {} THEN more ELSE next
<1>1. WindowType /\ SlotsHeldOnce /\ AccessReady /\ op[t] \in Op
  BY DEF WInv, WindowType
<1>2. /\ op[t].pc = "invlpg" /\ kpt' = kpt /\ op' = [op EXCEPT ![t] = l]
      /\ tlb' = [tlb EXCEPT ![Home[t]] = [tlb[Home[t]] EXCEPT ![op[t].base] = Null]]
  BY DEF Invlpg, Become
<1>3. more \in Op /\ more.pc = "unmap" /\ more.slots = op[t].slots /\ more.kind = op[t].kind /\ more.r = op[t].r
  BY <1>1 DEF Op, Pcs
<1>4. next \in Op /\ next.pc \in {"idle", "init"} /\ next.kind = "none"
  BY <1>1, IdleOp DEF Op, Pcs
<1> HIDE DEF more, next
<1>5. op'[t] = l /\ (\A u \in Threads : u # t => op'[u] = op[u]) /\ op' \in [Threads -> Op]
  BY <1>1, <1>2, <1>3, <1>4 DEF WindowType
<1>6. l.pc # "access" /\ (l.kind = "range" => l.r = op[t].r /\ op[t].kind = "range")
  BY <1>3, <1>4
<1>7. \A u \in Threads : Holds(u)' = Holds(u)
  BY <1>2, <1>3, <1>4, <1>5 DEF Holds
<1>8. /\ tlb' \in [Cpus -> [Slots -> Nat \cup {Null}]]
      /\ \A c \in Cpus, s \in Slots : tlb'[c][s] \in {Null, tlb[c][s]}
  BY <1>1, <1>2, WindowOK DEF WindowType
<1>9. WindowType'
  BY <1>1, <1>2, <1>5, <1>6, <1>7, <1>8 DEF WindowType
<1>10. SlotsHeldOnce'
  BY <1>1, <1>2, <1>7 DEF SlotsHeldOnce
<1>11. AccessReady'
  <2>1. ASSUME NEW u \in Threads, op'[u].pc = "access"
        PROVE  /\ op'[u].slots = Wanted(op'[u])
               /\ \A v \in op'[u].slots : /\ kpt'[v] = op'[u].frame + (v - op'[u].base)
                                          /\ tlb'[Home[u]][v] \in {Null, kpt'[v]}
    <3>1. u # t /\ op'[u] = op[u] /\ op[u].pc = "access" /\ Home[u] \in Cpus
      BY <2>1, <1>5, <1>6, WindowOK
    <3>2. op[u].slots \subseteq Slots
      BY <3>1, <1>1 DEF WindowType, Holds
    <3> QED BY <3>1, <3>2, <1>1, <1>2, <1>8 DEF AccessReady
  <2> QED BY <2>1 DEF AccessReady
<1> QED BY <1>9, <1>10, <1>11 DEF WInv

\* The access is over, and the slots that were taken are to be unmapped.
LEMMA AccessInv ==
  ASSUME WInv, NEW t \in Threads, Access(t)
  PROVE  WInv'
<1> DEFINE S == IF op[t].kind = "range" THEN Unmapped(op[t]) ELSE {op[t].base}
           l == [op[t] EXCEPT !.pc = "unmap", !.slots = S]
<1>1. WindowType /\ SlotsHeldOnce /\ AccessReady /\ op[t] \in Op
  BY DEF WInv, WindowType
<1>2. op[t].pc = "access" /\ kpt' = kpt /\ tlb' = tlb /\ op' = [op EXCEPT ![t] = l]
  BY DEF Access, Become
<1>3. S = op[t].slots
  <2>1. op[t].slots = Wanted(op[t])
    BY <1>1, <1>2 DEF AccessReady
  <2>2. CASE op[t].kind = "range"
    BY <2>1, <2>2, <1>1, UnmappedIsWanted DEF WindowType
  <2>3. CASE op[t].kind # "range"
    BY <2>1, <2>3 DEF Wanted
  <2> QED BY <2>2, <2>3
<1> HIDE DEF S
<1>4. l \in Op /\ l.pc = "unmap" /\ l.slots = op[t].slots /\ l.kind = op[t].kind /\ l.r = op[t].r
  BY <1>1, <1>3 DEF Op, Pcs
<1> HIDE DEF l
<1>5. op'[t] = l /\ (\A u \in Threads : u # t => op'[u] = op[u]) /\ op' \in [Threads -> Op]
  BY <1>1, <1>2, <1>4 DEF WindowType
<1>6. \A u \in Threads : Holds(u)' = Holds(u)
  BY <1>2, <1>4, <1>5 DEF Holds
<1>7. WindowType'
  BY <1>1, <1>2, <1>4, <1>5, <1>6 DEF WindowType
<1>8. SlotsHeldOnce'
  BY <1>1, <1>2, <1>6 DEF SlotsHeldOnce
<1>9. AccessReady'
  <2>1. ASSUME NEW u \in Threads, op'[u].pc = "access"
        PROVE  /\ op'[u].slots = Wanted(op'[u])
               /\ \A v \in op'[u].slots : /\ kpt'[v] = op'[u].frame + (v - op'[u].base)
                                          /\ tlb'[Home[u]][v] \in {Null, kpt'[v]}
    <3>1. u # t /\ op'[u] = op[u] /\ op[u].pc = "access"
      BY <2>1, <1>4, <1>5
    <3> QED BY <3>1, <1>1, <1>2 DEF AccessReady
  <2> QED BY <2>1 DEF AccessReady
<1> QED BY <1>7, <1>8, <1>9 DEF WInv

-----------------------------------------------------------------------------
\* All the actions.

\* map_page or map_page_range, with or without success.
LEMMA MappingInv ==
  ASSUME WInv, NEW t \in Threads, Mapping(t)
  PROVE  WInv'
<1> DEFINE n == IF op[t].kind = "range" THEN RangePages(op[t].r) ELSE 1
           l == IF op[t].kind \in {"range", "get"} THEN Idle ELSE [op[t] EXCEPT !.pc = "panic"]
<1>1. WindowType /\ op[t] \in Op /\ op[t].pc = "map"
  BY DEF WInv, WindowType, Mapping
<1>2. MapPages(t, n, l)
  BY DEF Mapping
<1>3. n \in Int
  <2>1. CASE op[t].kind = "range"
    <3>1. PICK o \in Nat, m \in Nat \ {0} : o = op[t].r.off /\ m = op[t].r.n
      BY <1>1, <2>1, WindowOK DEF WindowType
    <3>2. PageBytes \in Nat \ {0}
      BY WindowOK
    <3> QED BY <2>1, <3>1, <3>2 DEF RangePages
  <2> QED BY <2>1
<1>4. l \in Op /\ l.pc \in {"idle", "panic"} /\ l.kind # "range"
  BY <1>1, IdleOp DEF Op, Pcs
<1>n. n = IF op[t].kind = "range" THEN RangePages(op[t].r) ELSE 1
  OBVIOUS
<1> HIDE DEF n, l
<1>5. CASE \E i \in Runs(n) : TakeSlots(t, i, n)
  BY <1>1, <1>3, <1>5, <1>n, TakeSlotsInv
<1>6. CASE Become(t, l) /\ UNCHANGED <<kpt, tlb>>
  BY <1>1, <1>4, <1>6, QuietInv DEF Become
<1> QED BY <1>2, <1>5, <1>6 DEF MapPages

\* The calls, and pmap_init, begin with no slot.
LEMMA CallInv ==
  ASSUME WInv, TableType, NEW t \in Threads,
         \/ t = Boot /\ PmapInit
         \/ \E i \in Tables, e \in Entries, d \in Data : PdEnter(t, i, e, d)
         \/ \E i \in Tables : PteGet(t, i)
         \/ \E r \in Ranges : MapRange(t, r)
  PROVE  WInv'
<1>1. op[t] \in Op /\ (op[t].kind = "range" => op[t].r \in Ranges)
  BY DEF WInv, WindowType
<1> DEFINE Quiet ==
  \E l \in Op : /\ op' = [op EXCEPT ![t] = l] /\ kpt' = kpt /\ tlb' = tlb
                /\ op[t].pc \notin {"access", "unmap", "invlpg"} /\ l.pc \notin {"access", "unmap", "invlpg"}
                /\ l.kind = "range" => l.r \in Ranges
<1>2. ASSUME Quiet PROVE WInv'
  <2>1. PICK l \in Op : /\ op' = [op EXCEPT ![t] = l] /\ kpt' = kpt /\ tlb' = tlb
                        /\ op[t].pc \notin {"access", "unmap", "invlpg"} /\ l.pc \notin {"access", "unmap", "invlpg"}
                        /\ l.kind = "range" => l.r \in Ranges
    BY Zenon, <1>2
  <2> QED BY <2>1, QuietInv
<1>3. ASSUME t = Boot, PmapInit PROVE Quiet
  <2>1. kpt' = kpt /\ tlb' = tlb /\ op[t].pc = "init"
    BY <1>3 DEF PmapInit
  <2>2. CASE op' = [op EXCEPT ![t] = Idle]
    BY <2>1, <2>2, IdleOp
  <2>3. CASE \E i \in Tables : op' = [op EXCEPT ![t] = [op[t] EXCEPT !.e = i]]
    <3>1. PICK i \in Tables : op' = [op EXCEPT ![t] = [op[t] EXCEPT !.e = i]]
      BY <2>3
    <3> DEFINE l == [op[t] EXCEPT !.e = i]
    <3>2. l \in Op /\ l.pc = "init" /\ l.kind = op[t].kind /\ l.r = op[t].r
      BY <1>1, <2>1 DEF Op
    <3> QED BY <1>1, <2>1, <3>1, <3>2
  <2>4. CASE \E i \in Tables, f \in free :
               op' = [op EXCEPT ![t] = [op[t] EXCEPT !.pc = "map", !.kind = "table", !.e = i, !.frame = f]]
    <3>1. PICK i \in Tables, f \in free :
               op' = [op EXCEPT ![t] = [op[t] EXCEPT !.pc = "map", !.kind = "table", !.e = i, !.frame = f]]
      BY <2>4
    <3> DEFINE l == [op[t] EXCEPT !.pc = "map", !.kind = "table", !.e = i, !.frame = f]
    <3>2. f \in Nat
      BY WindowOK DEF TableType
    <3>3. l \in Op /\ l.pc = "map" /\ l.kind = "table"
      BY <1>1, <3>2 DEF Op, Pcs, Kinds
    <3> QED BY <2>1, <3>1, <3>3
  <2>5. \/ op' = [op EXCEPT ![t] = Idle]
        \/ \E i \in Tables : op' = [op EXCEPT ![t] = [op[t] EXCEPT !.e = i]]
        \/ \E i \in Tables, f \in free :
             op' = [op EXCEPT ![t] = [op[t] EXCEPT !.pc = "map", !.kind = "table", !.e = i, !.frame = f]]
    BY <1>3 DEF PmapInit, Become
  <2> QED BY <2>2, <2>3, <2>4, <2>5
<1>4. ASSUME NEW i \in Tables, NEW e \in Entries, NEW d \in Data, PdEnter(t, i, e, d)
      PROVE  Quiet
  <2> DEFINE l == [op[t] EXCEPT !.pc = "map", !.kind = "enter", !.frame = dir[i], !.e = e, !.val = d]
  <2>1. dir[i] \in Nat /\ op[t].pc = "idle" /\ op' = [op EXCEPT ![t] = l] /\ kpt' = kpt /\ tlb' = tlb
    BY <1>4, WindowOK DEF PdEnter, TableType, Become
  <2>2. l \in Op /\ l.pc = "map" /\ l.kind = "enter"
    BY <1>1, <2>1 DEF Op, Pcs, Kinds
  <2> QED BY <2>1, <2>2
<1>5. ASSUME NEW i \in Tables, PteGet(t, i)
      PROVE  Quiet
  <2> DEFINE l == [op[t] EXCEPT !.pc = "map", !.kind = "get", !.frame = dir[i]]
  <2>1. dir[i] \in Nat /\ op[t].pc = "idle" /\ op' = [op EXCEPT ![t] = l] /\ kpt' = kpt /\ tlb' = tlb
    BY <1>5, WindowOK DEF PteGet, TableType, Become
  <2>2. l \in Op /\ l.pc = "map" /\ l.kind = "get"
    BY <1>1, <2>1 DEF Op, Pcs, Kinds
  <2> QED BY <2>1, <2>2
<1>6. ASSUME NEW r \in Ranges, MapRange(t, r)
      PROVE  Quiet
  <2> DEFINE l == [op[t] EXCEPT !.pc = "map", !.kind = "range", !.frame = 0, !.r = r]
  <2>1. op[t].pc = "idle" /\ op' = [op EXCEPT ![t] = l] /\ kpt' = kpt /\ tlb' = tlb
    BY <1>6 DEF MapRange, Become
  <2>2. l \in Op /\ l.pc = "map" /\ l.r = r
    BY <1>1 DEF Op, Pcs, Kinds
  <2> QED BY <2>1, <2>2
<1> HIDE DEF Quiet
<1> QED BY <1>2, <1>3, <1>4, <1>5, <1>6

\* The page tables while the page directory, the free frames and the memory
\* stay as they are.
LEMMA TableKept ==
  ASSUME TableType, op \in [Threads -> Op], UNCHANGED <<dir, free>>, NEW t \in Threads, NEW l,
         op' = [op EXCEPT ![t] = l], l.kind = "table" => op[t].kind = "table" /\ l.frame = op[t].frame,
         mem' \in [Frames -> [Entries -> Data \cup {Junk, Null}]]
  PROVE  TableType'
BY DEF TableType

\* Every step keeps the page tables apart from what is being zeroed.
LEMMA TableInv ==
  ASSUME IInv, Next
  PROVE  TableType'
<1>1. WInv /\ TableType /\ op \in [Threads -> Op] /\ mem \in [Frames -> [Entries -> Data \cup {Junk, Null}]]
  BY DEF IInv, WInv, WindowType, TableType
<1>2. ASSUME NEW c \in Cpus, NEW s \in Slots, TlbLoad(c, s) PROVE TableType'
  BY <1>1, <1>2 DEF TlbLoad, TableType
<1>3. ASSUME NEW t \in Threads, Mapping(t) PROVE TableType'
  <2> DEFINE panic == [op[t] EXCEPT !.pc = "panic"]
             got(i, S) == [op[t] EXCEPT !.pc = "access", !.slots = S, !.base = i]
  <2>1. UNCHANGED <<dir, free, mem>>
    BY <1>3 DEF Mapping
  <2>2. \/ \E i, S : op' = [op EXCEPT ![t] = got(i, S)]
        \/ op' = [op EXCEPT ![t] = Idle]
        \/ op' = [op EXCEPT ![t] = panic]
    BY <1>3 DEF Mapping, MapPages, TakeSlots, Become
  <2>3. op[t] \in Op /\ panic.kind = op[t].kind /\ panic.frame = op[t].frame
    BY <1>1 DEF Op
  <2>4. \A i, S : got(i, S).kind = op[t].kind /\ got(i, S).frame = op[t].frame
    BY <2>3 DEF Op
  <2> HIDE DEF got, panic
  <2> QED BY <1>1, <2>1, <2>2, <2>3, <2>4, IdleOp, TableKept
<1>4. ASSUME NEW t \in Threads, Access(t) PROVE TableType'
  <2> DEFINE S == IF op[t].kind = "range" THEN Unmapped(op[t]) ELSE {op[t].base}
             l == [op[t] EXCEPT !.pc = "unmap", !.slots = S]
             f == Reaches(Home[t], op[t].base)
  <2>1. op' = [op EXCEPT ![t] = l] /\ UNCHANGED <<dir, free>> /\ op[t] \in Op
    BY <1>1, <1>4 DEF Access, Become
  <2>2. \/ mem' = [mem EXCEPT ![f] = [mem[f] EXCEPT ![op[t].e] = op[t].val]]
        \/ mem' = [mem EXCEPT ![f] = [e \in Entries |-> Null]] \/ mem' = mem
    BY <1>4 DEF Access
  <2>3. l.kind = op[t].kind /\ l.frame = op[t].frame /\ op[t].val \in Data \cup {Null}
    BY <2>1 DEF Op
  <2> HIDE DEF l, f
  <2>4. mem' \in [Frames -> [Entries -> Data \cup {Junk, Null}]]
    BY <1>1, <2>2, <2>3
  <2> QED BY <1>1, <2>1, <2>3, <2>4, TableKept
<1>5. ASSUME NEW t \in Threads, Unmap(t) PROVE TableType'
  <2> DEFINE l(s) == [op[t] EXCEPT !.pc = "invlpg", !.base = s, !.slots = op[t].slots \ {s}]
  <2>1. (\E s : op' = [op EXCEPT ![t] = l(s)]) /\ UNCHANGED <<dir, free, mem>> /\ op[t] \in Op
    BY <1>1, <1>5 DEF Unmap, Become
  <2>2. \A s : l(s).kind = op[t].kind /\ l(s).frame = op[t].frame
    BY <2>1 DEF Op
  <2> HIDE DEF l
  <2> QED BY <1>1, <2>1, <2>2, TableKept
<1>6. ASSUME NEW t \in Threads, Invlpg(t) PROVE TableType'
  <2> DEFINE more == [op[t] EXCEPT !.pc = "unmap"]
             init == [Idle EXCEPT !.pc = "init", !.e = op[t].e]
  <2>1. UNCHANGED <<free, mem>> /\ op[t] \in Op
    BY <1>1, <1>6 DEF Invlpg
  <2>2. /\ more.kind = op[t].kind /\ more.frame = op[t].frame
        /\ init.kind = "none"
    BY <2>1, IdleOp DEF Op
  <2>3. \/ op' = [op EXCEPT ![t] = more] /\ dir' = dir
        \/ op' = [op EXCEPT ![t] = Idle] /\ dir' = dir
        \/ /\ op' = [op EXCEPT ![t] = init] /\ op[t].kind = "table"
           /\ dir' = [dir EXCEPT ![op[t].e] = op[t].frame]
    BY <1>6 DEF Invlpg, Become
  <2> HIDE DEF more, init
  <2>4. CASE dir' = dir /\ (op' = [op EXCEPT ![t] = more] \/ op' = [op EXCEPT ![t] = Idle])
    BY <1>1, <2>1, <2>2, <2>4, IdleOp, TableKept
  <2>5. CASE /\ op' = [op EXCEPT ![t] = init] /\ op[t].kind = "table"
             /\ dir' = [dir EXCEPT ![op[t].e] = op[t].frame]
    <3>1. op[t].frame \in Frames /\ t = Boot /\ op[t].frame \in Frames /\ op[t].frame \notin free
      BY <1>1, <2>1, <2>5 DEF Op, TableType
    <3>2. \A u \in Threads : op'[u].kind # "table"
      BY <1>1, <2>2, <2>5, <3>1 DEF TableType
    <3> QED BY Zenon, <1>1, <2>1, <2>5, <3>1, <3>2 DEF TableType
  <2> QED BY <2>3, <2>4, <2>5
<1>7. ASSUME PmapInit PROVE TableType'
  <2>0. Boot \in Threads /\ op[Boot] \in Op /\ UNCHANGED <<dir, mem>>
    BY <1>1, <1>7, WindowOK DEF PmapInit
  <2> DEFINE none(i) == [op[Boot] EXCEPT !.e = i]
             l(i, f) == [op[Boot] EXCEPT !.pc = "map", !.kind = "table", !.e = i, !.frame = f]
  <2>1. \/ op' = [op EXCEPT ![Boot] = Idle] /\ free' = free
        \/ \E i : op' = [op EXCEPT ![Boot] = none(i)] /\ free' = free
        \/ \E i, f : f \in free /\ op' = [op EXCEPT ![Boot] = l(i, f)] /\ free' = free \ {f}
    BY <1>7 DEF PmapInit, Become
  <2>2. /\ \A i : none(i).kind = op[Boot].kind /\ none(i).frame = op[Boot].frame
        /\ \A i, f : l(i, f).frame = f
    BY <2>0 DEF Op
  <2> HIDE DEF none, l
  <2>3. CASE op' = [op EXCEPT ![Boot] = Idle] /\ free' = free
    BY <1>1, <2>0, <2>3, IdleOp, TableKept
  <2>4. CASE \E i : op' = [op EXCEPT ![Boot] = none(i)] /\ free' = free
    BY <1>1, <2>0, <2>2, <2>4, TableKept
  <2>5. ASSUME NEW i, NEW f, f \in free, op' = [op EXCEPT ![Boot] = l(i, f)], free' = free \ {f}
        PROVE  TableType'
    BY <1>1, <2>0, <2>2, <2>5 DEF TableType
  <2> QED BY <2>1, <2>3, <2>4, <2>5
<1>8. ASSUME NEW t \in Threads, NEW i \in Tables, NEW e \in Entries, NEW d \in Data, PdEnter(t, i, e, d)
      PROVE  TableType'
  <2> DEFINE l == [op[t] EXCEPT !.pc = "map", !.kind = "enter", !.frame = dir[i], !.e = e, !.val = d]
  <2>1. op' = [op EXCEPT ![t] = l] /\ UNCHANGED <<dir, free, mem>> /\ op[t] \in Op
    BY <1>1, <1>8 DEF PdEnter, Become
  <2>2. l.kind = "enter"
    BY <2>1 DEF Op
  <2> HIDE DEF l
  <2> QED BY <1>1, <2>1, <2>2, TableKept
<1>9. ASSUME NEW t \in Threads, NEW i \in Tables, PteGet(t, i) PROVE TableType'
  <2> DEFINE l == [op[t] EXCEPT !.pc = "map", !.kind = "get", !.frame = dir[i]]
  <2>1. op' = [op EXCEPT ![t] = l] /\ UNCHANGED <<dir, free, mem>> /\ op[t] \in Op
    BY <1>1, <1>9 DEF PteGet, Become
  <2>2. l.kind = "get"
    BY <2>1 DEF Op
  <2> HIDE DEF l
  <2> QED BY <1>1, <2>1, <2>2, TableKept
<1>10. ASSUME NEW t \in Threads, NEW r \in Ranges, MapRange(t, r) PROVE TableType'
  <2> DEFINE l == [op[t] EXCEPT !.pc = "map", !.kind = "range", !.frame = 0, !.r = r]
  <2>1. op' = [op EXCEPT ![t] = l] /\ UNCHANGED <<dir, free, mem>> /\ op[t] \in Op
    BY <1>1, <1>10 DEF MapRange, Become
  <2>2. l.kind = "range"
    BY <2>1 DEF Op
  <2> HIDE DEF l
  <2> QED BY <1>1, <2>1, <2>2, TableKept
<1> QED BY <1>2, <1>3, <1>4, <1>5, <1>6, <1>7, <1>8, <1>9, <1>10 DEF Next, Step

\* The window is empty at first, and no frame of a table is taken.
LEMMA InitIInv ==
  ASSUME Init
  PROVE  IInv
<1> DEFINE init == [Idle EXCEPT !.pc = "init"]
<1>1. init \in Op /\ init.pc = "init" /\ init.kind = "none"
  BY IdleOp DEF Op, Pcs
<1>2. op = [t \in Threads |-> IF t = Boot THEN init ELSE Idle]
  BY DEF Init
<1> HIDE DEF init
<1>3. op \in [Threads -> Op] /\ \A t \in Threads : op[t].pc \in {"init", "idle"} /\ op[t].kind = "none"
  BY <1>1, <1>2, IdleOp
<1>4. \A t \in Threads : Holds(t) = {}
  BY <1>3 DEF Holds
<1>5. WindowType
  BY <1>3, <1>4 DEF Init, WindowType
<1>6. SlotsHeldOnce
  BY <1>4 DEF Init, SlotsHeldOnce
<1>7. AccessReady
  BY <1>3 DEF AccessReady
<1>8. TableType
  BY <1>3, WindowOK DEF Init, TableType
<1> QED BY <1>5, <1>6, <1>7, <1>8 DEF IInv, WInv

\* Every step keeps the window and the page tables.
LEMMA NextIInv ==
  ASSUME IInv, [Next]_vars
  PROVE  IInv'
<1>1. WInv /\ TableType
  BY DEF IInv
<1>2. CASE Next
  <2>1. TableType'
    BY <1>2, TableInv
  <2>2. ASSUME NEW c \in Cpus, NEW s \in Slots, TlbLoad(c, s) PROVE WInv'
    BY <1>1, <2>2, TlbLoadInv
  <2>3. ASSUME NEW t \in Threads, Step(t) PROVE WInv'
    <3>1. CASE Mapping(t)
      BY <1>1, <3>1, MappingInv
    <3>2. CASE Access(t)
      BY <1>1, <3>2, AccessInv
    <3>3. CASE Unmap(t)
      BY <1>1, <3>3, UnmapInv
    <3>4. CASE Invlpg(t)
      BY <1>1, <3>4, InvlpgInv
    <3>5. CASE t = Boot /\ PmapInit
      BY <1>1, <3>5, CallInv
    <3> QED BY <2>3, <3>1, <3>2, <3>3, <3>4, <3>5 DEF Step
  <2>4. ASSUME NEW t \in Threads,
               \/ \E i \in Tables, e \in Entries, d \in Data : PdEnter(t, i, e, d)
               \/ \E i \in Tables : PteGet(t, i)
               \/ \E r \in Ranges : MapRange(t, r)
        PROVE  WInv'
    BY <1>1, <2>4, CallInv
  <2> QED BY <1>2, <2>1, <2>2, <2>3, <2>4 DEF Next, IInv
<1>3. CASE UNCHANGED vars
  <2>1. WindowType' /\ SlotsHeldOnce' /\ AccessReady'
    BY ZenonT(30), <1>1, <1>3 DEF vars, WInv, WindowType, SlotsHeldOnce, AccessReady, Holds, Wanted
  <2>2. TableType'
    BY <1>1, <1>3 DEF vars, TableType
  <2> QED BY <2>1, <2>2 DEF IInv, WInv
<1> QED BY <1>2, <1>3

\* A thread at its access reaches the frame it has asked for.
LEMMA ReachesFrame ==
  ASSUME WInv, NEW t \in Threads, op[t].pc = "access", NEW s \in op[t].slots
  PROVE  Reaches(Home[t], s) = op[t].frame + (s - op[t].base)
BY DEF WInv, AccessReady, Reaches

-----------------------------------------------------------------------------
\* The theorems.

\* What holds of the window and of the page tables in every state.
THEOREM Invariance == Spec => []IInv
BY InitIInv, NextIInv, PTL DEF Spec

\* unmap_page needs no lock: no slot of the window is ever used by two, and
\* __i686_mp_unmap_range gives back exactly what __i686_mp_map_range took.
THEOREM SlotsExclusive == Spec => []SlotsHeldOnce
<1>1. IInv => SlotsHeldOnce
  BY DEF IInv, WInv
<1> QED BY <1>1, Invariance, PTL

\* The flush of one's own CPU is enough: an access through the window goes to
\* the frame asked for, whatever any CPU has in its TLB.
THEOREM AccessRight == Spec => []AccessReachesFrame
<1>1. IInv => AccessReachesFrame
  BY ReachesFrame DEF IInv, AccessReachesFrame
<1> QED BY <1>1, Invariance, PTL

\* A table in the page directory is changed by _i686_pmap_pte_set only, in the
\* entry pmap_enter was called for.
THEOREM TablesStable == Spec => TablesChangeByEnter
<1> DEFINE A == \A i \in Tables, e \in Entries :
       (dir[i] # Null /\ mem'[dir[i]][e] # mem[dir[i]][e]) =>
         \E t \in Threads : /\ op[t].pc = "access" /\ op[t].kind = "enter"
                            /\ op[t].frame = dir[i] /\ op[t].e = e
                            /\ mem'[dir[i]][e] = op[t].val
<1>1. IInv /\ [Next]_vars => [A]_vars
  <2>1. SUFFICES ASSUME IInv, Next, NEW i \in Tables, NEW e \in Entries,
                        dir[i] # Null, mem'[dir[i]][e] # mem[dir[i]][e]
                 PROVE  \E t \in Threads : /\ op[t].pc = "access" /\ op[t].kind = "enter"
                                           /\ op[t].frame = dir[i] /\ op[t].e = e
                                           /\ mem'[dir[i]][e] = op[t].val
    OBVIOUS
  <2>2. PICK t \in Threads : Access(t)
    <3>1. mem' # mem
      BY <2>1
    <3> QED BY <2>1, <3>1 DEF Next, Step, TlbLoad, Mapping, Unmap, Invlpg, PmapInit, PdEnter, PteGet, MapRange
  <2> DEFINE f == Reaches(Home[t], op[t].base)
  <2>3. /\ WInv /\ TableType /\ op[t] \in Op /\ op[t].pc = "access" /\ op[t].base \in Int /\ op[t].frame \in Nat
        /\ mem \in [Frames -> [Entries -> Data \cup {Junk, Null}]]
    BY <2>1, <2>2 DEF IInv, WInv, WindowType, Op, Access, TableType
  <2>4. /\ op[t].kind = "enter" => mem' = [mem EXCEPT ![f] = [mem[f] EXCEPT ![op[t].e] = op[t].val]]
        /\ op[t].kind = "table" => mem' = [mem EXCEPT ![f] = [k \in Entries |-> Null]]
        /\ op[t].kind \notin {"enter", "table"} => mem' = mem
    BY <2>2 DEF Access
  <2>5. op[t].kind \in {"enter", "table"}
    BY <2>1, <2>4
  <2>6. f = op[t].frame
    <3>1. op[t].base \in op[t].slots
      BY <2>3, <2>5 DEF WInv, AccessReady, Wanted
    <3>2. f = op[t].frame + (op[t].base - op[t].base)
      BY <2>3, <3>1, ReachesFrame
    <3> HIDE DEF f
    <3>3. PICK b \in Int, g \in Nat : b = op[t].base /\ g = op[t].frame
      BY <2>3
    <3>4. g + (b - b) = g
      OBVIOUS
    <3> QED BY <3>2, <3>3, <3>4
  <2> HIDE DEF f
  <2>7. dir[i] = f /\ dir[i] \in Frames
    BY <2>1, <2>3, <2>4, <2>5 DEF TableType
  <2>8. op[t].kind = "enter"
    BY <2>3, <2>5, <2>6, <2>7 DEF TableType
  <2>9. f \in Frames /\ op[t].e = e
    BY <2>1, <2>3, <2>4, <2>7, <2>8
  <2> QED BY <2>3, <2>4, <2>6, <2>7, <2>8, <2>9
<1> QED BY <1>1, Invariance, PTL DEF Spec, TablesChangeByEnter
=============================================================================
