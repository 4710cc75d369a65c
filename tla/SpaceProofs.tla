----------------------------- MODULE SpaceProofs ----------------------------
(***************************************************************************)
(* Space is given out once: the pages of the physical page allocator       *)
(* (PhysMem), and the addresses of the region mappers (RegionMapper).      *)
(***************************************************************************)
EXTENDS PhysMem, RegionMapper, TLAPS

-----------------------------------------------------------------------------
(***************************************************************************)
(* The boot function divides the bitmap without overlap and reports what   *)
(* it did, and no page is handed out twice: proofs for any memory ranges,  *)
(* any size of the bitmap and any number of callers.                       *)
(***************************************************************************)

MapType == [first : Nat, length : Nat]

\* The maps, while vm_phys_bm_bootinit runs and afterwards: they lie below
\* bitmap_current, and as long as it goes on every range got all its words.
BootInv ==
  /\ rng \in RangeLists /\ maps \in Seq(MapType) /\ words \in 0..UNUMBER
  /\ boot \in {"running", "0", "-1"} /\ Pi \in Nat /\ Pt \in Nat
  /\ BitmapsDisjoint /\ BootReport
  /\ \A i \in 1..Len(maps) : maps[i].first + maps[i].length <= words * WordBits
  /\ boot = "running" => /\ words < UNUMBER
                         /\ \A i \in 1..Len(maps) : maps[i].length = Pages(rng[i])

\* The callers: the owner of pmb_lock is the one in the section, the page it
\* has found is free, and the owned pages are marked and have one owner.
CallInv ==
  /\ used \subseteq 0..(UNUMBER * WordBits - 1)
  /\ lock \in Callers \cup {None}
  /\ pc \in [Callers -> {"idle", "alloc", "free", "search", "mark", "clear"}]
  /\ found \in [Callers -> (Nat \X Nat) \cup {None}]
  /\ arg \in [Callers -> Nat \cup {None}]
  /\ owned \in [Callers -> SUBSET Nat]
  /\ \A c \in Callers : pc[c] \in {"search", "mark", "clear"} <=> lock = c
  /\ boot = "running" => \A c \in Callers : pc[c] = "idle" /\ owned[c] = {}
  /\ \A c \in Callers : pc[c] = "mark" =>
       /\ found[c][1] \in 1..Len(maps) /\ found[c][2] \in 0..(maps[found[c][1]].length - 1)
       /\ Bit(found[c][1], found[c][2]) \notin used
  /\ \A c \in Callers : pc[c] \in {"free", "clear"} => arg[c] \in Nat
  /\ OwnedOnce

PhysInv == BootInv /\ CallInv

-----------------------------------------------------------------------------
\* vm_phys_bm_bootinit.

\* A list of ranges, element by element.
LEMMA RangeFacts ==
  ASSUME NEW r \in RangeLists
  PROVE  /\ Len(r) \in Nat
         /\ \A i \in 1..Len(r) : /\ r[i].begin \in Nat /\ r[i].end \in Nat /\ r[i].begin <= r[i].end
                                  /\ Pages(r[i]) \in Nat
         /\ \A i, j \in 1..Len(r) : i # j => r[i].end <= r[j].begin \/ r[j].end <= r[i].begin
<1>1. r \in Seq(MemoryRange)
  BY Zenon, RangeListsOK
<1>2. \A i \in 1..Len(r) : r[i] \in MemoryRange
  BY <1>1
<1>3. \A i \in 1..Len(r) : r[i].begin \in Nat /\ r[i].end \in Nat /\ r[i].begin <= r[i].end
  BY Zenon, <1>2, RangeListsOK DEF MemoryRange
<1>4. Len(r) \in Nat
  BY <1>1
<1> QED BY <1>3, <1>4, RangeListsOK DEF Pages

\* WordsFor is enough: its words hold a bit for every page.
LEMMA WordsEnough ==
  ASSUME NEW m \in Nat
  PROVE  WordsFor(m) \in Nat /\ WordsFor(m) * WordBits >= m
<1> DEFINE x == m + WordBits - 1
           y == x \div WordBits
<1>1. x \in Nat /\ WordBits \in Nat \ {0}
  BY BitmapSize
<1>2. y \in Int /\ x % WordBits \in 0..(WordBits - 1) /\ y * WordBits = x - (x % WordBits)
  <2> HIDE DEF x
  <2> QED BY <1>1, Z3
<1>3. y >= 0
  <2>1. y <= -1 => y * WordBits <= -WordBits
    <3> HIDE DEF y
    <3> QED BY <1>1, <1>2
  <2> HIDE DEF x, y
  <2> QED BY <1>1, <1>2, <2>1
<1>4. y * WordBits >= m
  <2> DEFINE r == x % WordBits
             z == y * WordBits
  <2>1. r \in 0..(WordBits - 1) /\ z = x - r
    BY Zenon, <1>2
  <2> HIDE DEF r, z, y
  <2>2. z >= m
    BY <1>1, <2>1
  <2> QED BY Zenon, <2>2 DEF z
<1> QED BY <1>2, <1>3, <1>4 DEF WordsFor

\* What the loop gives to a range.
LEMMA GrantedFacts ==
  ASSUME NEW m \in Nat, words \in 0..UNUMBER
  PROVE  LET j == Granted(m)
         IN  /\ j \in Nat /\ words + j <= UNUMBER /\ j * WordBits \in Nat
             /\ Length(j, m) \in Nat /\ Length(j, m) <= m /\ Length(j, m) <= j * WordBits
             /\ Length(j, m) = Least(m, j * WordBits)
             /\ words * WordBits + j * WordBits = (words + j) * WordBits
             /\ words * WordBits \in Nat
             /\ words + j < UNUMBER => Length(j, m) = m
             /\ j * WordBits >= m => Length(j, m) = m
<1> DEFINE j == Granted(m)
<1>1. WordsFor(m) \in Nat /\ WordsFor(m) * WordBits >= m /\ UNUMBER \in Nat /\ WordBits \in Nat
  BY Zenon, WordsEnough, BitmapSize
<1>2. j \in Nat /\ words + j <= UNUMBER /\ (words + j < UNUMBER => j = WordsFor(m))
  BY <1>1 DEF Granted, Least
<1> HIDE DEF j
<1>3. j * WordBits \in Nat /\ words * WordBits \in Nat /\ words * WordBits + j * WordBits = (words + j) * WordBits
  BY <1>1, <1>2
<1> DEFINE z == j * WordBits
<1>4. words + j < UNUMBER => z >= m
  BY Zenon, <1>1, <1>2
<1>5. z \in Nat
  BY Zenon, <1>3
<1> HIDE DEF z
<1>6. /\ Least(z, m) \in Nat /\ Least(z, m) <= m /\ Least(z, m) <= z /\ Least(z, m) = Least(m, z)
      /\ z >= m => Least(z, m) = m
  BY <1>5 DEF Least
<1> QED BY Zenon, <1>2, <1>3, <1>4, <1>6 DEF j, z, Length

\* One more map behind the others.
LEMMA AppendMap ==
  ASSUME BootInv, boot = "running", NEW x \in MapType, NEW w \in 0..UNUMBER,
         Len(maps) + 1 <= Len(rng),
         x.first = words * WordBits, x.length <= Pages(rng[Len(maps) + 1]),
         x.first + x.length <= w * WordBits, words <= w
  PROVE  LET s == Append(maps, x)
         IN  /\ s \in Seq(MapType) /\ Len(s) = Len(maps) + 1 /\ s[Len(maps) + 1] = x
             /\ \A i \in 1..Len(maps) : s[i] = maps[i]
             /\ \A i \in 1..Len(s) :
                  /\ s[i].length <= Pages(rng[i])
                  /\ s[i].first + s[i].length <= w * WordBits
                  /\ s[i].first + s[i].length <= UNUMBER * WordBits
                  /\ \A j \in 1..Len(s) : i < j => s[i].first + s[i].length <= s[j].first
<1> DEFINE n == Len(maps)
           s == Append(maps, x)
<1>0. /\ maps \in Seq(MapType) /\ n \in Nat /\ WordBits \in Nat /\ UNUMBER \in Nat /\ words \in Nat /\ w \in Nat
      /\ w <= UNUMBER
  BY BitmapSize DEF BootInv
<1>1. s \in Seq(MapType) /\ Len(s) = n + 1 /\ s[n + 1] = x /\ \A i \in 1..n : s[i] = maps[i]
  BY <1>0
<1>2. words * WordBits <= w * WordBits /\ w * WordBits <= UNUMBER * WordBits
      /\ words * WordBits \in Nat /\ w * WordBits \in Nat /\ UNUMBER * WordBits \in Nat
  BY <1>0
<1>3. \A i \in 1..n : /\ maps[i].first \in Nat /\ maps[i].length \in Nat
                       /\ maps[i].length <= Pages(rng[i])
                       /\ maps[i].first + maps[i].length <= words * WordBits
                       /\ \A j \in 1..n : i < j => maps[i].first + maps[i].length <= maps[j].first
  <2>1. \A i \in 1..n : maps[i] \in MapType
    BY <1>0
  <2> QED BY Zenon, <2>1 DEF BootInv, BitmapsDisjoint, MapType
<1>4. x.first \in Nat /\ x.length \in Nat
  BY Zenon DEF MapType
<1> DEFINE a == words * WordBits
           b == w * WordBits
           e == UNUMBER * WordBits
<1>5. a \in Nat /\ b \in Nat /\ e \in Nat /\ a <= b /\ b <= e /\ x.first = a /\ x.first + x.length <= b
  BY Zenon, <1>2
<1>6. \A i \in 1..n : maps[i].first + maps[i].length <= a
  BY Zenon, <1>3
<1> HIDE DEF a, b, e, s, n
<1>7. ASSUME NEW i \in 1..(n + 1)
      PROVE  s[i].length <= Pages(rng[i]) /\ s[i].first + s[i].length <= b /\ s[i].first + s[i].length <= e
  <2>1. CASE i = n + 1
    BY <2>1, <1>1, <1>4, <1>5 DEF n
  <2>2. CASE i # n + 1
    <3>1. i \in 1..n /\ s[i] = maps[i]
      BY <2>2, <1>0, <1>1
    <3> DEFINE g == maps[i].first + maps[i].length
    <3>2. g \in Nat /\ maps[i].length <= Pages(rng[i])
      BY <3>1, <1>3
    <3>3. g <= a
      BY Zenon, <3>1, <1>6
    <3> HIDE DEF g
    <3>4. g <= b /\ g <= e
      BY <3>2, <3>3, <1>5
    <3> QED BY Zenon, <3>1, <3>2, <3>4 DEF g
  <2> QED BY Zenon, <2>1, <2>2
<1>8. ASSUME NEW i \in 1..(n + 1), NEW j \in 1..(n + 1), i < j
      PROVE  s[i].first + s[i].length <= s[j].first
  <2>1. i \in 1..n /\ s[i] = maps[i]
    BY <1>0, <1>1, <1>8
  <2>2. CASE j = n + 1
    BY Zenon, <2>1, <2>2, <1>1, <1>5, <1>6
  <2>3. CASE j # n + 1
    <3>1. j \in 1..n /\ s[j] = maps[j]
      BY SMTT(30), <2>3, <1>0, <1>1
    <3> QED BY Zenon, <2>1, <3>1, <1>3, <1>8
  <2> QED BY Zenon, <2>2, <2>3
<1> QED BY Zenon, <1>1, <1>7, <1>8 DEF a, b, e, s, n

\* One pass of the loop of vm_phys_bm_bootinit.
LEMMA BootRangeInv ==
  ASSUME BootInv, BootRange
  PROVE  BootInv'
<1> DEFINE n == Len(maps)
           i == n + 1
           m == Pages(rng[i])
           j == Granted(m)
           t == rng[i].begin + j * WordBits
           x == [first |-> words * WordBits, length |-> Length(j, m)]
<1>0. /\ rng \in RangeLists /\ rng' = rng /\ maps \in Seq(MapType) /\ n \in Nat /\ words \in 0..UNUMBER
      /\ boot = "running" /\ i <= Len(rng) /\ UNUMBER \in Nat
      /\ words < UNUMBER /\ \A k \in 1..n : maps[k].length = Pages(rng[k])
  BY BitmapSize DEF BootInv, BootRange
<1>1. /\ Len(rng) \in Nat /\ i \in 1..Len(rng) /\ m \in Nat
      /\ rng[i].begin \in Nat /\ rng[i].end \in Nat /\ m = rng[i].end - rng[i].begin
  BY <1>0, RangeFacts DEF Pages
<1>2. CASE n >= NNUMBER
  <2>1. boot' = "-1" /\ Pi' = i /\ Pt' = rng[i].begin /\ maps' = maps /\ words' = words
    BY Zenon, <1>2 DEF BootRange
  <2>2. BootReport'
    BY <1>0, <1>1, <2>1 DEF BootReport
  <2> QED BY <1>0, <1>1, <2>1, <2>2 DEF BootInv, BitmapsDisjoint
<1>3. CASE ~(n >= NNUMBER)
  <2>1. /\ maps' = Append(maps, x) /\ words' = words + j
        /\ IF words + j >= UNUMBER
           THEN /\ Pi' = i /\ Pt' = t
                /\ boot' = IF t >= rng[i].end /\ i >= Len(rng) THEN "0" ELSE "-1"
           ELSE UNCHANGED <<boot, Pi, Pt>>
    BY Zenon, <1>3 DEF BootRange, Advance, FullyMapped
  <2> DEFINE z == j * WordBits
  <2>2. /\ j \in Nat /\ words + j <= UNUMBER /\ z \in Nat
        /\ x.length \in Nat /\ x.length <= m /\ x.length <= z /\ x.length = Least(m, z)
        /\ words * WordBits + z = (words + j) * WordBits /\ words * WordBits \in Nat
        /\ x.first = words * WordBits
        /\ words + j < UNUMBER => x.length = m
        /\ z >= m => x.length = m
    BY Zenon, <1>0, <1>1, GrantedFacts
  <2>3. x \in MapType /\ x.first + x.length <= (words + j) * WordBits
    BY <2>2 DEF MapType
  <2>t. t = rng[i].begin + z
    BY Zenon
  <2> HIDE DEF x, j, m, t, z
  <2>4. /\ maps' \in Seq(MapType) /\ Len(maps') = i /\ maps'[i] = x
        /\ \A k \in 1..n : maps'[k] = maps[k]
        /\ \A k \in 1..i :
             /\ maps'[k].length <= Pages(rng[k])
             /\ maps'[k].first + maps'[k].length <= (words + j) * WordBits
             /\ maps'[k].first + maps'[k].length <= UNUMBER * WordBits
             /\ \A l \in 1..i : k < l => maps'[k].first + maps'[k].length <= maps'[l].first
    <3>1. words + j \in 0..UNUMBER /\ words <= words + j
      BY <1>0, <2>2
    <3> QED BY Zenon, <1>0, <2>1, <2>2, <2>3, <3>1, AppendMap DEF m
  <2>5. \A k \in 1..n : maps'[k].length = Pages(rng[k])
    BY Zenon, <1>0, <2>4
  <2>6. BitmapsDisjoint'
    BY Zenon, <1>0, <2>4 DEF BitmapsDisjoint
  <2>7. boot' \in {"running", "0", "-1"} /\ Pi' \in Nat /\ Pt' \in Nat
    <3>1. Pi \in Nat /\ Pt \in Nat /\ i \in Nat /\ t \in Nat
      BY SMTT(30), <1>0, <1>1, <2>2, <2>t DEF BootInv
    <3> QED BY Zenon, <3>1, <1>0, <2>1
  <2>8. boot' = "running" => words' < UNUMBER /\ \A k \in 1..i : maps'[k].length = Pages(rng[k])
    BY SMTT(30), <1>0, <2>1, <2>2, <2>4, <2>5 DEF m
  <2>9. BootReport'
    <3>1. boot' = "0" => /\ i = Len(rng) /\ \A k \in 1..i : maps'[k].length = Pages(rng[k])
      <4>1. SUFFICES ASSUME boot' = "0" PROVE i = Len(rng) /\ x.length = Pages(rng[i])
        BY <2>4, <2>5, <1>0
      <4>2. t >= rng[i].end /\ i >= Len(rng)
        BY Zenon, <4>1, <2>1, <1>0
      <4>3. z >= m
        BY SMTT(30), <4>2, <2>t, <2>2, <1>1
      <4>4. x.length = m
        BY Zenon, <4>3, <2>2
      <4>5. i = Len(rng)
        BY <4>2, <1>1
      <4> QED BY Zenon, <4>4, <4>5 DEF m
    <3>2. boot' = "-1" => /\ Pi' = i /\ Pt' = rng[i].begin + z /\ x.length = Least(Pages(rng[i]), Pt' - rng[i].begin)
      <4>1. SUFFICES ASSUME boot' = "-1" PROVE Pi' = i /\ Pt' = rng[i].begin + z /\ Pt' - rng[i].begin = z
        BY Zenon, <2>2 DEF m
      <4> QED BY SMTT(30), <4>1, <1>0, <1>1, <2>1, <2>2, <2>t
    <3>3. boot' = "0" => /\ Len(maps') = Len(rng') /\ \A k \in 1..Len(maps') : maps'[k].length = Pages(rng'[k])
      BY Zenon, <1>0, <2>4, <3>1
    <3>4. ASSUME boot' = "-1"
          PROVE  /\ Pi' \in 1..Len(rng') /\ Len(maps') = Pi' /\ Len(maps') # Pi' - 1
                 /\ \A k \in 1..(Pi' - 1) : maps'[k].length = Pages(rng'[k])
                 /\ maps'[Pi'].length = Least(Pages(rng'[Pi']), Pt' - rng'[Pi'].begin)
      <4>1. Pi' = i /\ Pi' - 1 = n /\ Pi' # Pi' - 1
        BY <3>2, <3>4, <1>0
      <4> QED BY Zenon, <4>1, <3>2, <3>4, <1>0, <1>1, <2>4, <2>5
    <3> QED BY Zenon, <3>3, <3>4 DEF BootReport
  <2>10. words' \in 0..UNUMBER
    BY <1>0, <2>1, <2>2
  <2>11. \A k \in 1..Len(maps') : maps'[k].first + maps'[k].length <= words' * WordBits
    BY Zenon, <2>1, <2>4
  <2> QED BY Zenon, <1>0, <2>4, <2>6, <2>7, <2>8, <2>9, <2>10, <2>11 DEF BootInv
<1> QED BY Zenon, <1>2, <1>3

\* What the boot variables determine stays while they do.
LEMMA BootKept ==
  ASSUME BootInv, UNCHANGED bootVars
  PROVE  BootInv'
BY Zenon DEF BootInv, BitmapsDisjoint, BootReport, bootVars

\* The callers are idle and own nothing while the boot function runs.
LEMMA BootIInv ==
  ASSUME PhysInv, BootRange \/ BootReturn
  PROVE  PhysInv'
<1>0. BootInv /\ CallInv /\ boot = "running"
  BY Zenon DEF PhysInv, BootRange, BootReturn
<1>1. BootInv'
  <2>1. CASE BootRange
    BY Zenon, <1>0, <2>1, BootRangeInv
  <2>2. CASE BootReturn
    <3>1. /\ rng' = rng /\ maps' = maps /\ words' = words /\ Pi' = Pi /\ Pt' = Pt /\ boot' = "0"
          /\ Len(maps) = Len(rng)
      BY Zenon, <2>2 DEF BootReturn
    <3> QED BY Zenon, <1>0, <3>1 DEF BootInv, BitmapsDisjoint, BootReport
  <2> QED BY Zenon, <2>1, <2>2
<1>2. CallInv'
  <2>1. UNCHANGED callVars /\ used' \subseteq used
    <3>1. CASE BootRange
      BY Zenon, <3>1 DEF BootRange
    <3>2. CASE BootReturn
      BY Zenon, <3>2 DEF BootReturn
    <3> QED BY Zenon, <3>1, <3>2
  <2>2. \A c \in Callers : pc[c] = "idle" /\ owned[c] = {}
    BY Zenon, <1>0 DEF CallInv
  <2>3. OwnedOnce'
    BY Zenon, <2>1, <2>2 DEF OwnedOnce, callVars
  <2>4. \A c \in Callers : pc'[c] = "idle" /\ owned'[c] = {}
    BY Zenon, <2>1, <2>2 DEF callVars
  <2> QED BY Zenon, <1>0, <2>1, <2>3, <2>4 DEF CallInv, callVars
<1> QED BY Zenon, <1>1, <1>2 DEF PhysInv

-----------------------------------------------------------------------------
\* vm_phys_alloc and vm_phys_free.

\* A page lies in one range only, so two maps that hold it are the same.
LEMMA OneMap ==
  ASSUME BootInv, NEW i \in 1..Len(maps), NEW j \in 1..Len(maps), NEW p \in Nat,
         p - rng[i].begin \in 0..(maps[i].length - 1), p - rng[j].begin \in 0..(maps[j].length - 1)
  PROVE  i = j
<1>0. /\ rng \in RangeLists /\ maps \in Seq(MapType) /\ Len(maps) <= Len(rng)
      /\ maps[i].length <= Pages(rng[i]) /\ maps[j].length <= Pages(rng[j])
  BY Zenon DEF BootInv, BitmapsDisjoint
<1>1. Len(rng) \in Nat /\ Len(maps) \in Nat
  BY <1>0, RangeFacts
<1>2. i \in 1..Len(rng) /\ j \in 1..Len(rng)
  BY <1>0, <1>1
<1>3. maps[i] \in MapType /\ maps[j] \in MapType
  BY <1>0
<1>4. maps[i].length \in Nat /\ maps[j].length \in Nat
  BY Zenon, <1>3 DEF MapType
<1>5. /\ rng[i].begin \in Nat /\ rng[i].end \in Nat /\ rng[j].begin \in Nat /\ rng[j].end \in Nat
      /\ i # j => rng[i].end <= rng[j].begin \/ rng[j].end <= rng[i].begin
  BY Zenon, <1>0, <1>2, RangeFacts
<1>6. PICK b \in Nat, e \in Nat, l \in Nat : b = rng[i].begin /\ e = rng[i].end /\ l = maps[i].length
  BY Zenon, <1>4, <1>5
<1>7. PICK f \in Nat, g \in Nat, h \in Nat : f = rng[j].begin /\ g = rng[j].end /\ h = maps[j].length
  BY Zenon, <1>4, <1>5
<1>8. l <= e - b /\ p - b \in 0..(l - 1) /\ h <= g - f /\ p - f \in 0..(h - 1)
  BY Zenon, <1>0, <1>6, <1>7 DEF Pages
<1>9. ~(e <= f \/ g <= b)
  BY <1>8
<1> QED BY Zenon, <1>5, <1>6, <1>7, <1>9

\* The steps that touch neither the bitmap nor the pages owned, except that
\* a page which is to be freed is no longer owned.
LEMMA ControlIInv ==
  ASSUME PhysInv, NEW c \in Callers,
         \/ CallAlloc(c) \/ \E p \in owned[c] : CallFree(c, p)
         \/ Lock(c) \/ SearchMiss(c)
  PROVE  PhysInv'
<1>0. BootInv /\ CallInv
  BY Zenon DEF PhysInv
<1>1. UNCHANGED bootVars /\ used' = used /\ found' = found
  BY Zenon DEF CallAlloc, CallFree, Lock, SearchMiss
<1>2. BootInv'
  BY Zenon, <1>0, <1>1, BootKept
<1>3. OwnedOnce'
  <2>1. owned \in [Callers -> SUBSET Nat] /\ \A d \in Callers : owned'[d] \subseteq owned[d]
    BY <1>0 DEF CallInv, CallAlloc, CallFree, Lock, SearchMiss
  <2> QED BY <1>0, <1>1, <2>1 DEF CallInv, OwnedOnce, Bit, bootVars
<1>4. \A d \in Callers : d # None
  BY Zenon, BitmapSize
<1>5. CASE CallAlloc(c)
  BY Zenon, <1>0, <1>1, <1>2, <1>3, <1>5 DEF CallAlloc, Goto, Up, CallInv, PhysInv, Bit, bootVars
<1>6. ASSUME NEW p \in owned[c], CallFree(c, p) PROVE PhysInv'
  <2>1. p \in Nat
    BY Zenon, <1>0 DEF CallInv
  <2> QED BY Zenon, <1>0, <1>1, <1>2, <1>3, <1>6, <2>1 DEF CallFree, Goto, Up, CallInv, PhysInv,
             Bit, bootVars
<1>7. CASE Lock(c)
  BY <1>0, <1>1, <1>2, <1>3, <1>4, <1>7 DEF Lock, Goto, CallInv, PhysInv, Bit, bootVars
<1>8. CASE SearchMiss(c)
  BY <1>0, <1>1, <1>2, <1>3, <1>4, <1>8 DEF SearchMiss, Goto, CallInv, PhysInv, Bit, bootVars
<1> QED BY Zenon, <1>5, <1>6, <1>7, <1>8

\* A free page is found while the lock is held.
LEMMA SearchHitIInv ==
  ASSUME PhysInv, NEW c \in Callers, NEW i \in 1..Len(maps), NEW k \in Free(i), SearchHit(c, i, k)
  PROVE  PhysInv'
<1>0. BootInv /\ CallInv /\ UNCHANGED bootVars
  BY Zenon DEF PhysInv, SearchHit
<1>1. BootInv'
  BY Zenon, <1>0, BootKept
<1>2. i \in Nat /\ k \in Nat /\ k \in 0..(maps[i].length - 1) /\ Bit(i, k) \notin used
  BY DEF Free
<1>3. /\ found' = [found EXCEPT ![c] = <<i, k>>] /\ pc' = [pc EXCEPT ![c] = "mark"] /\ pc[c] = "search"
      /\ used' = used /\ lock' = lock /\ arg' = arg /\ owned' = owned /\ maps' = maps /\ rng' = rng /\ boot' = boot
  BY Zenon DEF SearchHit, Goto, bootVars
<1>5. OwnedOnce'
  BY Zenon, <1>0, <1>3 DEF CallInv, OwnedOnce, Bit
<1>6. /\ found' \in [Callers -> (Nat \X Nat) \cup {None}]
      /\ pc' \in [Callers -> {"idle", "alloc", "free", "search", "mark", "clear"}]
  BY Zenon, <1>0, <1>2, <1>3 DEF CallInv
<1>7. ASSUME NEW d \in Callers, pc'[d] = "mark"
      PROVE  /\ found'[d][1] \in 1..Len(maps') /\ found'[d][2] \in 0..(maps'[found'[d][1]].length - 1)
             /\ maps'[found'[d][1]].first + found'[d][2] \notin used'
  <2>1. CASE d = c
    <3>1. found'[d][1] = i /\ found'[d][2] = k
      BY Zenon, <2>1, <1>0, <1>3 DEF CallInv
    <3> QED BY Zenon, <3>1, <1>2, <1>3 DEF Bit
  <2>2. CASE d # c
    BY Zenon, <2>2, <1>0, <1>3, <1>7 DEF CallInv, Bit
  <2> QED BY Zenon, <2>1, <2>2
<1>8. /\ \A d \in Callers : pc'[d] \in {"search", "mark", "clear"} <=> lock' = d
      /\ boot' = "running" => \A d \in Callers : pc'[d] = "idle" /\ owned'[d] = {}
      /\ \A d \in Callers : pc'[d] \in {"free", "clear"} => arg'[d] \in Nat
  BY Zenon, <1>0, <1>3 DEF CallInv
<1> QED BY Zenon, <1>0, <1>1, <1>3, <1>5, <1>6, <1>7, <1>8 DEF PhysInv, CallInv, Bit

\* The page found is owned by nobody: its bit would be set.
LEMMA MarkIInv ==
  ASSUME PhysInv, NEW c \in Callers, Mark(c)
  PROVE  PhysInv'
<1> DEFINE i == found[c][1]
           k == found[c][2]
<1>0. BootInv /\ CallInv /\ UNCHANGED bootVars
  BY Zenon DEF PhysInv, Mark
<1>1. BootInv'
  BY Zenon, <1>0, BootKept
<1>2. /\ i \in 1..Len(maps) /\ k \in 0..(maps[i].length - 1) /\ Bit(i, k) \notin used
  BY Zenon, <1>0 DEF CallInv, Mark
<1>3. /\ used' = used \cup {Bit(i, k)} /\ owned' = [owned EXCEPT ![c] = @ \cup {Page(i, k)}]
      /\ found' = [found EXCEPT ![c] = None] /\ lock' = None /\ pc' = [pc EXCEPT ![c] = "idle"]
      /\ pc[c] = "mark" /\ arg' = arg /\ maps' = maps /\ rng' = rng /\ boot' = boot
  BY Zenon DEF Mark, Goto, bootVars
<1> HIDE DEF i, k
<1>4. PICK b \in Nat, f \in Nat, l \in Nat :
        b = rng[i].begin /\ f = maps[i].first /\ l = maps[i].length /\ f + l <= UNUMBER * WordBits
  <2>1. rng \in RangeLists /\ maps \in Seq(MapType) /\ Len(maps) <= Len(rng)
    BY Zenon, <1>0 DEF BootInv, BitmapsDisjoint
  <2>2. i \in 1..Len(rng)
    BY <2>1, <1>2, RangeFacts
  <2>3. rng[i].begin \in Nat
    BY Zenon, <2>1, <2>2, RangeFacts
  <2>4. maps[i] \in MapType
    BY <2>1, <1>2
  <2> QED BY <2>3, <2>4, <1>0, <1>2 DEF MapType, BootInv, BitmapsDisjoint
<1>5. k \in 0..(l - 1) /\ Bit(i, k) = f + k /\ Page(i, k) = b + k
  BY Zenon, <1>2, <1>4 DEF Bit, Page
<1>6. Bit(i, k) \in 0..(UNUMBER * WordBits - 1) /\ Page(i, k) \in Nat /\ Page(i, k) - rng[i].begin = k
  <2>1. UNUMBER * WordBits \in Nat
    BY BitmapSize
  <2> DEFINE z == UNUMBER * WordBits
  <2> HIDE DEF z
  <2>2. z \in Nat /\ f + l <= z
    BY Zenon, <2>1, <1>4 DEF z
  <2>3. f + k \in 0..(z - 1) /\ b + k \in Nat /\ b + k - b = k
    BY <2>2, <1>5
  <2> QED BY <2>3, <1>4, <1>5 DEF z
<1>7. \A d \in Callers : Page(i, k) \notin owned[d]
  <2>1. SUFFICES ASSUME NEW d \in Callers, Page(i, k) \in owned[d] PROVE FALSE
    BY Zenon
  <2>2. PICK j \in 1..Len(maps) : /\ Page(i, k) - rng[j].begin \in 0..(maps[j].length - 1)
                                  /\ Bit(j, Page(i, k) - rng[j].begin) \in used
    BY Zenon, <2>1, <1>0 DEF CallInv, OwnedOnce
  <2>3. i = j
    BY Zenon, <2>2, <1>0, <1>2, <1>6, OneMap
  <2> QED BY Zenon, <2>2, <2>3, <1>2, <1>6
<1>8. owned \in [Callers -> SUBSET Nat] /\ pc \in [Callers -> {"idle", "alloc", "free", "search", "mark", "clear"}]
      /\ found \in [Callers -> (Nat \X Nat) \cup {None}] /\ lock = c
  BY Zenon, <1>0, <1>3 DEF CallInv
<1>9. /\ owned'[c] = owned[c] \cup {Page(i, k)} /\ \A d \in Callers : d # c => owned'[d] = owned[d]
      /\ owned' \in [Callers -> SUBSET Nat]
  BY Zenon, <1>3, <1>6, <1>8
<1>10. OwnedOnce'
  <2>1. \A d, e \in Callers : d # e => owned'[d] \cap owned'[e] = {}
    BY <1>0, <1>7, <1>9 DEF CallInv, OwnedOnce
  <2>2. ASSUME NEW d \in Callers, NEW p \in owned'[d]
        PROVE  \E j \in 1..Len(maps) : /\ p - rng[j].begin \in 0..(maps[j].length - 1)
                                        /\ Bit(j, p - rng[j].begin) \in used'
    <3>1. CASE p = Page(i, k)
      BY Zenon, <3>1, <1>2, <1>3, <1>6
    <3>2. CASE p # Page(i, k)
      <4>1. p \in owned[d]
        BY Zenon, <3>2, <1>9, <2>2
      <4> QED BY Zenon, <4>1, <1>0, <1>3 DEF CallInv, OwnedOnce
    <3> QED BY Zenon, <3>1, <3>2
  <2> QED BY Zenon, <2>1, <2>2, <1>3 DEF OwnedOnce, Bit
<1>11. \A d \in Callers : d # c => pc'[d] = pc[d] /\ pc[d] \notin {"search", "mark", "clear"}
  BY Zenon, <1>0, <1>3, <1>8 DEF CallInv
<1>12. pc'[c] = "idle" /\ pc' \in [Callers -> {"idle", "alloc", "free", "search", "mark", "clear"}]
       /\ found' \in [Callers -> (Nat \X Nat) \cup {None}]
  BY Zenon, <1>3, <1>8
<1>13. boot # "running" /\ \A d \in Callers : d # None
  BY Zenon, <1>0, <1>3, BitmapSize DEF CallInv
<1>14. used' \subseteq 0..(UNUMBER * WordBits - 1)
  BY Zenon, <1>0, <1>3, <1>6 DEF CallInv
<1> QED BY <1>0, <1>1, <1>3, <1>9, <1>10, <1>11, <1>12, <1>13, <1>14 DEF PhysInv, CallInv

\* No page of a range passes the test of vm_phys_free, so no bit is cleared.
LEMMA ClearIInv ==
  ASSUME PhysInv, NEW c \in Callers, Clear(c)
  PROVE  PhysInv'
<1>0. BootInv /\ CallInv /\ UNCHANGED bootVars
  BY Zenon DEF PhysInv, Clear
<1>1. BootInv'
  BY Zenon, <1>0, BootKept
<1>2. arg[c] \in Nat
  BY Zenon, <1>0 DEF CallInv, Clear
<1>3. \A i \in 1..Len(maps) : Skipped(i, arg[c])
  <2>1. SUFFICES ASSUME NEW i \in 1..Len(maps) PROVE Skipped(i, arg[c])
    BY Zenon
  <2>2. rng \in RangeLists /\ Len(maps) <= Len(rng) /\ Len(maps) \in Nat
    BY <1>0 DEF BootInv, BitmapsDisjoint
  <2>3. i \in 1..Len(rng)
    BY <2>2, RangeFacts
  <2>4. PICK b \in Nat, e \in Nat : b = rng[i].begin /\ e = rng[i].end /\ b <= e
    BY Zenon, <2>2, <2>3, RangeFacts
  <2>5. b < arg[c] \/ e >= arg[c]
    BY <2>4, <1>2
  <2> QED BY Zenon, <2>4, <2>5 DEF Skipped
<1>4. /\ used' = used /\ arg' = [arg EXCEPT ![c] = None] /\ lock' = None /\ pc' = [pc EXCEPT ![c] = "idle"]
      /\ pc[c] = "clear" /\ found' = found /\ owned' = owned /\ maps' = maps /\ rng' = rng /\ boot' = boot
  <2> DEFINE hits == {i \in 1..Len(maps) : ~ Skipped(i, arg[c])}
  <2>1. hits = {}
    BY Zenon, <1>3
  <2>2. {Bit(i, arg[c] - rng[i].begin) : i \in {h \in hits : \A g \in hits : h <= g}} = {}
    BY Zenon, <2>1
  <2> QED BY Zenon, <2>2 DEF Clear, Goto, bootVars
<1>5. OwnedOnce'
  BY Zenon, <1>0, <1>4 DEF CallInv, OwnedOnce, Bit
<1>6. \A d \in Callers : d # None
  BY Zenon, BitmapSize
<1>7. \A d \in Callers : d # c => pc'[d] = pc[d] /\ arg'[d] = arg[d] /\ pc[d] \notin {"search", "mark", "clear"}
  BY Zenon, <1>0, <1>4 DEF CallInv
<1>8. /\ pc'[c] = "idle" /\ pc' \in [Callers -> {"idle", "alloc", "free", "search", "mark", "clear"}]
      /\ arg' \in [Callers -> Nat \cup {None}]
  BY Zenon, <1>0, <1>4 DEF CallInv
<1> QED BY Zenon, <1>0, <1>1, <1>4, <1>5, <1>6, <1>7, <1>8 DEF PhysInv, CallInv

-----------------------------------------------------------------------------
\* The theorems.

\* Nothing is divided and nothing owned before the boot function runs.
LEMMA PhysInitInv ==
  ASSUME PhysInit
  PROVE  PhysInv
<1>1. BootInv
  <2>1. Len(maps) = 0 /\ maps \in Seq(MapType) /\ Len(rng) \in Nat
    BY RangeFacts DEF PhysInit
  <2> QED BY <2>1, BitmapSize DEF PhysInit, BootInv, BitmapsDisjoint, BootReport
<1>2. CallInv
  BY Zenon, BitmapSize DEF PhysInit, CallInv, OwnedOnce
<1> QED BY Zenon, <1>1, <1>2 DEF PhysInv

\* Every step of the allocator keeps the invariant.
LEMMA PhysNextInv ==
  ASSUME PhysInv, [PhysNext]_physVars
  PROVE  PhysInv'
<1>1. CASE BootRange \/ BootReturn
  BY Zenon, <1>1, BootIInv
<1>2. ASSUME NEW c \in Callers, CallAlloc(c) \/ (\E p \in owned[c] : CallFree(c, p)) \/ Lock(c)
      PROVE  PhysInv'
  BY Zenon, <1>2, ControlIInv
<1>3. ASSUME NEW c \in Callers, Step(c) PROVE PhysInv'
  <2>1. CASE \E i \in 1..Len(maps) : \E k \in Free(i) : SearchHit(c, i, k)
    BY Zenon, <2>1, SearchHitIInv
  <2>2. CASE Mark(c)
    BY Zenon, <2>2, MarkIInv
  <2>3. CASE SearchMiss(c)
    BY Zenon, <2>3, ControlIInv
  <2>4. CASE Clear(c)
    BY Zenon, <2>4, ClearIInv
  <2> QED BY Zenon, <1>3, <2>1, <2>2, <2>3, <2>4 DEF Step
<1>4. CASE UNCHANGED physVars
  <2>1. BootInv'
    BY Zenon, <1>4, BootKept DEF physVars, bootVars, PhysInv
  <2>2. CallInv'
    BY <1>4 DEF physVars, PhysInv, CallInv, OwnedOnce, Bit
  <2> QED BY Zenon, <2>1, <2>2 DEF PhysInv
<1> QED BY Zenon, <1>1, <1>2, <1>3, <1>4 DEF PhysNext

\* The division of the bitmap and the bookkeeping of the callers hold in
\* every state of vm_phys_bm_bootinit, vm_phys_alloc and vm_phys_free.
THEOREM PhysInvariance == PhysSpec => []PhysInv
BY PhysInitInv, PhysNextInv, PTL DEF PhysSpec

\* vm_phys_bm_bootinit never gives a word of bitmap_block to two ranges, nor
\* one behind its end, and bitmap_search cannot leave the range of a map.
THEOREM BitmapDivided == PhysSpec => []BitmapsDisjoint
<1>1. PhysInv => BitmapsDisjoint
  BY Zenon DEF PhysInv, BootInv
<1> QED BY <1>1, PhysInvariance, PTL

\* The result of vm_phys_bm_bootinit and its out parameters say exactly which
\* pages the maps cover.
THEOREM ReportTrue == PhysSpec => []BootReport
<1>1. PhysInv => BootReport
  BY Zenon DEF PhysInv, BootInv
<1> QED BY <1>1, PhysInvariance, PTL

\* However many callers run vm_phys_alloc and vm_phys_free at once, no page
\* is handed out twice.
THEOREM OneOwner == PhysSpec => []OwnedOnce
<1>1. PhysInv => OwnedOnce
  BY Zenon DEF PhysInv, CallInv
<1> QED BY <1>1, PhysInvariance, PTL

\* bitmap_current and the marked bits stay inside bitmap_block.
THEOREM PhysTypeCorrect == PhysSpec => []PhysTypeOK
<1>1. PhysInv => PhysTypeOK
  BY Zenon, RangeListsOK DEF PhysInv, BootInv, CallInv, PhysTypeOK, MapType
<1> QED BY <1>1, PhysInvariance, PTL

-----------------------------------------------------------------------------
(***************************************************************************)
(* Regions never overlap, and a page fault keeps its address, stays in the *)
(* protection domain and finds the page that is there: proofs for any      *)
(* mappers, objects, sizes, domain, page size and CPUs.                    *)
(***************************************************************************)

Region == [obj : Objects, off : Nat]

\* The regions of one mapper of size n: RegionsApart, list by list.
Apart(s, n) ==
  \A i \in 1..Len(s) :
    /\ s[i].off + Size(s[i].obj) <= n
    /\ \A j \in 1..Len(s) : i < j => s[i].off + Size(s[i].obj) <= s[j].off

\* The values of a fault, and of a round in its history.
Round == [m : Mappers, base : Nat, r : Region]

Fault == [pc : {"idle", "loop", "ok", "segfault", "null", "torn"},
          va : Nat, ptr : Nat, size : Nat, off : Nat,
          obj : Mappers \cup {Target[o] : o \in Objects},
          type : {"mapper"} \cup {Type[o] : o \in Objects},
          path : Seq(Round)]

\* FaultInWindow for one fault.
InWindow(f) ==
  f.pc = "loop" => /\ f.ptr < f.size
                   /\ f.off + f.ptr = f.va
                   /\ PdBegin <= f.off /\ f.off + f.size <= RoundDown(PdEnd) + P

IInv ==
  /\ child \in [Mappers -> Seq(Region)]
  /\ half \in [Mappers -> Nat]
  /\ fault \in [Cpus -> Fault]
  /\ DOMAIN pte = 0..(W \div P - 1)
  /\ \A m \in Mappers : Apart(child[m], RmSize(m))
  /\ \A c \in Cpus : InWindow(fault[c]) /\ (fault[c].type = "mapper" => fault[c].obj \in Mappers)

-----------------------------------------------------------------------------
\* Arithmetic of words that do not wrap around.

\* A number below the modulus is its own remainder.
LEMMA ModSmall ==
  ASSUME NEW a \in Nat, NEW w \in Nat, a < w
  PROVE  a % w = a
OBVIOUS

\* Rounding down to a page: at most a page is lost.
LEMMA RoundDownBounds ==
  ASSUME NEW x \in Nat
  PROVE  RoundDown(x) \in Nat /\ RoundDown(x) <= x /\ x < RoundDown(x) + P
BY ConstantsOK DEF RoundDown

\* A product of a positive number is no smaller than it, or not positive.
LEMMA ProductBound ==
  ASSUME NEW p \in Nat \ {0}, NEW d \in Int
  PROVE  /\ d >= 1 => p * d >= p
         /\ d <= -1 => p * d <= -p
OBVIOUS

\* Quotient and remainder.
LEMMA DivMod ==
  ASSUME NEW x \in Nat, NEW p \in Nat \ {0}
  PROVE  x \div p \in Nat /\ x % p \in 0..(p - 1) /\ p * (x \div p) = x - (x % p)
<1>1. x \div p \in Int /\ x % p \in 0..(p - 1) /\ p * (x \div p) = x - (x % p)
  BY Z3
<1>2. x \div p <= -1 => p * (x \div p) <= -p
  BY Zenon, <1>1, ProductBound
<1> QED BY <1>1, <1>2

\* Two remainders that differ by a multiple are the same.
LEMMA RemainderUnique ==
  ASSUME NEW p \in Nat \ {0}, NEW d \in Int, NEW k \in 0..(p - 1), NEW r \in 0..(p - 1),
         p * d = k - r
  PROVE  k = r
BY ProductBound

\* The window ends where the last page of the domain ends, at the latest.
LEMMA WindowInDomain ==
  /\ Window \in Nat
  /\ PdBegin + Window <= RoundDown(PdEnd) + P
<1> DEFINE x == PdEnd - PdBegin + P - 1
           e == PdEnd \div P
           b == PdBegin \div P
           r == PdEnd % P
<1>0. /\ P \in Nat \ {0} /\ W \in Nat /\ PdBegin \in Nat /\ PdEnd \in Nat
      /\ PdBegin <= PdEnd /\ PdEnd + P < W /\ PdBegin % P = 0
  BY Zenon, ConstantsOK
<1>1. x \in Nat /\ x % W = x
  BY <1>0, ModSmall
<1>2. /\ e \in Nat /\ b \in Nat /\ r \in 0..(P - 1) /\ P * e = PdEnd - r /\ P * b = PdBegin
      /\ x \div P \in Nat /\ x % P \in 0..(P - 1) /\ P * (x \div P) = x - (x % P)
  <2>1. e \in Nat /\ r \in 0..(P - 1) /\ P * e = PdEnd - r
    BY Zenon, <1>0, DivMod
  <2>2. b \in Nat /\ P * b = PdBegin - (PdBegin % P)
    BY Zenon, <1>0, DivMod
  <2>3. x \div P \in Nat /\ x % P \in 0..(P - 1) /\ P * (x \div P) = x - (x % P)
    <3> HIDE DEF x
    <3> QED BY Zenon, <1>0, <1>1, DivMod
  <2> QED BY <1>0, <2>1, <2>2, <2>3
<1>3. x % P = IF r = 0 THEN P - 1 ELSE r - 1
  <2> DEFINE y == x \div P
             k == x % P
  <2>1. CASE r = 0
    <3> DEFINE d == e - b - y
    <3>1. d \in Int /\ P * d = P * e - P * b - P * y
      BY <1>0, <1>2
    <3>2. P * d = k - (P - 1)
      BY <3>1, <1>0, <1>2, <2>1
    <3>3. P - 1 \in 0..(P - 1) /\ k \in 0..(P - 1)
      BY <1>0, <1>2
    <3> HIDE DEF d, k
    <3>4. k = P - 1
      BY <3>1, <3>2, <3>3, <1>0, RemainderUnique
    <3> QED BY Zenon, <3>4, <2>1 DEF k
  <2>2. CASE r # 0
    <3> DEFINE d == e - b + 1 - y
    <3>1. d \in Int /\ P * d = P * e - P * b + P - P * y
      BY <1>0, <1>2
    <3>2. P * d = k - (r - 1)
      BY <3>1, <1>0, <1>2
    <3>3. r - 1 \in 0..(P - 1) /\ k \in 0..(P - 1)
      BY <1>0, <1>2, <2>2
    <3> HIDE DEF d, k, r
    <3>4. k = r - 1
      BY <3>1, <3>2, <3>3, <1>0, RemainderUnique
    <3> QED BY Zenon, <3>4, <2>2 DEF k
  <2> QED BY Zenon, <2>1, <2>2
<1>4. Window = x - (x % P) /\ RoundDown(PdEnd) = PdEnd - r
  <2>1. Window = RoundDown(x % W)
    BY Zenon DEF Window
  <2>2. RoundDown(x) = x - (x % P) /\ RoundDown(PdEnd) = PdEnd - r
    BY Zenon DEF RoundDown
  <2> HIDE DEF x
  <2> QED BY <1>1, <2>1, <2>2, Zenon
<1> HIDE DEF r
<1> QED BY <1>0, <1>2, <1>3, <1>4

-----------------------------------------------------------------------------
\* rm_insert.

\* Regions of a mapper do not wrap around: End is the plain sum.
LEMMA EndPlain ==
  ASSUME NEW m \in Mappers, NEW s \in Seq(Region), Apart(s, RmSize(m)), NEW i \in 1..Len(s)
  PROVE  /\ s[i].off \in Nat /\ s[i].obj \in Objects /\ Size(s[i].obj) \in Nat \ {0}
         /\ s[i].off + Size(s[i].obj) <= RmSize(m)
         /\ End(s[i]) = s[i].off + Size(s[i].obj)
<1>1. s[i] \in Region
  OBVIOUS
<1>2. s[i].off \in Nat /\ s[i].obj \in Objects
  BY Zenon, <1>1 DEF Region
<1>3. Size(s[i].obj) \in Nat \ {0} /\ RmSize(m) \in Nat /\ RmSize(m) + Size(s[i].obj) < W /\ W \in Nat
  BY Zenon, <1>2, ConstantsOK
<1>4. s[i].off + Size(s[i].obj) <= RmSize(m)
  BY Zenon DEF Apart
<1> DEFINE e == s[i].off + Size(s[i].obj)
<1>5. e \in Nat /\ e < W
  BY SMTT(30), <1>2, <1>3, <1>4
<1>6. e % W = e
  <2> HIDE DEF e
  <2> QED BY Zenon, <1>3, <1>5, ModSmall
<1> QED BY Zenon, <1>2, <1>3, <1>4, <1>6 DEF End

\* The offset of a new region lies behind all regions before it, and its end
\* does not wrap around.
LEMMA BeginPlain ==
  ASSUME NEW m \in Mappers, NEW s \in Seq(Region), Apart(s, RmSize(m)), NEW o \in Objects,
         NEW k \in 1..(Len(s) + 1)
  PROVE  /\ Begin(s, k) \in Nat /\ Begin(s, k) <= RmSize(m)
         /\ (Begin(s, k) + Size(o)) % W = Begin(s, k) + Size(o)
         /\ \A i \in 1..(k - 1) : s[i].off + Size(s[i].obj) <= Begin(s, k)
<1>0. Len(s) \in Nat /\ RmSize(m) \in Nat /\ Size(o) \in Nat /\ RmSize(m) + Size(o) < W /\ W \in Nat
  BY ConstantsOK
<1>1. CASE k = 1
  BY <1>0, <1>1, ModSmall DEF Begin
<1>2. CASE k # 1
  <2>1. k - 1 \in 1..Len(s)
    BY <1>0, <1>2
  <2> DEFINE b == s[k - 1].off + Size(s[k - 1].obj)
  <2>2. Begin(s, k) = b /\ b \in Nat /\ b <= RmSize(m) /\ s[k - 1].off <= b
    <3>1. /\ s[k - 1].off \in Nat /\ Size(s[k - 1].obj) \in Nat
          /\ b <= RmSize(m) /\ End(s[k - 1]) = b
      BY Zenon, <2>1, EndPlain
    <3> QED BY <3>1, <1>2 DEF Begin
  <2>3. ASSUME NEW i \in 1..(k - 1)
        PROVE  s[i].off + Size(s[i].obj) <= b
    <3>0. i \in 1..Len(s)
      BY <1>0, <2>1
    <3>1. i \in 1..Len(s) /\ s[i].off \in Nat /\ Size(s[i].obj) \in Nat /\ s[k - 1].off \in Nat
      BY Zenon, <3>0, <2>1, EndPlain
    <3>2. i # k - 1 => s[i].off + Size(s[i].obj) <= s[k - 1].off
      <4>1. i # k - 1 => i < k - 1
        BY <2>1, <1>0
      <4> QED BY Zenon, <3>0, <2>1, <4>1 DEF Apart
    <3> QED BY SMTT(30), <3>1, <3>2, <2>2
  <2> HIDE DEF b
  <2>4. b + Size(o) \in Nat /\ b + Size(o) < W
    BY <1>0, <2>2
  <2>5. (b + Size(o)) % W = b + Size(o)
    BY Zenon, <1>0, <2>4, ModSmall
  <2> QED BY Zenon, <2>2, <2>3, <2>5
<1> QED BY Zenon, <1>1, <1>2

\* An object put where it fits leaves the regions apart.
LEMMA InsertApart ==
  ASSUME NEW m \in Mappers, NEW s \in Seq(Region), Apart(s, RmSize(m)), NEW o \in Objects,
         NEW k \in 1..(Len(s) + 1),
         k <= Len(s) => (Begin(s, k) + Size(o)) % W <= s[k].off,
         k = Len(s) + 1 => (Begin(s, k) + Size(o)) % W <= RmSize(m)
  PROVE  LET t == InsertAt(s, k, [obj |-> o, off |-> Begin(s, k)])
         IN  t \in Seq(Region) /\ Apart(t, RmSize(m))
<1> DEFINE x == [obj |-> o, off |-> Begin(s, k)]
           t == InsertAt(s, k, x)
           n == Len(s)
           E(y) == y.off + Size(y.obj)
<1>0. n \in Nat /\ RmSize(m) \in Nat /\ Size(o) \in Nat
  BY ConstantsOK
<1>1. x \in Region /\ x.off = Begin(s, k) /\ x.obj = o
  BY Zenon, BeginPlain DEF Region
<1>2. \A i \in 1..n : s[i] \in Region /\ E(s[i]) <= RmSize(m) /\ s[i].off \in Nat /\ E(s[i]) \in Nat
                        /\ s[i].off <= E(s[i])
  BY EndPlain
<1>3. t \in Seq(Region) /\ Len(t) = n + 1
  <2>1. t \in [1..(n + 1) -> Region]
    <3>1. \A i \in 1..(n + 1) : (IF i < k THEN s[i] ELSE IF i = k THEN x ELSE s[i - 1]) \in Region
      BY <1>0, <1>1, <1>2
    <3> HIDE DEF x
    <3> QED BY Zenon, <3>1 DEF InsertAt
  <2> HIDE DEF t
  <2> QED BY <2>1, <1>0
<1>4. \A i \in 1..(n + 1) : t[i] = IF i < k THEN s[i] ELSE IF i = k THEN x ELSE s[i - 1]
  BY Zenon DEF InsertAt
<1>5. /\ x.off \in Nat /\ E(x) = x.off + Size(o) /\ E(x) \in Nat
      /\ \A i \in 1..(k - 1) : E(s[i]) <= x.off
      /\ k <= n => E(x) <= s[k].off
      /\ k = n + 1 => E(x) <= RmSize(m)
  <2>1. Begin(s, k) \in Nat /\ (Begin(s, k) + Size(o)) % W = Begin(s, k) + Size(o)
    BY Zenon, BeginPlain
  <2>2. \A i \in 1..(k - 1) : E(s[i]) <= Begin(s, k)
    BY Zenon, BeginPlain
  <2> QED BY <1>0, <1>1, <2>1, <2>2
<1>6. \A i, j \in 1..n : i < j => E(s[i]) <= s[j].off
  BY Zenon DEF Apart
<1> HIDE DEF x, t
<1>7. E(x) <= RmSize(m) /\ \A i \in k..n : E(x) <= s[i].off
  <2>1. ASSUME NEW i \in k..n PROVE E(x) <= s[i].off
    <3>1. i \in 1..n /\ k \in 1..n
      BY <1>0, <2>1
    <3>2. i # k => s[k].off <= s[i].off
      BY <3>1, <1>2, <1>6, <2>1
    <3> QED BY <3>1, <3>2, <1>5, <1>2
  <2>2. k <= n => E(x) <= s[k].off /\ s[k].off <= RmSize(m)
    BY <1>0, <1>5, <1>2
  <2> HIDE DEF E
  <2> QED BY <2>1, <2>2, <1>0, <1>5, <1>2
<1>8. ASSUME NEW i \in 1..(n + 1) PROVE E(t[i]) <= RmSize(m)
  <2>1. t[i] = x \/ \E j \in 1..n : t[i] = s[j]
    BY SMTT(30), <1>0, <1>4
  <2> HIDE DEF E
  <2> QED BY Zenon, <2>1, <1>2, <1>7
<1>9. ASSUME NEW i \in 1..(n + 1), NEW j \in 1..(n + 1), i < j PROVE E(t[i]) <= t[j].off
  <2> HIDE DEF E
  <2>1. CASE j < k
    <3>1. t[i] = s[i] /\ t[j] = s[j] /\ i \in 1..n /\ j \in 1..n
      BY <2>1, <1>9, <1>0, <1>4
    <3> QED BY Zenon, <3>1, <1>6, <1>9
  <2>2. CASE j = k
    <3>1. t[i] = s[i] /\ t[j] = x /\ i \in 1..(k - 1)
      BY <2>2, <1>9, <1>0, <1>4
    <3> QED BY Zenon, <3>1, <1>5
  <2>3. CASE i = k
    <3>1. t[i] = x /\ t[j] = s[j - 1] /\ j - 1 \in k..n
      BY <2>3, <1>9, <1>0, <1>4
    <3> QED BY Zenon, <3>1, <1>7
  <2>4. CASE i < k /\ k < j
    <3>1. t[i] = s[i] /\ t[j] = s[j - 1] /\ i \in 1..n /\ j - 1 \in 1..n /\ i <= k - 1 /\ k <= j - 1
      BY <2>4, <1>9, <1>0, <1>4
    <3> QED BY <3>1, <1>0, <1>6
  <2>5. CASE k < i
    <3>1. t[i] = s[i - 1] /\ t[j] = s[j - 1] /\ i - 1 \in 1..n /\ j - 1 \in 1..n /\ i - 1 < j - 1
      BY <2>5, <1>9, <1>0, <1>4
    <3> QED BY Zenon, <3>1, <1>6
  <2> QED BY <2>1, <2>2, <2>3, <2>4, <2>5, <1>0
<1>10. Apart(t, RmSize(m))
  BY Zenon, <1>3, <1>8, <1>9 DEF Apart
<1> QED BY Zenon, <1>3, <1>10 DEF t, x

-----------------------------------------------------------------------------
\* rm_pagefault.

\* A lookup takes a fault into a region that holds its address: nothing wraps
\* around, the window shrinks, is not empty, and the address stays the same.
LEMMA ShrinkInWindow ==
  ASSUME NEW m \in Mappers, NEW s \in Seq(Region), Apart(s, RmSize(m)), NEW i \in 1..Len(s),
         NEW f \in Fault, f.pc = "loop", f.obj \in Mappers, InWindow(f),
         f.ptr < s[i].off \/ f.ptr < End(s[i]), s[i].off <= f.ptr
  PROVE  /\ Shrink(f, s[i]) \in Fault /\ InWindow(Shrink(f, s[i]))
         /\ Shrink(f, s[i]).off = f.off + s[i].off
         /\ Shrink(f, s[i]).size = IF f.size - s[i].off > Size(s[i].obj) THEN Size(s[i].obj) ELSE f.size - s[i].off
<1> DEFINE x == s[i]
           g == Shrink(f, x)
           n == Size(x.obj)
<1>0. /\ f.va \in Nat /\ f.ptr \in Nat /\ f.size \in Nat /\ f.off \in Nat
      /\ PdBegin \in Nat /\ W \in Nat /\ RoundDown(PdEnd) \in Nat /\ P \in Nat
      /\ RoundDown(PdEnd) + P < W
  <2>1. PdBegin \in Nat /\ W \in Nat /\ PdEnd \in Nat /\ P \in Nat /\ PdEnd + P < W
    BY Zenon, ConstantsOK
  <2>2. f.va \in Nat /\ f.ptr \in Nat /\ f.size \in Nat /\ f.off \in Nat
    BY Zenon DEF Fault
  <2>3. RoundDown(PdEnd) \in Nat /\ RoundDown(PdEnd) <= PdEnd
    BY Zenon, <2>1, RoundDownBounds
  <2> QED BY <2>1, <2>2, <2>3
<1>1. /\ f.ptr < f.size /\ f.off + f.ptr = f.va
      /\ PdBegin <= f.off /\ f.off + f.size <= RoundDown(PdEnd) + P
  BY Zenon DEF InWindow
<1>2. /\ x.off \in Nat /\ x.obj \in Objects /\ n \in Nat \ {0} /\ End(x) = x.off + n
  BY Zenon, EndPlain
<1>3. x.off <= f.ptr /\ f.ptr < x.off + n
  <2>1. f.ptr < x.off \/ f.ptr < End(x)
    BY Zenon
  <2> QED BY SMTT(30), <2>1, <1>0, <1>2
<1> DEFINE size == IF f.size - x.off > n THEN n ELSE f.size - x.off
<1>4. /\ (f.size - x.off) % W = f.size - x.off
      /\ (f.ptr - x.off) % W = f.ptr - x.off
      /\ (f.off + x.off) % W = f.off + x.off
      /\ f.ptr - x.off \in Nat /\ f.off + x.off \in Nat /\ size \in Nat
      /\ (f.off + x.off) + (f.ptr - x.off) = f.off + f.ptr /\ PdBegin <= f.off + x.off
      /\ f.ptr - x.off < size /\ (f.off + x.off) + size <= RoundDown(PdEnd) + P
  <2> HIDE DEF x, n
  <2> DEFINE top == RoundDown(PdEnd) + P
  <2>1. top \in Nat /\ n \in Nat /\ W \in Nat /\ PdBegin \in Nat /\ top < W /\ f.off + f.size <= top
    <3>1. top \in Nat /\ W \in Nat /\ PdBegin \in Nat /\ top < W
      BY <1>0
    <3>2. n \in Nat
      BY Zenon, <1>2
    <3>3. f.off + f.size <= top
      BY Zenon, <1>1
    <3> QED BY Zenon, <3>1, <3>2, <3>3
  <2> HIDE DEF top
  <2>2. PICK ptr \in Nat, size0 \in Nat, off \in Nat, xo \in Nat :
          ptr = f.ptr /\ size0 = f.size /\ off = f.off /\ xo = x.off
    BY Zenon, <1>0, <1>2
  <2>3. ptr < size0 /\ PdBegin <= off /\ off + size0 <= top /\ xo <= ptr /\ ptr < xo + n
    BY Zenon, <1>1, <1>3, <2>1, <2>2
  <2>4. /\ (size0 - xo) % W = size0 - xo /\ (ptr - xo) % W = ptr - xo /\ (off + xo) % W = off + xo
        /\ ptr - xo \in Nat /\ off + xo \in Nat /\ (off + xo) + (ptr - xo) = off + ptr /\ PdBegin <= off + xo
        /\ LET new == IF size0 - xo > n THEN n ELSE size0 - xo
           IN  new \in Nat /\ ptr - xo < new /\ (off + xo) + new <= top
    <3>1. /\ size0 - xo \in Nat /\ size0 - xo < W /\ ptr - xo \in Nat /\ ptr - xo < W
          /\ off + xo \in Nat /\ off + xo < W
      BY <2>1, <2>3
    <3>2. (size0 - xo) % W = size0 - xo /\ (ptr - xo) % W = ptr - xo /\ (off + xo) % W = off + xo
      BY Zenon, <2>1, <3>1, ModSmall
    <3> QED BY <2>1, <2>3, <3>1, <3>2
  <2> QED BY Zenon, <2>2, <2>4 DEF top
<1> DEFINE path == Append(f.path, [m |-> f.obj, base |-> f.off, r |-> x])
<1>5. g = [f EXCEPT !.ptr = f.ptr - x.off, !.off = f.off + x.off, !.size = size,
                    !.obj = Target[x.obj], !.type = Type[x.obj], !.path = path]
  <2>1. g = [f EXCEPT !.ptr = (f.ptr - x.off) % W, !.off = (f.off + x.off) % W,
                      !.size = LET rest == (f.size - x.off) % W IN IF rest > n THEN n ELSE rest,
                      !.obj = Target[x.obj], !.type = Type[x.obj], !.path = path]
    BY Zenon DEF Shrink, Fault
  <2> HIDE DEF g
  <2> QED BY Zenon, <2>1, <1>4
<1>6. path \in Seq(Round)
  <2>1. x \in Region /\ f.path \in Seq(Round)
    <3>1. x \in Region
      OBVIOUS
    <3> QED BY Zenon, <3>1 DEF Fault
  <2> DEFINE e == [m |-> f.obj, base |-> f.off, r |-> x]
  <2>2. e \in Round
    BY Zenon, <1>0, <2>1 DEF Round
  <2> HIDE DEF e
  <2>3. Append(f.path, e) \in Seq(Round)
    BY <2>1, <2>2
  <2> QED BY Zenon, <2>3 DEF e
<1> HIDE DEF x, g, n, path
<1> HIDE DEF size
<1>7. g \in Fault
  BY Zenon, <1>2, <1>4, <1>5, <1>6 DEF Fault
<1>8. g.va = f.va /\ g.ptr = f.ptr - x.off /\ g.size = size /\ g.off = f.off + x.off
  BY Zenon, <1>5 DEF Fault
<1>9. InWindow(g)
  BY Zenon, <1>1, <1>4, <1>8 DEF InWindow
<1> QED BY Zenon, <1>7, <1>8, <1>9 DEF g, x, n, size

\* Where it goes then.
LEMMA ShrinkIs ==
  ASSUME NEW f \in Fault, NEW x
  PROVE  /\ Shrink(f, x).obj = Target[x.obj] /\ Shrink(f, x).type = Type[x.obj]
         /\ Shrink(f, x).va = f.va /\ Shrink(f, x).pc = f.pc
         /\ Shrink(f, x).path = Append(f.path, [m |-> f.obj, base |-> f.off, r |-> x])
BY Zenon DEF Shrink, Fault

-----------------------------------------------------------------------------
\* The invariant.

\* Nothing is placed, and nobody faults.
LEMMA InitIInv == Init => IInv
<1> SUFFICES ASSUME Init PROVE IInv
  BY Zenon
<1>1. << >> \in Seq(Region) /\ Len(<< >>) = 0
  OBVIOUS
<1>2. child \in [Mappers -> Seq(Region)] /\ \A m \in Mappers : Apart(child[m], RmSize(m))
  BY <1>1 DEF Init, Apart
<1>3. NoFault \in Fault /\ InWindow(NoFault) /\ NoFault.obj \in Mappers
  <2>1. << >> \in Seq(Round)
    OBVIOUS
  <2> QED BY Zenon, <2>1, ConstantsOK DEF NoFault, Fault, InWindow
<1>4. half \in [Mappers -> Nat]
  BY DEF Init
<1> QED BY Zenon, <1>2, <1>3, <1>4 DEF Init, IInv

\* rm_insert places an object or does not, and leaves the faults alone.
LEMMA InsertIInv ==
  ASSUME IInv, NEW m \in Mappers, NEW o \in Objects, Insert(m, o), UNCHANGED <<fault, pte>>
  PROVE  IInv'
<1> DEFINE s == child[m]
           At(k) == /\ child' = [child EXCEPT ![m] = InsertAt(s, k, [obj |-> o, off |-> Begin(s, k)])]
                    /\ half' = [half EXCEPT ![m] = k]
<1>1. s \in Seq(Region) /\ Apart(s, RmSize(m)) /\ Len(s) \in Nat
  BY DEF IInv
<1>2. ASSUME NEW k \in 1..(Len(s) + 1), At(k),
             k <= Len(s) => (Begin(s, k) + Size(o)) % W <= s[k].off,
             k = Len(s) + 1 => (Begin(s, k) + Size(o)) % W <= RmSize(m)
      PROVE  IInv'
  <2> DEFINE t == InsertAt(s, k, [obj |-> o, off |-> Begin(s, k)])
  <2>1. t \in Seq(Region) /\ Apart(t, RmSize(m))
    BY Zenon, <1>1, <1>2, InsertApart
  <2> HIDE DEF t
  <2>2. child' = [child EXCEPT ![m] = t]
    BY Zenon, <1>2 DEF t
  <2>3. child' \in [Mappers -> Seq(Region)] /\ \A l \in Mappers : Apart(child'[l], RmSize(l))
    BY Zenon, <2>1, <2>2 DEF IInv
  <2>4. half' \in [Mappers -> Nat]
    <3>1. k \in Nat
      BY <1>1
    <3> QED BY Zenon, <3>1, <1>2 DEF IInv
  <2> QED BY Zenon, <2>3, <2>4 DEF IInv, InWindow
<1>3. CASE UNCHANGED <<child, half>>
  BY Zenon, <1>3 DEF IInv, InWindow
<1>4. CASE \E k \in Gaps(s, Size(o)) : At(k)
  <2>1. PICK k \in Gaps(s, Size(o)) : At(k)
    BY Zenon, <1>4
  <2>2. k \in 1..Len(s) /\ (Begin(s, k) + Size(o)) % W <= s[k].off
    BY Zenon DEF Gaps
  <2>3. k \in 1..(Len(s) + 1) /\ k # Len(s) + 1
    BY <1>1, <2>2
  <2> HIDE DEF At, s
  <2> QED BY Zenon, <1>2, <2>1, <2>2, <2>3
<1>5. CASE At(Len(s) + 1) /\ (Begin(s, Len(s) + 1) + Size(o)) % W <= RmSize(m)
  <2>1. Len(s) + 1 \in 1..(Len(s) + 1) /\ ~(Len(s) + 1 <= Len(s))
    BY <1>1
  <2> HIDE DEF At, s
  <2> QED BY Zenon, <1>2, <1>5, <2>1
<1> QED BY Zenon, <1>3, <1>4, <1>5 DEF Insert

\* rm_pagefault starts with the whole domain as its window.
LEMMA PagefaultIInv ==
  ASSUME IInv, NEW c \in Cpus, NEW va \in Addresses, Pagefault(c, va)
  PROVE  IInv'
<1> DEFINE ptr == (va - PdBegin) % W
           f == [NoFault EXCEPT !.va = va, !.ptr = ptr, !.size = Window, !.off = PdBegin]
           label == IF va < PdBegin \/ f.ptr >= f.size THEN "segfault" ELSE "loop"
           g == [f EXCEPT !.pc = label]
<1>0. va \in Nat /\ va < W /\ PdBegin \in Nat /\ W \in Nat \ {0} /\ Kernel \in Mappers
  BY ConstantsOK
<1>1. ptr \in Nat
  BY <1>0
<1>2. va >= PdBegin => ptr = va - PdBegin
  BY <1>0, ModSmall
<1>3. fault' = [fault EXCEPT ![c] = g]
  BY Zenon DEF Pagefault
<1>4. NoFault \in Fault /\ NoFault.obj = Kernel
  <2>1. << >> \in Seq(Round)
    OBVIOUS
  <2> QED BY Zenon, <1>0, <2>1 DEF Fault, NoFault
<1> HIDE DEF ptr
<1>5. f \in Fault /\ f.va = va /\ f.ptr = ptr /\ f.size = Window /\ f.off = PdBegin /\ f.obj = Kernel
  BY Zenon, <1>0, <1>1, <1>4, WindowInDomain DEF Fault
<1> HIDE DEF f
<1>6. /\ g \in Fault /\ g.pc = label /\ g.va = va /\ g.ptr = ptr /\ g.size = Window /\ g.off = PdBegin
      /\ g.obj = Kernel
  BY Zenon, <1>5 DEF Fault
<1>7. InWindow(g)
  <2> HIDE DEF g
  <2> SUFFICES ASSUME label = "loop"
               PROVE  /\ ptr < Window /\ PdBegin + ptr = va
                      /\ PdBegin + Window <= RoundDown(PdEnd) + P
    BY <1>0, <1>6 DEF InWindow
  <2>1. ~(va < PdBegin) /\ ~(ptr >= Window)
    BY Zenon, <1>5
  <2> QED BY <2>1, <1>0, <1>1, <1>2, WindowInDomain
<1> HIDE DEF g
<1>8. fault' \in [Cpus -> Fault] /\ \A d \in Cpus : fault'[d] = IF d = c THEN g ELSE fault[d]
  BY Zenon, <1>3, <1>6 DEF IInv
<1>9. child' = child /\ half' = half /\ pte' = pte
  BY Zenon DEF Pagefault
<1> QED BY Zenon, <1>0, <1>6, <1>7, <1>8, <1>9 DEF IInv

\* A round that looks up goes into a region, or has found nothing.
LEMMA LookupIInv ==
  ASSUME IInv, NEW c \in Cpus, Lookup(c)
  PROVE  IInv'
<1> DEFINE f == fault[c]
           s == child[f.obj]
<1>1. /\ f \in Fault /\ InWindow(f) /\ f.pc = "loop" /\ f.obj \in Mappers
      /\ s \in Seq(Region) /\ Apart(s, RmSize(f.obj))
      /\ child' = child /\ half' = half /\ pte' = pte
  BY Zenon DEF IInv, Lookup
<1>2. ASSUME NEW g \in Fault, InWindow(g), g.type = "mapper" => g.obj \in Mappers,
             fault' = [fault EXCEPT ![c] = g]
      PROVE  IInv'
  <2>1. fault' \in [Cpus -> Fault] /\ \A d \in Cpus : fault'[d] = IF d = c THEN g ELSE fault[d]
    BY Zenon, <1>2 DEF IInv
  <2> QED BY Zenon, <1>1, <1>2, <2>1 DEF IInv
<1>3. ASSUME NEW l \in {"null", "torn"}, fault' = [fault EXCEPT ![c].pc = l] PROVE IInv'
  <2> DEFINE g == [f EXCEPT !.pc = l]
  <2>1. g \in Fault /\ g.pc # "loop" /\ g.type = f.type /\ g.obj = f.obj
    BY Zenon, <1>1 DEF Fault
  <2>2. fault' = [fault EXCEPT ![c] = g]
    BY Zenon, <1>3
  <2> HIDE DEF g
  <2>3. InWindow(g)
    BY Zenon, <2>1 DEF InWindow
  <2> QED BY Zenon, <1>1, <1>2, <2>1, <2>2, <2>3
<1>4. CASE \E i \in Stops(f.obj, f.ptr) : s[i].off <= f.ptr /\ fault' = [fault EXCEPT ![c] = Shrink(f, s[i])]
  <2>1. PICK i \in Stops(f.obj, f.ptr) : s[i].off <= f.ptr /\ fault' = [fault EXCEPT ![c] = Shrink(f, s[i])]
    BY Zenon, <1>4
  <2>2. i \in 1..Len(s) /\ (f.ptr < s[i].off \/ f.ptr < End(s[i]))
    BY Zenon DEF Stops
  <2>3. Shrink(f, s[i]) \in Fault /\ InWindow(Shrink(f, s[i]))
    <3> HIDE DEF f, s
    <3> QED BY Zenon, <1>1, <2>1, <2>2, ShrinkInWindow
  <2>4. s[i].obj \in Objects
    <3> HIDE DEF s
    <3>1. s[i] \in Region
      BY <1>1, <2>2
    <3> QED BY Zenon, <3>1 DEF Region
  <2>5. Shrink(f, s[i]).type = Type[s[i].obj] /\ Shrink(f, s[i]).obj = Target[s[i].obj]
    BY Zenon, <1>1, ShrinkIs
  <2>6. Shrink(f, s[i]).type = "mapper" => Shrink(f, s[i]).obj \in Mappers
    BY Zenon, <2>4, <2>5, ConstantsOK
  <2> HIDE DEF f, s
  <2> QED BY Zenon, <1>2, <2>1, <2>3, <2>6
<1>5. CASE \E l \in {"null", "torn"} : fault' = [fault EXCEPT ![c].pc = l]
  BY Zenon, <1>3, <1>5
<1>6. \/ \E i \in Stops(f.obj, f.ptr) : s[i].off <= f.ptr /\ fault' = [fault EXCEPT ![c] = Shrink(f, s[i])]
      \/ \E l \in {"null", "torn"} : fault' = [fault EXCEPT ![c].pc = l]
  BY Zenon DEF Lookup
<1> QED BY Zenon, <1>4, <1>5, <1>6

\* Every step of the mappers and the faults keeps the invariant.
LEMMA NextIInv == IInv /\ [Next]_vars => IInv'
<1> SUFFICES ASSUME IInv, [Next]_vars PROVE IInv'
  BY Zenon
<1>1. CASE RmInit
  BY Zenon, <1>1, InsertIInv, ConstantsOK DEF RmInit
<1>2. ASSUME NEW m \in Mappers, NEW o \in Objects, RmInsert(m, o) PROVE IInv'
  BY Zenon, <1>2, InsertIInv DEF RmInsert
<1>3. ASSUME NEW c \in Cpus, Lookup(c) PROVE IInv'
  BY Zenon, <1>3, LookupIInv
<1>4. ASSUME NEW c \in Cpus, MapDataspace(c) PROVE IInv'
  <2> DEFINE g == [fault[c] EXCEPT !.pc = "ok"]
  <2>1. fault' = [fault EXCEPT ![c] = g] /\ child' = child /\ half' = half /\ DOMAIN pte' = DOMAIN pte
    BY Zenon, <1>4 DEF MapDataspace, Entered
  <2>2. g \in Fault /\ g.pc = "ok" /\ g.type = fault[c].type /\ g.obj = fault[c].obj
    BY ZenonT(30) DEF IInv, Fault
  <2> HIDE DEF g
  <2>3. InWindow(g)
    BY Zenon, <2>2 DEF InWindow
  <2>4. fault' \in [Cpus -> Fault] /\ \A d \in Cpus : fault'[d] = IF d = c THEN g ELSE fault[d]
    BY Zenon, <2>1, <2>2 DEF IInv
  <2> QED BY Zenon, <2>1, <2>2, <2>3, <2>4 DEF IInv
<1>5. ASSUME NEW c \in Cpus, NEW va \in Addresses, Pagefault(c, va) PROVE IInv'
  BY Zenon, <1>5, PagefaultIInv
<1>6. ASSUME NEW m \in Mappers, Linked(m) PROVE IInv'
  <2>1. half' = [half EXCEPT ![m] = 0] /\ UNCHANGED <<child, fault, pte>> /\ 0 \in Nat
    BY <1>6 DEF Linked
  <2>2. half' \in [Mappers -> Nat]
    BY Zenon, <2>1 DEF IInv
  <2> QED BY Zenon, <2>1, <2>2 DEF IInv, InWindow
<1>7. CASE UNCHANGED vars
  BY Zenon, <1>7 DEF vars, IInv, InWindow
<1> QED BY Zenon, <1>1, <1>2, <1>3, <1>4, <1>5, <1>6, <1>7 DEF Next, Dispatch

\* The invariant holds in every behaviour.
THEOREM Invariance == Spec => []IInv
BY InitIInv, NextIInv, PTL DEF Spec

\* For any mappers, objects and sizes that cannot wrap around, rm_insert keeps
\* the regions of every mapper apart and inside it.
THEOREM Separation == Spec => []RegionsApart
<1>1. IInv => RegionsApart
  BY Zenon DEF IInv, RegionsApart, Apart
<1> QED BY Invariance, <1>1, PTL

\* For any protection domain and page size, a fault that descends through
\* mappers, nested in whatever way, keeps the address that faulted and a window
\* inside the domain.
THEOREM WindowKept == Spec => []FaultInWindow
<1>1. IInv => FaultInWindow
  BY Zenon DEF IInv, FaultInWindow, InWindow
<1> QED BY Invariance, <1>1, PTL

\* The variables keep their types.
THEOREM TypeCorrect == Spec => []TypeOK
<1>1. IInv => TypeOK
  BY ZenonT(30) DEF IInv, TypeOK, Region, Fault
<1> QED BY Invariance, <1>1, PTL

-----------------------------------------------------------------------------
\* What a fault finds.

\* Whole pages.
Whole(x) == \E k \in Nat : x = P * k

\* Where a fault is: at the end of its chain of regions, with the window inside
\* the last of them.
OnPath(f) ==
  LET n == Len(f.path)
      w == Where(f, n)
  IN  /\ Chain(f) /\ f.obj = w.obj /\ f.type = w.type /\ f.off = w.base /\ f.type # "undefined"
      /\ n # 0 => f.size <= Size(f.path[n].r.obj)
      /\ Whole(f.size) /\ Whole(f.off)

\* Regions begin with a page.
RegionInv == \A m \in Mappers : \A r \in Regions(m) : Whole(r.off)

PathInv == \A c \in Cpus : fault[c].pc = "loop" => OnPath(fault[c])

-----------------------------------------------------------------------------
\* Sums and differences of whole pages are whole pages.
LEMMA WholeSums ==
  ASSUME NEW x, NEW y, Whole(x), Whole(y)
  PROVE  x \in Nat /\ y \in Nat /\ Whole(x + y) /\ (y <= x => Whole(x - y))
<1>0. P \in Nat \ {0}
  BY Zenon, ConstantsOK
<1>1. PICK i \in Nat : x = P * i
  BY Zenon DEF Whole
<1>2. PICK j \in Nat : y = P * j
  BY Zenon DEF Whole
<1>3. P * i \in Nat /\ P * j \in Nat /\ P * i + P * j = P * (i + j) /\ P * i - P * j = P * (i - j)
  BY <1>0
<1>4. y <= x => i - j \in Nat
  <2>1. i - j <= -1 => P * (i - j) <= -P
    BY <1>0, ProductBound
  <2>2. i - j \in Int
    OBVIOUS
  <2>3. QED BY <1>0, <1>1, <1>2, <1>3, <2>1, <2>2
<1>5. i + j \in Nat
  OBVIOUS
<1>6. QED BY Zenon, <1>1, <1>2, <1>3, <1>4, <1>5 DEF Whole

\* Dividing by the size of a page.
LEMMA WholeDiv ==
  ASSUME NEW x, Whole(x), NEW y \in Nat
  PROVE  /\ x \div P \in Nat /\ P * (x \div P) = x
         /\ y \div P \in Nat /\ P * (y \div P) <= y
         /\ (x + y) \div P = x \div P + y \div P
         /\ y < x <=> y \div P < x \div P
<1>0. P \in Nat \ {0}
  BY Zenon, ConstantsOK
<1>1. PICK i \in Nat : x = P * i
  BY Zenon DEF Whole
<1> DEFINE j == y \div P
           r == y % P
           k == (x + y) \div P
           s == (x + y) % P
           e == x \div P
           t == x % P
<1>2. x \in Nat /\ x + y \in Nat
  BY <1>0, <1>1
<1>3. j \in Nat /\ r \in 0..(P - 1) /\ P * j = y - r
  BY Zenon, <1>0, DivMod
<1>4. k \in Nat /\ s \in 0..(P - 1) /\ P * k = (x + y) - s
  BY Zenon, <1>0, <1>2, DivMod
<1>5. e \in Nat /\ t \in 0..(P - 1) /\ P * e = x - t
  BY Zenon, <1>0, <1>2, DivMod
<1> HIDE DEF j, r, k, s, e, t
<1>6. t = 0 /\ e = i
  <2>1. i - e \in Int /\ P * (i - e) = P * i - P * e
    BY <1>0, <1>5
  <2>2. P * (i - e) = t - 0 /\ 0 \in 0..(P - 1)
    BY <2>1, <1>0, <1>1, <1>5
  <2>3. t = 0
    BY Zenon, <2>1, <2>2, <1>0, <1>5, RemainderUnique
  <2>4. P * (i - e) = 0
    BY <2>2, <2>3
  <2>5. ~(i - e >= 1) /\ ~(i - e <= -1)
    BY <2>1, <2>4, <1>0, ProductBound
  <2>6. QED BY <2>3, <2>5, <1>5
<1>7. k = i + j
  <2>1. k - i - j \in Int /\ P * (k - i - j) = P * k - P * i - P * j
    BY <1>0, <1>3, <1>4
  <2>2. P * (k - i - j) = r - s
    BY <2>1, <1>0, <1>1, <1>2, <1>3, <1>4
  <2>3. r = s
    BY Zenon, <2>1, <2>2, <1>0, <1>3, <1>4, RemainderUnique
  <2>4. P * (k - i - j) = 0
    BY <2>2, <2>3, <1>3
  <2>5. ~(k - i - j >= 1) /\ ~(k - i - j <= -1)
    BY <2>1, <2>4, <1>0, ProductBound
  <2>6. QED BY <2>5, <1>3, <1>4
<1>8. y < x <=> j < i
  <2>1. j - i \in Int /\ P * (j - i) = P * j - P * i
    BY <1>0, <1>3
  <2>2. j - i >= 1 => P * (j - i) >= P
    BY Zenon, <2>1, <1>0, ProductBound
  <2>3. j - i <= -1 => P * (j - i) <= -P
    BY Zenon, <2>1, <1>0, ProductBound
  <2>4. P * (j - i) = y - r - x
    BY <2>1, <1>1, <1>3
  <2>5. j = i => P * (j - i) = 0
    BY <1>0, <1>3
  <2>6. QED BY <2>2, <2>3, <2>4, <2>5, <1>0, <1>2, <1>3
<1>9. P * j <= y
  BY <1>0, <1>3
<1>10. QED BY Zenon, <1>3, <1>5, <1>6, <1>7, <1>8, <1>9, <1>1 DEF e, j, k

\* Order.
LEMMA LessLeq ==
  ASSUME NEW x \in Nat, NEW y \in Nat, x <= y
  PROVE  ~(y < x)
OBVIOUS

\* Multiples are ordered as their factors.
LEMMA Multiples ==
  ASSUME NEW p \in Nat \ {0}, NEW x \in Nat, NEW y \in Nat
  PROVE  /\ x <= y => p * x <= p * y
         /\ x < y => (x + 1) * p <= p * y
<1>1. y - x \in Int /\ p * (y - x) = p * y - p * x /\ p * x \in Nat /\ p * y \in Nat
      /\ (x + 1) * p = p * x + p
  OBVIOUS
<1>2. y - x >= 1 => p * (y - x) >= p
  BY Zenon, <1>1, ProductBound
<1>3. QED BY <1>1, <1>2

\* What has no remainder.
LEMMA WholeMod ==
  ASSUME NEW x \in Nat, x % P = 0
  PROVE  Whole(x)
<1>1. P \in Nat \ {0}
  BY Zenon, ConstantsOK
<1>2. x \div P \in Nat /\ P * (x \div P) = x - (x % P)
  BY Zenon, <1>1, DivMod
<1>3. x = P * (x \div P)
  BY <1>2
<1>4. QED BY Zenon, <1>2, <1>3 DEF Whole

-----------------------------------------------------------------------------
\* What is known of a region.
LEMMA RegionFacts ==
  ASSUME IInv, NEW m \in Mappers, NEW r \in Regions(m)
  PROVE  /\ r.off \in Nat /\ r.obj \in Objects /\ Size(r.obj) \in Nat \ {0} /\ Whole(Size(r.obj))
         /\ Type[r.obj] \in {"undefined", "dataspace", "mapper"}
         /\ Type[r.obj] = "mapper" => Target[r.obj] \in Mappers
<1>1. PICK i \in 1..Len(child[m]) : r = child[m][i]
  BY Zenon DEF Regions
<1>2. child[m] \in Seq(Region) /\ Apart(child[m], RmSize(m))
  BY Zenon DEF IInv
<1>3. r.off \in Nat /\ r.obj \in Objects /\ Size(r.obj) \in Nat \ {0}
  BY Zenon, <1>1, <1>2, EndPlain
<1>4. Whole(Size(r.obj))
  BY Zenon, <1>3, WholeMod, ObjectsOK
<1>5. QED BY Zenon, <1>3, <1>4, ConstantsOK, ObjectsOK

\* A lookup that stops at no region for the address, or goes through the whole
\* list: the mapper has none.
LEMMA NothingThere ==
  ASSUME IInv, NEW m \in Mappers, NEW a \in Nat, NEW q \in Regions(m),
         \/ Stops(m, a) = {} /\ half[m] = 0
         \/ \E i \in Stops(m, a) : /\ \A j \in Stops(m, a) : i <= j
                                  /\ (a < child[m][i].off \/ Type[child[m][i].obj] = "undefined"),
         Type[q.obj] # "undefined", q.off <= a, a < q.off + Size(q.obj)
  PROVE  FALSE
<1> DEFINE s == child[m]
           E(k) == s[k].off + Size(s[k].obj)
<1>1. s \in Seq(Region) /\ Apart(s, RmSize(m)) /\ Len(s) \in Nat /\ half[m] \in Nat
  BY DEF IInv
<1>2. \A k \in 1..Len(s) : s[k].off \in Nat /\ Size(s[k].obj) \in Nat \ {0} /\ End(s[k]) = E(k)
  BY Zenon, <1>1, EndPlain
<1>3. \A k, l \in 1..Len(s) : k < l => E(k) <= s[l].off
  BY Zenon, <1>1 DEF Apart
<1>4. PICK k \in 1..Len(s) : q = s[k]
  BY Zenon DEF Regions
<1>5. \A l \in 1..Len(s) : l \in Stops(m, a) <=> (half[m] = 0 \/ l <= half[m]) /\ (a < s[l].off \/ a < E(l))
  BY Zenon, <1>2 DEF Stops
<1>6. s[k].off <= a /\ a < E(k) /\ Type[s[k].obj] # "undefined"
  BY Zenon, <1>4
<1>7. CASE Stops(m, a) = {} /\ half[m] = 0
  BY Zenon, <1>5, <1>6, <1>7
<1>8. ASSUME NEW i \in Stops(m, a), \A j \in Stops(m, a) : i <= j,
             (a < s[i].off \/ Type[s[i].obj] = "undefined")
      PROVE  FALSE
  <2>1. i \in 1..Len(s) /\ (half[m] = 0 \/ i <= half[m]) /\ (a < s[i].off \/ a < E(i))
    <3>1. i \in 1..Len(s)
      BY Zenon DEF Stops
    <3>2. QED BY Zenon, <1>5, <3>1
  <2> DEFINE oi == s[i].off
             ok == s[k].off
             zi == Size(s[i].obj)
             zk == Size(s[k].obj)
             ei == oi + zi
             ek == ok + zk
  <2>2. /\ oi \in Nat /\ ok \in Nat /\ ei \in Nat /\ ek \in Nat /\ oi < ei
        /\ ok <= a /\ a < ek /\ (a < oi \/ a < ei)
    <3>1. oi \in Nat /\ ok \in Nat /\ zi \in Nat \ {0} /\ zk \in Nat \ {0}
      BY Zenon, <1>2, <2>1
    <3>2. ok <= a /\ a < ok + zk /\ (a < oi \/ a < oi + zi)
      BY Zenon, <1>6, <2>1
    <3> HIDE DEF oi, ok, zi, zk
    <3>3. QED BY <3>1, <3>2
  <2>3. (k < i => ek <= oi) /\ (i < k => ei <= ok)
    BY Zenon, <1>3, <2>1
  <2> HIDE DEF oi, ok, ei, ek
  <2>4. k = i
    <3>1. ~(i < k)
      BY <2>2, <2>3
    <3>2. k < i => k \in Stops(m, a)
      <4>1. k < i => half[m] = 0 \/ k <= half[m]
        BY <1>1, <2>1
      <4>2. a < E(k)
        BY Zenon, <1>6
      <4>3. QED BY Zenon, <1>5, <4>1, <4>2
    <3>3. k < i => ~(i <= k)
      BY <1>1, <2>1
    <3>4. QED BY <1>8, <3>1, <3>2, <3>3, <2>1, <1>1
  <2>5. ~(a < oi)
    BY Zenon, <2>2, <2>4, <1>6, LessLeq DEF oi, ok
  <2>6. QED BY Zenon, <1>6, <1>8, <2>4, <2>5 DEF oi
<1>9. QED BY Zenon, <1>7, <1>8

\* The pages that dataspace_map enters, and when the page of the fault is one.
LEMMA PagesEntered ==
  ASSUME NEW f \in Fault, InWindow(f), f.pc = "loop", Whole(f.size), Whole(f.off),
         NEW l \in Nat, l = Len(DsPages[f.obj]), DsSize(f.obj) \in Nat
  PROVE  LET b == f.off \div P
             k == f.ptr \div P
         IN  /\ b \in Nat /\ P * b = f.off /\ k \in Nat /\ f.va \div P = b + k
             /\ \E n \in Nat :
                  /\ Mapped(f) = [i \in 0..(n - 1) |-> b + i]
                  /\ k < l /\ (k + 1) * P <= DsSize(f.obj) => k \in 0..(n - 1)
                  /\ \A i \in 0..(n - 1) : P * i \in Nat /\ P * i < f.size
<1> DEFINE b == f.off \div P
           k == f.ptr \div P
           d == DsSize(f.obj)
           z == IF f.size > d THEN d ELSE f.size
           q == z \div P
           n == IF q > l THEN l ELSE q
<1>0. /\ f.size \in Nat /\ f.va \in Nat /\ f.ptr \in Nat /\ f.off \in Nat /\ P \in Nat \ {0}
      /\ f.ptr < f.size /\ f.off + f.ptr = f.va /\ d \in Nat
  BY Zenon, ConstantsOK DEF Fault, InWindow
<1>1. /\ b \in Nat /\ P * b = f.off /\ (f.off + f.ptr) \div P = b + k
      /\ f.size \div P \in Nat /\ P * (f.size \div P) = f.size /\ k \in Nat /\ k < f.size \div P
  BY Zenon, <1>0, WholeDiv
<1>2. z \in Nat /\ z <= f.size
  <2> HIDE DEF d
  <2>1. QED BY <1>0
<1>3. Mapped(f) = [i \in 0..(n - 1) |-> b + i]
  BY Zenon DEF Mapped
<1> HIDE DEF z, d, b, k
<1>4. q \in Nat /\ z % P \in 0..(P - 1) /\ P * q = z - (z % P)
  BY Zenon, <1>0, <1>2, DivMod
<1> HIDE DEF q
<1>5. n \in Nat /\ n <= q /\ n <= l
  BY <1>4
<1>6. ASSUME k < l, (k + 1) * P <= d PROVE k \in 0..(n - 1)
  <2>1. (k + 1) * P <= f.size
    <3> DEFINE h == f.size \div P
    <3> HIDE DEF h
    <3>1. h \in Nat /\ P * h = f.size /\ k < h
      BY Zenon, <1>1 DEF h
    <3>2. QED BY <1>0, <1>1, <3>1, Multiples
  <2>2. (k + 1) * P <= z /\ (k + 1) * P \in Nat
    <3> DEFINE t == (k + 1) * P
    <3>1. t \in Nat /\ t <= d /\ t <= f.size
      BY <1>0, <1>1, <1>6, <2>1
    <3> HIDE DEF t
    <3>2. t <= z
      BY <1>0, <3>1 DEF z
    <3>3. QED BY Zenon, <3>1, <3>2 DEF t
  <2>3. ~(q <= k)
    <3>1. q <= k => P * q <= P * k
      BY <1>0, <1>1, <1>4, Multiples
    <3>2. (k + 1) * P = P * k + P /\ P * k \in Nat /\ P * q \in Nat
      BY <1>0, <1>1, <1>4
    <3>3. QED BY <1>0, <1>2, <1>4, <2>2, <3>1, <3>2
  <2>4. QED BY <1>1, <1>4, <1>6, <2>3
<1>7. ASSUME NEW i \in 0..(n - 1) PROVE P * i \in Nat /\ P * i < f.size
  <2>1. i \in Nat /\ i + 1 <= q
    BY <1>4, <1>5
  <2>2. P * (i + 1) <= P * q
    BY <1>0, <1>4, <2>1, Multiples
  <2>3. P * (i + 1) = P * i + P /\ P * i \in Nat /\ P * q \in Nat
    BY <1>0, <1>4, <2>1
  <2> DEFINE a == P * i
             t == P * q
             u == z % P
  <2>4. /\ a \in Nat /\ t \in Nat /\ u \in 0..(P - 1) /\ a + P <= t /\ t = z - u
        /\ z \in Nat /\ z <= f.size /\ f.size \in Nat /\ P \in Nat \ {0}
    BY Zenon, <1>0, <1>2, <1>4, <2>2, <2>3
  <2> HIDE DEF a, t, u
  <2>5. a \in Nat /\ a < f.size
    BY <2>4
  <2>6. QED BY Zenon, <2>5 DEF a
<1> HIDE DEF n
<1>8. QED BY Zenon, <1>0, <1>1, <1>3, <1>5, <1>6, <1>7 DEF b, k, d

-----------------------------------------------------------------------------
\* rm_pagefault begins at the kernel's mapper, with whole pages.
LEMMA DomainWhole == Whole(PdBegin) /\ Whole(Window)
<1>0. P \in Nat \ {0} /\ W \in Nat /\ PdBegin \in Nat /\ PdBegin % P = 0 /\ PdEnd \in Nat
      /\ PdBegin <= PdEnd /\ PdEnd + P < W
  BY Zenon, ConstantsOK
<1> DEFINE x == (PdEnd - PdBegin + P - 1) % W
<1>1. x \in Nat
  BY <1>0
<1>2. Window = x - (x % P)
  BY Zenon DEF Window, RoundDown
<1> HIDE DEF x
<1>3. x \div P \in Nat /\ x - (x % P) = P * (x \div P)
  BY Zenon, <1>0, <1>1, DivMod
<1>4. QED BY Zenon, <1>0, <1>2, <1>3, WholeMod DEF Whole

\* A mapper that got a region still has the others, and the new one begins
\* where another ended.
LEMMA InsertRegions ==
  ASSUME IInv, RegionInv, NEW m \in Mappers, NEW o \in Objects, Insert(m, o)
  PROVE  /\ \A l \in Mappers : Regions(l) \subseteq Regions(l)'
         /\ \A l \in Mappers : \A r \in Regions(l)' : r \in Regions(l) \/ (l = m /\ r.obj = o /\ Whole(r.off))
<1> DEFINE s == child[m]
           At(k) == /\ child' = [child EXCEPT ![m] = InsertAt(s, k, [obj |-> o, off |-> Begin(s, k)])]
                    /\ half' = [half EXCEPT ![m] = k]
<1>1. s \in Seq(Region) /\ Apart(s, RmSize(m)) /\ Len(s) \in Nat
  BY DEF IInv
<1>2. ASSUME NEW k \in 1..(Len(s) + 1), At(k)
      PROVE  /\ \A l \in Mappers : Regions(l) \subseteq Regions(l)'
             /\ \A l \in Mappers : \A r \in Regions(l)' : r \in Regions(l) \/ (l = m /\ r.obj = o /\ Whole(r.off))
  <2> DEFINE x == [obj |-> o, off |-> Begin(s, k)]
             t == InsertAt(s, k, x)
             n == Len(s)
  <2>1. x.obj = o /\ Whole(x.off)
    <3>1. Whole(Begin(s, k))
      <4>1. CASE k = 1
        <5>1. P * 0 = 0 /\ 0 \in Nat
          BY ConstantsOK
        <5>2. QED BY Zenon, <4>1, <5>1 DEF Begin, Whole
      <4>2. CASE k # 1
        <5>1. k - 1 \in 1..Len(s)
          BY <1>1, <4>2
        <5>2. s[k - 1] \in Regions(m) /\ End(s[k - 1]) = s[k - 1].off + Size(s[k - 1].obj)
          BY Zenon, <1>1, <5>1, EndPlain DEF Regions
        <5>3. Whole(s[k - 1].off) /\ Whole(Size(s[k - 1].obj))
          BY Zenon, <5>2, RegionFacts DEF RegionInv
        <5>4. QED BY Zenon, <4>2, <5>2, <5>3, WholeSums DEF Begin
      <4>3. QED BY Zenon, <4>1, <4>2
    <3>2. QED BY Zenon, <3>1
  <2>2. child'[m] = t /\ \A l \in Mappers \ {m} : child'[l] = child[l]
    BY Zenon, <1>2 DEF IInv
  <2> HIDE DEF x
  <2>3. Len(t) = n + 1 /\ \A i \in 1..(n + 1) : t[i] = IF i < k THEN s[i] ELSE IF i = k THEN x ELSE s[i - 1]
    BY <1>1 DEF InsertAt
  <2> HIDE DEF t
  <2>4. ASSUME NEW i \in 1..n PROVE \E j \in 1..(n + 1) : t[j] = s[i]
    <3>1. CASE i < k
      <4>1. i \in 1..(n + 1) /\ t[i] = s[i]
        BY <1>1, <2>3, <3>1
      <4>2. QED BY Zenon, <4>1
    <3>2. CASE ~(i < k)
      <4>1. i + 1 \in 1..(n + 1) /\ ~(i + 1 < k) /\ i + 1 # k /\ (i + 1) - 1 = i
        BY <1>1, <3>2
      <4>2. t[i + 1] = s[i]
        BY <2>3, <4>1
      <4>3. QED BY Zenon, <4>1, <4>2
    <3>3. QED BY Zenon, <3>1, <3>2
  <2>5. ASSUME NEW j \in 1..(n + 1) PROVE t[j] = x \/ \E i \in 1..n : t[j] = s[i]
    <3>1. j < k => j \in 1..n
      BY <1>1
    <3>2. ~(j < k) /\ j # k => j - 1 \in 1..n
      BY <1>1
    <3>3. QED BY Zenon, <2>3, <3>1, <3>2
  <2> HIDE DEF s, n
  <2>6. Regions(m) = {s[i] : i \in 1..n} /\ Regions(m)' = {t[j] : j \in 1..(n + 1)}
    BY Zenon, <2>2, <2>3 DEF Regions, s, n
  <2>7. \A l \in Mappers \ {m} : Regions(l)' = Regions(l)
    BY Zenon, <2>2 DEF Regions
  <2>8. Regions(m) \subseteq Regions(m)'
    BY Zenon, <2>4, <2>6
  <2>9. \A r \in Regions(m)' : r \in Regions(m) \/ r = x
    BY Zenon, <2>5, <2>6
  <2>10. QED BY Zenon, <2>1, <2>7, <2>8, <2>9
<1>3. CASE UNCHANGED child
  BY Zenon, <1>3 DEF Regions
<1>4. CASE \E k \in Gaps(s, Size(o)) : At(k)
  <2>1. PICK k \in Gaps(s, Size(o)) : At(k)
    BY Zenon, <1>4
  <2>2. k \in 1..Len(s)
    BY Zenon DEF Gaps
  <2>3. k \in 1..(Len(s) + 1)
    BY <1>1, <2>2
  <2> HIDE DEF At, s
  <2>4. QED BY Zenon, <1>2, <2>1, <2>3
<1>5. CASE At(Len(s) + 1)
  <2>1. Len(s) + 1 \in 1..(Len(s) + 1)
    BY <1>1
  <2> HIDE DEF At, s
  <2>2. QED BY Zenon, <1>2, <1>5, <2>1
<1>6. QED BY Zenon, <1>3, <1>4, <1>5 DEF Insert

\* A path stays one when regions are added.
LEMMA PathStays ==
  ASSUME \A l \in Mappers : Regions(l) \subseteq Regions(l)', NEW f \in Fault, OnPath(f)
  PROVE  OnPath(f)'
<1>1. \A n \in 1..Len(f.path) : f.path[n].m \in Mappers
  <2>1. f.path \in Seq(Round)
    BY Zenon DEF Fault
  <2>2. \A n \in 1..Len(f.path) : f.path[n] \in Round
    BY <2>1
  <2>3. QED BY Zenon, <2>2 DEF Round
<1>2. Chain(f)'
  BY Zenon, <1>1 DEF OnPath, Chain, Where, Holds
<1>3. QED BY Zenon, <1>2 DEF OnPath, Where, Whole

\* So a step that leaves the faults under way alone keeps regions and paths.
LEMMA FaultsStay ==
  ASSUME IInv, RegionInv, PathInv,
         \A l \in Mappers : Regions(l) \subseteq Regions(l)',
         \A l \in Mappers : \A r \in Regions(l)' : r \in Regions(l) \/ Whole(r.off),
         \A c \in Cpus : fault'[c].pc = "loop" => fault'[c] = fault[c] \/ (fault'[c] \in Fault /\ OnPath(fault'[c]))
  PROVE  RegionInv' /\ PathInv'
<1>1. RegionInv'
  BY Zenon DEF RegionInv, Whole
<1>2. ASSUME NEW c \in Cpus, fault'[c].pc = "loop" PROVE OnPath(fault[c])'
  <2>1. fault'[c] \in Fault /\ OnPath(fault'[c])
    BY Zenon, <1>2 DEF IInv, PathInv
  <2>2. \A f \in Fault : OnPath(f) => OnPath(f)'
    BY Zenon, PathStays
  <2>3. QED BY Zenon, <2>1, <2>2
<1>3. QED BY Zenon, <1>1, <1>2 DEF PathInv

\* A lookup that finds a region goes one step down the path.
LEMMA ShrinkPath ==
  ASSUME IInv, RegionInv, NEW f \in Fault, OnPath(f), InWindow(f), f.pc = "loop",
         f.type = "mapper", f.obj \in Mappers, NEW i \in Stops(f.obj, f.ptr),
         child[f.obj][i].off <= f.ptr, Type[child[f.obj][i].obj] # "undefined"
  PROVE  LET g == Shrink(f, child[f.obj][i]) IN g \in Fault /\ OnPath(g)
<1> DEFINE s == child[f.obj]
           x == s[i]
           g == Shrink(f, x)
           z == Size(x.obj)
           n == Len(f.path)
           e == [m |-> f.obj, base |-> f.off, r |-> x]
<1>0. /\ s \in Seq(Region) /\ Apart(s, RmSize(f.obj)) /\ i \in 1..Len(s)
      /\ f.ptr < s[i].off \/ f.ptr < End(s[i])
  BY Zenon DEF IInv, Stops
<1>1. /\ g.off = f.off + x.off /\ g.size = IF f.size - x.off > z THEN z ELSE f.size - x.off
      /\ g \in Fault /\ InWindow(g)
  <2> HIDE DEF s
  <2>1. s[i].off <= f.ptr
    BY Zenon DEF s
  <2>2. QED BY Zenon, <1>0, <2>1, ShrinkInWindow
<1>2. /\ g.obj = Target[x.obj] /\ g.type = Type[x.obj] /\ g.va = f.va
      /\ g.path = Append(f.path, e)
  BY Zenon, ShrinkIs
<1>3. /\ f.ptr \in Nat /\ f.size \in Nat /\ f.off \in Nat /\ f.va \in Nat /\ f.path \in Seq(Round)
      /\ f.ptr < f.size /\ f.off + f.ptr = f.va
  BY Zenon DEF Fault, InWindow
<1>4. /\ x \in Regions(f.obj) /\ x.off \in Nat /\ z \in Nat /\ Whole(z) /\ Whole(x.off)
      /\ End(x) = x.off + z /\ x.off <= f.ptr
  <2>1. x \in Regions(f.obj) /\ End(x) = x.off + z
    BY Zenon, <1>0, EndPlain DEF Regions
  <2>2. QED BY Zenon, <2>1, RegionFacts DEF RegionInv
<1>5. e.m = f.obj /\ e.base = f.off /\ e.r = x /\ Type[x.obj] # "undefined"
  BY Zenon
<1> HIDE DEF g, e
<1>6. /\ n \in Nat /\ Len(g.path) = n + 1 /\ g.path[n + 1] = e
      /\ \A k \in 1..n : g.path[k] = f.path[k]
  BY <1>2, <1>3
<1>7. x.off <= f.size /\ g.size \in Nat /\ g.size <= z
  <2> HIDE DEF x, z, s
  <2>1. QED BY <1>1, <1>3, <1>4
<1>8. Holds(f.off, x, f.va)
  <2>1. f.ptr < x.off \/ f.ptr < End(x)
    BY Zenon, <1>0
  <2> HIDE DEF x, s
  <2>2. f.off + x.off <= f.va /\ f.va < f.off + x.off + z
    <3> HIDE DEF z
    <3>1. QED BY <2>1, <1>3, <1>4
  <2>3. QED BY Zenon, <2>2 DEF Holds
<1> HIDE DEF x, s, z
<1>9. Whole(g.size) /\ Whole(g.off)
  <2>1. Whole(f.size) /\ Whole(f.off)
    BY Zenon DEF OnPath
  <2>2. QED BY Zenon, <1>1, <1>4, <1>7, <2>1, WholeSums
<1>10. \A k \in 0..n : Where(g, k) = Where(f, k)
  <2> SUFFICES ASSUME NEW k \in 0..n PROVE Where(g, k) = Where(f, k)
    BY Zenon
  <2>1. k # 0 => k \in 1..n
    BY <1>6
  <2>2. QED BY Zenon, <1>6, <2>1 DEF Where
<1>11. Where(f, n) = [obj |-> f.obj, type |-> "mapper", base |-> f.off]
  <2>1. f.obj = Where(f, n).obj /\ f.type = Where(f, n).type /\ f.off = Where(f, n).base
    BY Zenon DEF OnPath
  <2>2. Where(f, n) = [obj |-> Where(f, n).obj, type |-> Where(f, n).type, base |-> Where(f, n).base]
    BY Zenon DEF Where
  <2>3. QED BY Zenon, <2>1, <2>2
<1>12. Chain(g)
  <2> SUFFICES ASSUME NEW k \in 1..(n + 1)
               PROVE  /\ Where(g, k - 1) = [obj |-> g.path[k].m, type |-> "mapper", base |-> g.path[k].base]
                      /\ g.path[k].r \in Regions(g.path[k].m) /\ Holds(g.path[k].base, g.path[k].r, g.va)
    BY Zenon, <1>6 DEF Chain
  <2>1. CASE k = n + 1
    <3>1. k - 1 = n /\ n \in 0..n
      BY <1>6, <2>1
    <3>2. QED BY Zenon, <1>2, <1>4, <1>5, <1>6, <1>8, <1>10, <1>11, <2>1, <3>1
  <2>2. CASE k # n + 1
    <3>1. k \in 1..n /\ k - 1 \in 0..n
      BY <1>6, <2>2
    <3>2. /\ Where(f, k - 1) = [obj |-> f.path[k].m, type |-> "mapper", base |-> f.path[k].base]
          /\ f.path[k].r \in Regions(f.path[k].m) /\ Holds(f.path[k].base, f.path[k].r, f.va)
      BY Zenon, <3>1 DEF OnPath, Chain
    <3>3. QED BY Zenon, <1>2, <1>6, <1>10, <3>1, <3>2
  <2>3. QED BY Zenon, <2>1, <2>2
<1>13. Where(g, n + 1) = [obj |-> g.obj, type |-> g.type, base |-> g.off] /\ n + 1 # 0
  <2>1. n + 1 # 0
    BY <1>6
  <2>2. QED BY Zenon, <1>1, <1>2, <1>5, <1>6, <2>1 DEF Where
<1>14. OnPath(g)
  <2>1. g.path[Len(g.path)].r = x /\ g.size <= Size(x.obj)
    BY Zenon, <1>5, <1>6, <1>7 DEF z
  <2>2. g.type # "undefined"
    BY Zenon, <1>2, <1>5
  <2>3. Where(g, Len(g.path)).obj = g.obj /\ Where(g, Len(g.path)).type = g.type
        /\ Where(g, Len(g.path)).base = g.off
    <3>1. Where(g, Len(g.path)) = [obj |-> g.obj, type |-> g.type, base |-> g.off]
      BY Zenon, <1>6, <1>13
    <3>2. QED BY <3>1
  <2>4. QED BY Zenon, <1>9, <1>12, <2>1, <2>2, <2>3 DEF OnPath
<1>15. QED BY Zenon, <1>1, <1>14 DEF g, x, s

\* What a lookup does: it goes down the path, or ends the fault.
LEMMA LookupSteps ==
  ASSUME IInv, RegionInv, PathInv, NEW c \in Cpus, Lookup(c)
  PROVE  /\ fault[c].pc = "loop" /\ fault[c].type = "mapper" /\ fault[c].obj \in Mappers
         /\ \A d \in Cpus \ {c} : fault'[d] = fault[d]
         /\ \/ fault'[c].pc = "loop" /\ fault'[c] \in Fault /\ OnPath(fault'[c])
            \/ /\ fault'[c].pc = "null"
               /\ LET m == fault[c].obj
                      a == fault[c].ptr
                  IN  \/ Stops(m, a) = {} /\ half[m] = 0
                      \/ \E i \in Stops(m, a) :
                           /\ \A j \in Stops(m, a) : i <= j
                           /\ a < child[m][i].off \/ Type[child[m][i].obj] = "undefined"
            \/ fault'[c].pc = "torn" /\ half[fault[c].obj] # 0
<1> DEFINE f == fault[c]
           s == child[f.obj]
           stops == Stops(f.obj, f.ptr)
<1>1. /\ f \in Fault /\ InWindow(f) /\ f.pc = "loop" /\ f.type = "mapper" /\ f.obj \in Mappers
      /\ OnPath(f) /\ fault \in [Cpus -> Fault]
  BY Zenon DEF IInv, Lookup, PathInv
<1>2. ASSUME NEW g, fault' = [fault EXCEPT ![c] = g]
      PROVE  fault'[c] = g /\ \A d \in Cpus \ {c} : fault'[d] = fault[d]
  <2> HIDE DEF f
  <2>1. QED BY Zenon, <1>1, <1>2
<1>3. ASSUME NEW l, fault' = [fault EXCEPT ![c].pc = l]
      PROVE  fault'[c].pc = l /\ \A d \in Cpus \ {c} : fault'[d] = fault[d]
  <2> DEFINE g == [f EXCEPT !.pc = l]
  <2>1. fault' = [fault EXCEPT ![c] = g]
    BY Zenon, <1>3
  <2>2. g.pc = l
    BY Zenon, <1>1 DEF Fault
  <2> HIDE DEF g
  <2>3. QED BY Zenon, <1>2, <2>1, <2>2
<1>4. CASE \E i \in stops : s[i].off <= f.ptr /\ Type[s[i].obj] # "undefined"
                             /\ fault' = [fault EXCEPT ![c] = Shrink(f, s[i])]
  <2>1. PICK i \in stops : s[i].off <= f.ptr /\ Type[s[i].obj] # "undefined"
                            /\ fault' = [fault EXCEPT ![c] = Shrink(f, s[i])]
    BY Zenon, <1>4
  <2> DEFINE g == Shrink(f, s[i])
  <2>2. g \in Fault /\ OnPath(g)
    <3> HIDE DEF f
    <3>1. QED BY Zenon, <1>1, <2>1, ShrinkPath
  <2>3. fault' = [fault EXCEPT ![c] = g] /\ g.pc = "loop"
    BY Zenon, <1>1, <2>1, ShrinkIs
  <2> HIDE DEF g
  <2>4. QED BY Zenon, <1>1, <1>2, <2>2, <2>3
<1>5. CASE /\ \E i \in stops : /\ \A j \in stops : i <= j
                               /\ f.ptr < s[i].off \/ Type[s[i].obj] = "undefined"
           /\ fault' = [fault EXCEPT ![c].pc = "null"]
  BY Zenon, <1>1, <1>3, <1>5
<1>6. CASE stops = {} /\ fault' = [fault EXCEPT ![c].pc = IF half[f.obj] = 0 THEN "null" ELSE "torn"]
  BY Zenon, <1>1, <1>3, <1>6
<1>7. QED BY Zenon, <1>4, <1>5, <1>6 DEF Lookup

\* A fault starts at the kernel's mapper.
LEMMA PagefaultStarts ==
  ASSUME IInv, NEW c \in Cpus, NEW va \in Addresses, Pagefault(c, va)
  PROVE  /\ fault[c].pc # "loop" /\ fault'[c].pc \in {"segfault", "loop"} /\ OnPath(fault'[c])
         /\ \A d \in Cpus \ {c} : fault'[d] = fault[d]
<1> DEFINE f == [NoFault EXCEPT !.va = va, !.ptr = (va - PdBegin) % W, !.size = Window, !.off = PdBegin]
           label == IF va < PdBegin \/ f.ptr >= f.size THEN "segfault" ELSE "loop"
           g == [f EXCEPT !.pc = label]
<1>1. fault' = [fault EXCEPT ![c] = g] /\ fault[c].pc # "loop"
  BY Zenon DEF Pagefault
<1>2. /\ g.obj = Kernel /\ g.type = "mapper" /\ g.off = PdBegin /\ g.size = Window /\ g.path = << >>
      /\ g.pc \in {"segfault", "loop"}
  BY Zenon DEF NoFault
<1> HIDE DEF g
<1>3. Len(g.path) = 0 /\ 1..Len(g.path) = {}
  BY <1>2
<1>4. OnPath(g)
  BY Zenon, <1>2, <1>3, DomainWhole DEF OnPath, Chain, Where
<1>5. QED BY Zenon, <1>1, <1>2, <1>4 DEF IInv

\* Every step keeps the regions and the paths.
LEMMA NextPaths ==
  ASSUME IInv, IInv', RegionInv, PathInv, [Next]_vars
  PROVE  RegionInv' /\ PathInv'
<1>0. \A c \in Cpus : fault'[c] \in Fault
  BY Zenon DEF IInv
<1>1. ASSUME NEW m \in Mappers, NEW o \in Objects, Insert(m, o), UNCHANGED fault
      PROVE  RegionInv' /\ PathInv'
  <2>1. /\ \A l \in Mappers : Regions(l) \subseteq Regions(l)'
        /\ \A l \in Mappers : \A r \in Regions(l)' : r \in Regions(l) \/ (l = m /\ r.obj = o /\ Whole(r.off))
    BY Zenon, <1>1, InsertRegions
  <2>2. QED BY Zenon, <1>1, <2>1, FaultsStay
<1>2. ASSUME UNCHANGED child,
             \A c \in Cpus : fault'[c].pc = "loop" => fault'[c] = fault[c] \/ OnPath(fault'[c])
      PROVE  RegionInv' /\ PathInv'
  <2>1. \A l : Regions(l)' = Regions(l)
    BY Zenon, <1>2 DEF Regions
  <2>2. QED BY Zenon, <1>0, <1>2, <2>1, FaultsStay
<1>3. CASE RmInit
  BY Zenon, <1>1, <1>3, ConstantsOK DEF RmInit
<1>4. ASSUME NEW m \in Mappers, NEW o \in Objects, RmInsert(m, o) PROVE RegionInv' /\ PathInv'
  BY Zenon, <1>1, <1>4 DEF RmInsert
<1>5. ASSUME NEW m \in Mappers, Linked(m) PROVE RegionInv' /\ PathInv'
  BY Zenon, <1>2, <1>5 DEF Linked
<1>6. ASSUME NEW c \in Cpus, Lookup(c) PROVE RegionInv' /\ PathInv'
  <2>1. child' = child
    BY Zenon, <1>6 DEF Lookup
  <2>2. \A d \in Cpus : fault'[d].pc = "loop" => fault'[d] = fault[d] \/ OnPath(fault'[d])
    BY Zenon, <1>6, LookupSteps
  <2>3. QED BY Zenon, <1>2, <2>1, <2>2
<1>7. ASSUME NEW c \in Cpus, NEW va \in Addresses, Pagefault(c, va) PROVE RegionInv' /\ PathInv'
  <2>1. child' = child
    BY Zenon, <1>7 DEF Pagefault
  <2>2. QED BY Zenon, <1>2, <1>7, <2>1, PagefaultStarts
<1>8. ASSUME NEW c \in Cpus, MapDataspace(c) PROVE RegionInv' /\ PathInv'
  <2>1. child' = child /\ fault' = [fault EXCEPT ![c].pc = "ok"]
    BY Zenon, <1>8 DEF MapDataspace
  <2>2. fault \in [Cpus -> Fault]
    BY Zenon DEF IInv
  <2>3. \A d \in Cpus : d # c => fault'[d] = fault[d]
    BY Zenon, <2>1, <2>2
  <2>4. fault'[c].pc = "ok"
    BY Zenon, <2>1, <2>2 DEF Fault
  <2>5. QED BY Zenon, <1>2, <2>1, <2>3, <2>4
<1>9. CASE UNCHANGED vars
  BY Zenon, <1>2, <1>9 DEF vars
<1>10. QED BY Zenon, <1>3, <1>4, <1>5, <1>6, <1>7, <1>8, <1>9 DEF Next, Dispatch

-----------------------------------------------------------------------------
\* What the round enters that maps a dataspace.
LEMMA MapRight ==
  ASSUME IInv, RegionInv, PathInv, NEW c \in Cpus, MapDataspace(c)
  PROVE  FindsPage(c)
<1> DEFINE f == fault[c]
           here == Where(f, Len(f.path))
           e == f.path[Len(f.path)]
           pages == DsPages[f.obj]
           b == f.off \div P
           k == f.ptr \div P
           own == f.va \div P
           m == Mapped(f)
<1>1. /\ f \in Fault /\ InWindow(f) /\ f.pc = "loop" /\ f.type = "dataspace" /\ OnPath(f)
      /\ fault \in [Cpus -> Fault] /\ DOMAIN pte = 0..(W \div P - 1) /\ pte' = Entered(f)
      /\ fault' = [fault EXCEPT ![c].pc = "ok"]
  BY Zenon DEF IInv, MapDataspace, PathInv
<1>2. fault'[c].pc = "ok"
  BY Zenon, <1>1 DEF Fault
<1>3. /\ Chain(f) /\ here.obj = f.obj /\ here.type = "dataspace" /\ here.base = f.off
      /\ Whole(f.size) /\ Whole(f.off) /\ (Len(f.path) # 0 => f.size <= Size(e.r.obj))
  BY Zenon, <1>1 DEF OnPath
<1>4. Len(f.path) \in Nat /\ Len(f.path) # 0
  <2>1. Len(f.path) \in Nat
    BY <1>1 DEF Fault
  <2>2. QED BY Zenon, <1>3, <2>1 DEF Where
<1>5. /\ e.base + e.r.off = f.off /\ e.r \in Regions(e.m) /\ e.m \in Mappers
      /\ Target[e.r.obj] = f.obj /\ Type[e.r.obj] = "dataspace"
  <2>1. Len(f.path) \in 1..Len(f.path) /\ f.path \in Seq(Round) /\ e \in Round
    BY <1>1, <1>4 DEF Fault
  <2>2. QED BY Zenon, <1>3, <1>4, <2>1 DEF Where, Chain, Round
<1>6. pages \in Seq(Nat) /\ Len(pages) \in Nat /\ DsSize(f.obj) \in Nat /\ Size(e.r.obj) \in Nat
  <2>1. e.r.obj \in Objects /\ Size(e.r.obj) \in Nat
    BY Zenon, <1>5, RegionFacts
  <2>2. pages \in Seq(Nat) /\ DsSize(f.obj) \in Nat
    BY Zenon, <1>5, <2>1, ObjectsOK
  <2>3. Len(pages) \in Nat
    <3> HIDE DEF pages
    <3>1. QED BY <2>2
  <2>4. QED BY Zenon, <2>1, <2>2, <2>3
<1> HIDE DEF f
<1>7. b \in Nat /\ P * b = f.off /\ k \in Nat /\ own = b + k
      /\ \E n \in Nat :
           /\ m = [i \in 0..(n - 1) |-> b + i]
           /\ k < Len(pages) /\ (k + 1) * P <= DsSize(f.obj) => k \in 0..(n - 1)
           /\ \A i \in 0..(n - 1) : P * i \in Nat /\ P * i < f.size
  BY Zenon, <1>1, <1>3, <1>6, PagesEntered
<1>8. PICK n \in Nat :
           /\ m = [i \in 0..(n - 1) |-> b + i]
           /\ k < Len(pages) /\ (k + 1) * P <= DsSize(f.obj) => k \in 0..(n - 1)
           /\ \A i \in 0..(n - 1) : P * i \in Nat /\ P * i < f.size
  BY Zenon, <1>7
<1> DEFINE In(p) == p \in Tabled /\ \E i \in DOMAIN m : m[i] = p
           At(p) == CHOOSE i \in DOMAIN m : m[i] = p
<1>9. \A p \in DOMAIN pte : pte'[p] = IF In(p) THEN pages[At(p) + 1] ELSE pte[p]
  BY Zenon, <1>1 DEF Entered
<1>10. ASSUME NEW p, In(p)
       PROVE  At(p) \in 0..(n - 1) /\ p = b + At(p) /\ p - b = At(p)
  <2>1. At(p) \in DOMAIN m /\ m[At(p)] = p
    BY Zenon, <1>10
  <2> HIDE DEF At
  <2>2. At(p) \in 0..(n - 1) /\ b + At(p) = p
    BY Zenon, <1>8, <2>1
  <2> HIDE DEF b
  <2>3. QED BY <1>7, <2>2
<1> HIDE DEF m, At, b, k, own, pages
<1>11. ASSUME own \in Tabled, own - b \in 0..(Len(pages) - 1), (own - b + 1) * P <= DsSize(f.obj)
       PROVE  pte'[own] = pages[own - b + 1]
  <2>1. own - b = k
    BY <1>7
  <2>2. k < Len(pages) /\ (k + 1) * P <= DsSize(f.obj)
    BY <1>6, <1>7, <1>11, <2>1
  <2>3. k \in 0..(n - 1)
    BY Zenon, <1>8, <2>2
  <2>4. k \in DOMAIN m /\ m[k] = own
    BY Zenon, <1>7, <1>8, <2>3
  <2>5. In(own) /\ own \in DOMAIN pte
    BY Zenon, <1>1, <1>11, <2>4, ObjectsOK
  <2>6. At(own) = own - b
    BY Zenon, <1>10, <2>5
  <2>7. QED BY Zenon, <1>9, <2>5, <2>6
<1>12. ASSUME NEW p \in DOMAIN pte, pte'[p] # pte[p]
       PROVE  pte'[p] = pages[p - b + 1] /\ Holds(e.base, e.r, p * P)
  <2>1. In(p) /\ pte'[p] = pages[At(p) + 1]
    BY Zenon, <1>9, <1>12
  <2>2. At(p) \in 0..(n - 1) /\ p = b + At(p) /\ p - b = At(p)
    BY Zenon, <1>10, <2>1
  <2>3. P * At(p) \in Nat /\ P * At(p) < f.size
    BY Zenon, <1>8, <2>2
  <2> DEFINE i == At(p)
             z == Size(e.r.obj)
             h == e.base + e.r.off
             a == P * i
  <2> HIDE DEF i, z, h
  <2>4. p * P = P * b + P * i
    <3>1. P \in Nat /\ i \in Nat /\ b \in Nat /\ p = b + i
      BY <1>7, <1>8, <2>2, ConstantsOK DEF i
    <3>2. QED BY <3>1
  <2> HIDE DEF a
  <2>5. /\ h = f.off /\ f.off \in Nat /\ f.size \in Nat /\ z \in Nat /\ f.size <= z /\ p * P = f.off + a
        /\ a \in Nat /\ a < f.size
    BY Zenon, <1>1, <1>3, <1>4, <1>5, <1>6, <1>7, <2>3, <2>4 DEF h, z, a, i, Fault
  <2>6. h <= p * P /\ p * P < h + z
    <3> DEFINE q == p * P
    <3> HIDE DEF q
    <3>1. q = f.off + a
      BY Zenon, <2>5 DEF q
    <3>2. h <= q /\ q < h + z
      BY <2>5, <3>1
    <3>3. QED BY Zenon, <3>2 DEF q
  <2>7. QED BY Zenon, <2>1, <2>2, <2>6 DEF Holds, h, z
<1>13. QED BY Zenon, <1>2, <1>3, <1>11, <1>12 DEF FindsPage, f, b, own, pages

\* What is at the address when a lookup misses.
LEMMA MissRight ==
  ASSUME IInv, RegionInv, PathInv, NEW c \in Cpus, Lookup(c)
  PROVE  FindsPage(c)
<1> DEFINE f == fault[c]
           here == Where(f, Len(f.path))
<1>1. /\ f \in Fault /\ InWindow(f) /\ f.pc = "loop" /\ f.obj \in Mappers /\ OnPath(f)
  BY Zenon DEF IInv, Lookup, PathInv
<1>2. Chain(f) /\ here.obj = f.obj /\ here.base = f.off
  BY Zenon, <1>1 DEF OnPath
<1>3. /\ f.ptr \in Nat /\ f.off \in Nat /\ f.va = f.off + f.ptr
  BY Zenon, <1>1 DEF Fault, InWindow
<1>4. fault'[c].pc # "ok" /\ (fault'[c].pc = "torn" => half[f.obj] # 0)
  BY Zenon, LookupSteps
<1>5. ASSUME fault'[c].pc = "null", NEW r \in Regions(f.obj), Type[r.obj] # "undefined",
             Holds(f.off, r, f.va)
      PROVE  FALSE
  <2>1. LET m == f.obj
            a == f.ptr
        IN  \/ Stops(m, a) = {} /\ half[m] = 0
            \/ \E i \in Stops(m, a) :
                 /\ \A j \in Stops(m, a) : i <= j
                 /\ a < child[m][i].off \/ Type[child[m][i].obj] = "undefined"
    BY Zenon, <1>5, LookupSteps
  <2>2. r.off \in Nat /\ Size(r.obj) \in Nat
    BY Zenon, <1>1, <1>5, RegionFacts
  <2>3. r.off <= f.ptr /\ f.ptr < r.off + Size(r.obj)
    <3> DEFINE z == Size(r.obj)
    <3>1. f.off + r.off <= f.off + f.ptr /\ f.off + f.ptr < f.off + r.off + z /\ z \in Nat
      BY Zenon, <1>3, <1>5, <2>2 DEF Holds
    <3> HIDE DEF f, z
    <3>2. r.off <= f.ptr /\ f.ptr < r.off + z
      BY <1>3, <2>2, <3>1
    <3>3. QED BY Zenon, <3>2 DEF z
  <2> HIDE DEF f
  <2>4. QED BY Zenon, <1>1, <1>3, <1>5, <2>1, <2>3, NothingThere
<1> HIDE DEF f
<1>6. QED BY Zenon, <1>2, <1>4, <1>5 DEF FindsPage, f

\* What rm_pagefault finds and enters, for every nesting of mappers, every
\* interleaving with other faults and with insertions, and any number of
\* rounds: a chain of regions that hold the address, the frames of the
\* dataspace at its end and no others; and a lookup that misses, or stumbles over
\* a list that is half linked, does so only when there is nothing to find, or
\* something is being inserted there.
THEOREM PagefaultRight == Spec => PagefaultFindsPage
<1> DEFINE A == \A c \in Cpus : FindsPage(c)
<1>1. Init => IInv /\ RegionInv /\ PathInv
  <2> SUFFICES ASSUME Init PROVE IInv /\ RegionInv /\ PathInv
    OBVIOUS
  <2>1. IInv
    BY Zenon, InitIInv
  <2>2. \A m \in Mappers : child[m] = << >>
    BY Zenon DEF Init
  <2>3. \A m \in Mappers : Regions(m) = {}
    BY <2>2 DEF Regions
  <2>4. \A c \in Cpus : fault[c].pc = "idle"
    BY Zenon DEF Init, NoFault
  <2>5. QED BY Zenon, <2>1, <2>3, <2>4 DEF RegionInv, PathInv
<1>2. IInv /\ RegionInv /\ PathInv /\ [Next]_vars => (IInv /\ RegionInv /\ PathInv)'
  BY Zenon, NextIInv, NextPaths
<1>3. IInv /\ RegionInv /\ PathInv /\ [Next]_vars => [A]_vars
  <2> SUFFICES ASSUME IInv, RegionInv, PathInv, [Next]_vars, NEW c \in Cpus PROVE FindsPage(c) \/ UNCHANGED vars
    BY Zenon
  <2>1. fault[c].pc = "loop" => Chain(fault[c])
    BY Zenon DEF PathInv, OnPath
  <2>2. ASSUME fault'[c] = fault[c] PROVE FindsPage(c)
    <3>1. fault[c].pc = "loop" => fault'[c].pc \notin {"ok", "null", "torn"}
      BY Zenon, <2>2
    <3>2. QED BY Zenon, <2>1, <3>1 DEF FindsPage
  <2>3. CASE \E d \in Cpus : Lookup(d)
    <3>1. PICK d \in Cpus : Lookup(d)
      BY Zenon, <2>3
    <3>2. CASE d = c
      BY Zenon, <3>1, <3>2, MissRight
    <3>3. CASE d # c
      BY Zenon, <3>1, <3>3, <2>2, LookupSteps
    <3>4. QED BY Zenon, <3>2, <3>3
  <2>4. CASE \E d \in Cpus : MapDataspace(d)
    <3>1. PICK d \in Cpus : MapDataspace(d)
      BY Zenon, <2>4
    <3>2. CASE d = c
      BY Zenon, <3>1, <3>2, MapRight
    <3>3. CASE d # c
      <4>1. fault'[c] = fault[c]
        BY Zenon, <3>1, <3>3 DEF MapDataspace, IInv
      <4>2. QED BY Zenon, <4>1, <2>2
    <3>4. QED BY Zenon, <3>2, <3>3
  <2>5. CASE \E d \in Cpus : \E va \in Addresses : Pagefault(d, va)
    <3>1. PICK d \in Cpus, va \in Addresses : Pagefault(d, va)
      BY Zenon, <2>5
    <3>2. CASE d = c
      BY Zenon, <3>1, <3>2, PagefaultStarts DEF FindsPage
    <3>3. CASE d # c
      BY Zenon, <3>1, <3>3, <2>2, PagefaultStarts
    <3>4. QED BY Zenon, <3>2, <3>3
  <2>6. CASE RmInit \/ \E m \in Mappers : Linked(m) \/ \E o \in Objects : RmInsert(m, o)
    BY Zenon, <2>2, <2>6 DEF RmInit, Linked, RmInsert
  <2>7. QED BY Zenon, <2>3, <2>4, <2>5, <2>6 DEF Next, Dispatch
<1>4. QED BY <1>1, <1>2, <1>3, PTL DEF Spec, PagefaultFindsPage

=============================================================================
