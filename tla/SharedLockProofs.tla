-------------------------- MODULE SharedLockProofs --------------------------
(***************************************************************************)
(* Safety of the shared lock for any number of threads and any calls:      *)
(* TypeOK, MutualExclusion, NumberCountsHolders, NoNullInQueue,            *)
(* DrainedIsFree and DrainForbidsLock of SharedLock.                       *)
(***************************************************************************)
EXTENDS SharedLock, FiniteSetTheorems, TLAPS

Waiting == {"yield", "relock", "woken"}

\* The spinlock has the owner that is in a section.
SpinInv == \A t \in Threads : spin = t <=> pc[t] \in {"body", "woken"}

\* What a thread holds while it is in a call: sl_unlock never waits.
CallInv ==
  \A t \in Threads :
     /\ pc[t] = "idle" <=> fn[t] = "none"
     /\ fn[t] # "none" => type[t] \in Types
     /\ fn[t] = "sl_unlock" => held[t] = type[t] /\ pc[t] \in {"enter", "body"}
     /\ fn[t] \notin {"none", "sl_unlock"} => held[t] = "NONE"

\* What sl_drain knows in its loops and after its return.
DrainInv ==
  /\ drained => drain /\ number = 0
  /\ \A t \in Threads : pc[t] \in Waiting =>
       /\ site[t] = "drain_locks" => drain
       /\ site[t] = "drain_waiters" => drain /\ number = 0

\* The inductive invariant.
IInv ==
  /\ TypeOK /\ SpinInv /\ CallInv /\ DrainInv
  /\ NumberCountsHolders /\ NoNullInQueue

RingType == [next : [Nodes -> Nodes \cup {Null}], prev : [Nodes -> Nodes \cup {Null}]]

-----------------------------------------------------------------------------
\* linked_ring_insert of a thread's entry, linked or not, keeps the queue
\* free of null pointers.
LEMMA InsertNoNull ==
  ASSUME NEW r \in RingType, NoNull(r), NEW t \in Threads, NEW after \in BOOLEAN
  PROVE  /\ RingInsert(r, WqHead, t, after) \in RingType
         /\ NoNull(RingInsert(r, WqHead, t, after))
<1> DEFINE a == IF after THEN WqHead ELSE r.prev[WqHead]
           c == IF after THEN r.next[WqHead] ELSE WqHead
           n == [r.next EXCEPT ![a] = t, ![t] = c]
           p == [r.prev EXCEPT ![c] = t, ![t] = a]
<1>1. /\ a \in Nodes /\ c \in Nodes /\ t \in Nodes /\ Null \notin Nodes
      /\ r.next[a] # Null /\ r.next[c] # Null /\ r.prev[a] # Null /\ r.prev[c] # Null
  BY DistinctNodes DEF NoNull, RingType, Nodes
<1>2. RingInsert(r, WqHead, t, after) = [next |-> n, prev |-> p]
  BY DEF RingInsert, RingLink
<1> HIDE DEF a, c
<1>3. n \in [Nodes -> Nodes \cup {Null}] /\ p \in [Nodes -> Nodes \cup {Null}]
  BY <1>1 DEF RingType
<1>4. \A x \in Nodes : /\ n[x] = IF x = t THEN c ELSE IF x = a THEN t ELSE r.next[x]
                       /\ p[x] = IF x = t THEN a ELSE IF x = c THEN t ELSE r.prev[x]
  BY <1>1 DEF RingType
<1> HIDE DEF n, p
<1>5. n[WqHead] # Null
  BY <1>1, <1>4 DEF NoNull, Nodes
<1>6. ASSUME NEW x \in Nodes
      PROVE  /\ n[x] = Null <=> p[x] = Null
             /\ n[x] # Null => n[n[x]] # Null /\ n[p[x]] # Null
  <2>1. \A y \in Nodes : /\ n[y] = Null <=> y # t /\ r.next[y] = Null
                         /\ p[y] = Null <=> y # t /\ r.prev[y] = Null
    BY <1>1, <1>4
  <2>2. \A y \in Nodes : r.next[y] = Null <=> r.prev[y] = Null
    BY DEF NoNull
  <2>3. n[x] # Null => n[x] \in Nodes /\ (n[x] = t \/ r.next[n[x]] # Null)
    BY <1>1, <1>3, <1>4, <2>1 DEF NoNull
  <2>4. n[x] # Null => p[x] \in Nodes /\ (p[x] = t \/ r.next[p[x]] # Null)
    BY <1>1, <1>3, <1>4, <2>1, <2>2 DEF NoNull
  <2>5. QED
    BY <2>1, <2>2, <2>3, <2>4
<1>7. QED
  BY <1>2, <1>3, <1>5, <1>6 DEF NoNull, RingType

\* waitqueue_get_first keeps the queue free of null pointers.
LEMMA GetFirstNoNull ==
  ASSUME NEW r \in RingType, NoNull(r)
  PROVE  GetFirst(r) \in RingType /\ NoNull(GetFirst(r))
<1>1. CASE r.prev[WqHead] = WqHead
  BY <1>1 DEF GetFirst
<1>2. CASE r.prev[WqHead] # WqHead
  <2> DEFINE e == r.prev[WqHead]
             a == r.prev[e]
             c == r.next[e]
             n == [r.next EXCEPT ![a] = c]
             p == [r.prev EXCEPT ![c] = a]
  <2>1. /\ e \in Nodes /\ a \in Nodes /\ c \in Nodes /\ Null \notin Nodes
        /\ r.next[a] # Null /\ r.next[c] # Null
    BY DistinctNodes DEF NoNull, RingType, Nodes
  <2>2. GetFirst(r) = [next |-> n, prev |-> p]
    BY <1>2 DEF GetFirst, RingRemove
  <2> HIDE DEF a, c, e
  <2>3. n \in [Nodes -> Nodes \cup {Null}] /\ p \in [Nodes -> Nodes \cup {Null}]
    BY <2>1 DEF RingType
  <2>4. \A x \in Nodes : /\ n[x] = IF x = a THEN c ELSE r.next[x]
                         /\ p[x] = IF x = c THEN a ELSE r.prev[x]
    BY <2>1 DEF RingType
  <2> HIDE DEF n, p
  <2>5. n[WqHead] # Null
    BY <2>1, <2>4 DEF NoNull, Nodes
  <2>6. ASSUME NEW x \in Nodes
        PROVE  /\ n[x] = Null <=> p[x] = Null
               /\ n[x] # Null => n[n[x]] # Null /\ n[p[x]] # Null
    <3>1. \A y \in Nodes : /\ n[y] = Null <=> r.next[y] = Null
                           /\ p[y] = Null <=> r.prev[y] = Null
      BY <2>1, <2>4 DEF NoNull
    <3>2. \A y \in Nodes : r.next[y] = Null <=> r.prev[y] = Null
      BY DEF NoNull
    <3>3. n[x] # Null => n[x] \in Nodes /\ r.next[n[x]] # Null
      BY <2>1, <2>3, <2>4, <3>1 DEF NoNull
    <3>4. n[x] # Null => p[x] \in Nodes /\ r.next[p[x]] # Null
      BY <2>1, <2>3, <2>4, <3>1, <3>2 DEF NoNull
    <3>5. QED
      BY <3>1, <3>2, <3>3, <3>4
  <2>7. QED
    BY <2>2, <2>3, <2>5, <2>6 DEF NoNull, RingType
<1>3. QED BY <1>1, <1>2

-----------------------------------------------------------------------------
\* The threads being finitely many, the holders of a type can be counted.
LEMMA HoldersFinite ==
  \A ty : IsFiniteSet(Holders(ty)) /\ Cardinality(Holders(ty)) \in Nat
BY ThreadsFinite, FS_Subset, FS_CardinalityType DEF Holders

\* The initial state.
LEMMA InitIInv == Init => IInv
<1> SUFFICES ASSUME Init PROVE IInv
  OBVIOUS
<1>1. TypeOK
  <2>1. ring \in RingType
    BY DEF Init, RingType, Nodes
  <2>2. drain \in BOOLEAN /\ drained \in BOOLEAN
    BY Zenon DEF Init
  <2>3. /\ number \in Nat \cup {-1}
        /\ spin \in Threads \cup {Null}
        /\ pc \in [Threads -> Labels]
        /\ fn \in [Threads -> Fns \cup {"none"}]
        /\ type \in [Threads -> Types \cup {"NONE"}]
        /\ site \in [Threads -> Sites]
        /\ ret \in [Threads -> {"ok", "ENOLCK"}]
        /\ held \in [Threads -> Types \cup {"NONE"}]
    BY DEF Init, Labels, Sites
  <2>4. QED
    BY <2>1, <2>2, <2>3 DEF TypeOK, RingType
<1>2. SpinInv /\ CallInv /\ DrainInv
  BY DistinctNodes DEF Init, SpinInv, CallInv, DrainInv, Waiting
<1>3. NumberCountsHolders
  <2>1. Holders("SHARED") = {} /\ Holders("EXCLUSIVE") = {}
    BY DEF Init, Holders
  <2>2. QED BY <2>1, FS_EmptySet DEF Init, NumberCountsHolders
<1>4. NoNullInQueue
  BY DistinctNodes DEF Init, NoNullInQueue, NoNull, Nodes
<1>5. QED BY <1>1, <1>2, <1>3, <1>4 DEF IInv

\* A section that ends in waitqueue_wait: the lock keeps its holders.
LEMMA WaitStep ==
  ASSUME IInv, NEW t \in Threads, spin = t, fn[t] \notin {"none", "sl_unlock"},
         NEW r \in RingType, NoNull(r), NEW after \in BOOLEAN, NEW s \in Sites,
         Wait(t, r, after, s),
         drain' \in BOOLEAN, drain => drain',
         s \in {"drain_locks", "drain_waiters"} => drain',
         s = "drain_waiters" => number = 0
  PROVE  IInv'
<1>1. ring' \in RingType /\ NoNull(ring')
  BY InsertNoNull DEF Wait
<1>2. TypeOK'
  BY <1>1 DEF IInv, TypeOK, Wait, RingType, Labels
<1>3. SpinInv'
  BY DistinctNodes DEF IInv, TypeOK, SpinInv, Wait
<1>4. CallInv'
  BY DEF IInv, TypeOK, CallInv, SpinInv, Wait
<1>5. DrainInv'
  BY DEF IInv, TypeOK, DrainInv, SpinInv, Wait, Waiting
<1>6. NumberCountsHolders'
  BY DEF IInv, NumberCountsHolders, Holders, Wait
<1>7. NoNullInQueue'
  BY <1>1 DEF NoNullInQueue
<1>8. QED BY <1>2, <1>3, <1>4, <1>5, <1>6, <1>7 DEF IInv

\* A section that ends in a return and leaves sl_number alone.
LEMMA ReturnStep ==
  ASSUME IInv, NEW t \in Threads, spin = t, fn[t] \notin {"none", "sl_unlock"},
         NEW result \in {"ok", "ENOLCK"}, Return(t, result),
         ring' \in RingType, NoNull(ring'), UNCHANGED <<number, held>>,
         drain' \in BOOLEAN, drain => drain',
         drained' \in BOOLEAN, drained' => drain' /\ number = 0
  PROVE  IInv'
<1>1. TypeOK'
  BY DEF IInv, TypeOK, Return, RingType, Labels, Fns, LockFns, Types, Sites
<1>2. SpinInv'
  BY DistinctNodes DEF IInv, TypeOK, SpinInv, Return
<1>3. CallInv'
  BY DEF IInv, TypeOK, CallInv, SpinInv, Return
<1>4. DrainInv'
  BY DEF IInv, TypeOK, DrainInv, SpinInv, Return, Waiting
<1>5. NumberCountsHolders'
  BY DEF IInv, NumberCountsHolders, Holders
<1>6. NoNullInQueue'
  BY DEF NoNullInQueue
<1>7. QED BY <1>1, <1>2, <1>3, <1>4, <1>5, <1>6 DEF IInv

\* The tail of sl_lock_internal: the thread waits or becomes a holder.
LEMMA AcquireOrWaitStep ==
  ASSUME IInv, NEW t \in Threads, spin = t, fn[t] \notin {"none", "sl_unlock"},
         ~ drain, AcquireOrWait(t)
  PROVE  IInv'
<1>1. CASE Busy(type[t]) /\ Wait(t, ring, FALSE, "internal") /\ UNCHANGED drain
  BY <1>1, WaitStep DEF IInv, TypeOK, NoNullInQueue, RingType, Sites
<1>2. CASE /\ ~ Busy(type[t])
           /\ number' = IF type[t] = "SHARED" THEN number + 1 ELSE -1
           /\ ring' = IF type[t] = "SHARED" THEN GetFirst(ring) ELSE ring
           /\ held' = [held EXCEPT ![t] = type[t]]
           /\ Return(t, "ok")
           /\ UNCHANGED <<drain, drained>>
  <2>1. ring' \in RingType /\ NoNull(ring')
    BY <1>2, GetFirstNoNull DEF IInv, TypeOK, NoNullInQueue, RingType
  <2>2. held[t] = "NONE" /\ type[t] \in Types
    BY DEF IInv, CallInv
  <2>3. TypeOK'
    BY <1>2, <2>1, <2>2 DEF Busy, IInv, TypeOK, Return, RingType, Labels, Fns, LockFns, Types, Sites
  <2>4. SpinInv'
    BY <1>2, DistinctNodes DEF IInv, TypeOK, SpinInv, Return
  <2>5. CallInv'
    BY <1>2 DEF IInv, TypeOK, CallInv, SpinInv, Return
  <2>6. DrainInv'
    BY <1>2 DEF IInv, TypeOK, DrainInv, SpinInv, Return, Waiting
  <2>7. NumberCountsHolders'
    <3>1. CASE type[t] = "SHARED"
      <4>1. number >= 0
        BY <1>2, <3>1 DEF Busy, IInv, TypeOK
      <4>2. number = Cardinality(Holders("SHARED")) /\ Holders("EXCLUSIVE") = {}
        BY <4>1 DEF IInv, NumberCountsHolders
      <4>3. /\ Holders("SHARED")' = Holders("SHARED") \cup {t}
            /\ t \notin Holders("SHARED")
            /\ Holders("EXCLUSIVE")' = {}
        BY <1>2, <2>2, <3>1, <4>2 DEF Holders, IInv, TypeOK
      <4>4. Cardinality(Holders("SHARED")') = Cardinality(Holders("SHARED")) + 1
        BY <4>3, HoldersFinite, FS_AddElement
      <4>5. QED BY <1>2, <3>1, <4>2, <4>3, <4>4 DEF NumberCountsHolders
    <3>2. CASE type[t] = "EXCLUSIVE"
      <4>1. number = 0
        BY <1>2, <3>2 DEF Busy
      <4>2. Cardinality(Holders("SHARED")) = 0 /\ Holders("EXCLUSIVE") = {}
        BY <4>1 DEF IInv, NumberCountsHolders
      <4>3. Holders("SHARED") = {}
        BY <4>2, HoldersFinite, FS_EmptySet
      <4>4. Holders("SHARED")' = {} /\ Holders("EXCLUSIVE")' = {t}
        BY <1>2, <3>2, <4>2, <4>3 DEF Holders, IInv, TypeOK
      <4>5. QED BY <1>2, <3>2, <4>4, FS_Singleton DEF NumberCountsHolders
    <3>3. QED BY <2>2, <3>1, <3>2 DEF Types
  <2>8. NoNullInQueue'
    BY <2>1 DEF NoNullInQueue
  <2>9. QED BY <2>3, <2>4, <2>5, <2>6, <2>7, <2>8 DEF IInv
<1>3. QED BY <1>1, <1>2 DEF AcquireOrWait

\* sl_lock_internal, from its start.
LEMMA LockInternalStep ==
  ASSUME IInv, NEW t \in Threads, spin = t, fn[t] \notin {"none", "sl_unlock"},
         LockInternal(t)
  PROVE  IInv'
<1>1. CASE drain /\ Return(t, "ENOLCK") /\ UNCHANGED <<lockVars, held, drained>>
  BY <1>1, ReturnStep DEF IInv, TypeOK, NoNullInQueue, RingType, DrainInv, lockVars
<1>2. CASE ~ drain /\ AcquireOrWait(t)
  BY <1>2, AcquireOrWaitStep
<1>3. QED BY <1>1, <1>2 DEF LockInternal

\* The second loop of sl_drain, entered with the flag set and no holder left.
LEMMA DrainWaitersStep ==
  ASSUME IInv, NEW t \in Threads, spin = t, fn[t] \notin {"none", "sl_unlock"},
         NEW r \in RingType, NoNull(r), drain' = TRUE, number = 0,
         DrainWaiters(t, r)
  PROVE  IInv'
<1>1. CASE Wait(t, r, TRUE, "drain_waiters")
  BY <1>1, WaitStep DEF Sites
<1>2. CASE ring' = r /\ drained' = TRUE /\ Return(t, "ok") /\ UNCHANGED <<number, held>>
  BY <1>2, ReturnStep
<1>3. QED BY <1>1, <1>2 DEF DrainWaiters

\* The first loop of sl_drain, which falls into the second.
LEMMA DrainLocksStep ==
  ASSUME IInv, NEW t \in Threads, spin = t, fn[t] \notin {"none", "sl_unlock"},
         NEW r \in RingType, NoNull(r), drain' = TRUE,
         DrainLocks(t, r)
  PROVE  IInv'
<1>1. CASE Wait(t, r, TRUE, "drain_locks")
  BY <1>1, WaitStep DEF Sites
<1>2. CASE number = 0 /\ DrainWaiters(t, r)
  BY <1>2, DrainWaitersStep
<1>3. QED BY <1>1, <1>2 DEF DrainLocks

\* sl_unlock: the holder, and with it its share of sl_number, goes away.
LEMMA UnlockStep ==
  ASSUME IInv, NEW t \in Threads, SlUnlock(t)
  PROVE  IInv'
<1>1. spin = t /\ held[t] = type[t] /\ type[t] \in Types
  BY DEF SlUnlock, UnlockTo, IInv, SpinInv, CallInv
<1>2. ring' \in RingType /\ NoNull(ring')
  BY GetFirstNoNull DEF SlUnlock, UnlockTo, IInv, TypeOK, NoNullInQueue, RingType
<1>3. number' \in Nat \cup {-1} => TypeOK'
  BY <1>2 DEF IInv, TypeOK, SlUnlock, UnlockTo, Return, RingType, Labels, Fns, LockFns, Types, Sites
<1>4. SpinInv'
  BY <1>1, DistinctNodes DEF IInv, TypeOK, SpinInv, SlUnlock, UnlockTo, Return
<1>5. CallInv'
  BY <1>1 DEF IInv, TypeOK, CallInv, SpinInv, SlUnlock, UnlockTo, Return
<1>6. NumberCountsHolders' /\ number # 0 /\ number' \in Nat
  <2>1. CASE type[t] = "SHARED"
    <3>1. t \in Holders("SHARED")
      BY <1>1, <2>1 DEF Holders
    <3>2. number = Cardinality(Holders("SHARED")) /\ Holders("EXCLUSIVE") = {}
      BY <3>1 DEF IInv, NumberCountsHolders
    <3>3. /\ Holders("SHARED")' = Holders("SHARED") \ {t}
          /\ Holders("EXCLUSIVE")' = {}
      BY <1>1, <2>1, <3>2 DEF SlUnlock, UnlockTo, Holders, IInv, TypeOK
    <3>4. /\ Cardinality(Holders("SHARED")') = Cardinality(Holders("SHARED")) - 1
          /\ Cardinality(Holders("SHARED")) # 0
      BY <3>1, <3>3, HoldersFinite, FS_RemoveElement, FS_EmptySet
    <3>5. QED BY <2>1, <3>2, <3>3, <3>4, HoldersFinite DEF SlUnlock, UnlockTo, NumberCountsHolders
  <2>2. CASE type[t] = "EXCLUSIVE"
    <3>1. t \in Holders("EXCLUSIVE")
      BY <1>1, <2>2 DEF Holders
    <3>2. /\ number = -1 /\ Holders("SHARED") = {}
          /\ Cardinality(Holders("EXCLUSIVE")) = 1
      BY <3>1 DEF IInv, NumberCountsHolders
    <3>3. Holders("EXCLUSIVE") = {t}
      BY <3>1, <3>2, HoldersFinite, FS_Singleton
    <3>4. Holders("SHARED")' = {} /\ Holders("EXCLUSIVE")' = {}
      BY <1>1, <2>2, <3>2, <3>3 DEF SlUnlock, UnlockTo, Holders, IInv, TypeOK
    <3>5. QED BY <2>2, <3>2, <3>4, FS_EmptySet DEF SlUnlock, UnlockTo, NumberCountsHolders
  <2>3. QED BY <1>1, <2>1, <2>2 DEF Types
<1>7. DrainInv'
  BY <1>1, <1>6 DEF IInv, TypeOK, DrainInv, SpinInv, SlUnlock, UnlockTo, Return, Waiting
<1>8. NoNullInQueue'
  BY <1>2 DEF NoNullInQueue
<1>9. QED BY <1>3, <1>4, <1>5, <1>6, <1>7, <1>8 DEF IInv

-----------------------------------------------------------------------------
\* Every step keeps the invariant.
LEMMA NextIInv == IInv /\ [Next]_vars => IInv'
<1> SUFFICES ASSUME IInv, [Next]_vars PROVE IInv'
  OBVIOUS
<1>1. CASE UNCHANGED vars
  BY <1>1 DEF vars, IInv, TypeOK, SpinInv, CallInv, DrainInv, NumberCountsHolders,
              Holders, NoNullInQueue, NoNull
<1>2. ASSUME NEW t \in Threads, NEW f \in Fns, NEW ty \in Types, Call(t, f, ty)
      PROVE  IInv'
  <2>1. TypeOK' /\ NoNullInQueue'
    BY <1>2 DEF IInv, TypeOK, Call, lockVars, Labels, NoNullInQueue, NoNull
  <2>2. SpinInv' /\ CallInv'
    BY <1>2 DEF IInv, TypeOK, Call, SpinInv, CallInv, Fns, LockFns, Types
  <2>3. DrainInv'
    BY <1>2 DEF IInv, TypeOK, Call, lockVars, DrainInv, Waiting
  <2>4. NumberCountsHolders'
    BY <1>2 DEF IInv, Call, lockVars, NumberCountsHolders, Holders
  <2>5. QED BY <2>1, <2>2, <2>3, <2>4 DEF IInv
<1>3. ASSUME NEW t \in Threads, KernlockLock(t)
      PROVE  IInv'
  <2>1. TypeOK' /\ NoNullInQueue'
    BY <1>3 DEF IInv, TypeOK, KernlockLock, lockVars, callVars, Labels, NoNullInQueue, NoNull
  <2>2. SpinInv' /\ CallInv'
    BY <1>3, DistinctNodes DEF IInv, TypeOK, KernlockLock, callVars, SpinInv, CallInv
  <2>3. DrainInv'
    BY <1>3 DEF IInv, TypeOK, KernlockLock, lockVars, callVars, DrainInv, Waiting
  <2>4. NumberCountsHolders'
    BY <1>3 DEF IInv, KernlockLock, lockVars, NumberCountsHolders, Holders
  <2>5. QED BY <2>1, <2>2, <2>3, <2>4 DEF IInv
<1>4. ASSUME NEW t \in Threads, WaitReturn(t)
      PROVE  IInv'
  <2>1. TypeOK' /\ NoNullInQueue'
    BY <1>4 DEF IInv, TypeOK, WaitReturn, callVars, Labels, NoNullInQueue, NoNull
  <2>2. SpinInv' /\ CallInv'
    BY <1>4 DEF IInv, TypeOK, WaitReturn, callVars, SpinInv, CallInv
  <2>3. DrainInv'
    BY <1>4 DEF IInv, TypeOK, WaitReturn, callVars, DrainInv, Waiting
  <2>4. NumberCountsHolders'
    BY <1>4 DEF IInv, WaitReturn, NumberCountsHolders, Holders
  <2>5. QED BY <2>1, <2>2, <2>3, <2>4 DEF IInv
<1>5. ASSUME NEW t \in Threads, Section(t)
      PROVE  IInv'
  <2>1. pc[t] \in {"body", "woken"}
    BY <1>5 DEF Section, SlLock, SlLockFair, SlLockGreedy, LockWoken, SlUnlock, UnlockTo,
                SlTouch, SlDrain, DrainWoken
  <2>2. /\ spin = t /\ fn[t] # "none"
        /\ pc[t] = "woken" => fn[t] # "sl_unlock"
    BY <2>1 DEF IInv, SpinInv, CallInv
  <2>3. ring \in RingType /\ NoNull(ring)
    BY DEF IInv, TypeOK, NoNullInQueue, RingType
  <2>4. GetFirst(ring) \in RingType /\ NoNull(GetFirst(ring))
    BY <2>3, GetFirstNoNull
  <2>5. drain \in BOOLEAN /\ drained \in BOOLEAN /\ (drained => drain /\ number = 0)
    BY DEF IInv, TypeOK, DrainInv
  <2>6. CASE SlLock(t)
    <3>1. fn[t] = "sl_lock"
      BY <2>6 DEF SlLock
    <3>2. CASE drain /\ Return(t, "ENOLCK") /\ UNCHANGED <<lockVars, held, drained>>
      BY <2>2, <2>3, <2>5, <3>1, <3>2, ReturnStep DEF lockVars
    <3>3. CASE ~ drain /\ Wait(t, ring, TRUE, "fair") /\ UNCHANGED drain
      BY <2>2, <2>3, <2>5, <3>1, <3>3, WaitStep DEF Sites
    <3>4. CASE LockInternal(t)
      BY <2>2, <3>1, <3>4, LockInternalStep
    <3>5. QED BY <2>6, <3>2, <3>3, <3>4 DEF SlLock
  <2>7. CASE SlLockFair(t)
    BY <2>2, <2>7, LockInternalStep DEF SlLockFair
  <2>8. CASE SlLockGreedy(t)
    BY <2>2, <2>8, LockInternalStep DEF SlLockGreedy
  <2>9. CASE LockWoken(t)
    <3>1. fn[t] \notin {"none", "sl_unlock"}
      BY <2>2, <2>9 DEF LockWoken
    <3>2. CASE /\ drain
               /\ ring' = GetFirst(ring)
               /\ Return(t, "ENOLCK")
               /\ UNCHANGED <<number, drain, held, drained>>
      BY <2>2, <2>4, <2>5, <3>1, <3>2, ReturnStep
    <3>3. CASE ~ drain /\ AcquireOrWait(t)
      BY <2>2, <3>1, <3>3, AcquireOrWaitStep
    <3>4. QED BY <2>9, <3>2, <3>3 DEF LockWoken
  <2>10. CASE SlUnlock(t)
    BY <2>10, UnlockStep
  <2>11. CASE SlTouch(t)
    <3>1. fn[t] \notin {"none", "sl_unlock"} /\ UNCHANGED drain
      BY <2>2, <2>11 DEF SlTouch
    <3>2. CASE Wait(t, ring, FALSE, "touch")
      BY <2>2, <2>3, <2>5, <3>1, <3>2, WaitStep DEF Sites
    <3>3. CASE ring' = GetFirst(ring) /\ Return(t, "ok") /\ UNCHANGED <<number, held, drained>>
      BY <2>2, <2>4, <2>5, <3>1, <3>3, ReturnStep
    <3>4. QED BY <2>11, <3>2, <3>3 DEF SlTouch
  <2>12. CASE SlDrain(t)
    BY <2>2, <2>4, <2>12, DrainLocksStep DEF SlDrain
  <2>13. CASE DrainWoken(t)
    <3>1. fn[t] \notin {"none", "sl_unlock"} /\ UNCHANGED drain /\ pc[t] \in Waiting
      BY <2>2, <2>13 DEF DrainWoken, Waiting
    <3>2. CASE site[t] = "drain_locks" /\ DrainLocks(t, ring)
      BY <2>2, <2>3, <3>1, <3>2, DrainLocksStep DEF IInv, DrainInv
    <3>3. CASE site[t] = "drain_waiters" /\ DrainWaiters(t, ring)
      BY <2>2, <2>3, <3>1, <3>3, DrainWaitersStep DEF IInv, DrainInv
    <3>4. QED BY <2>13, <3>2, <3>3 DEF DrainWoken
  <2>14. QED
    BY <1>5, <2>6, <2>7, <2>8, <2>9, <2>10, <2>11, <2>12, <2>13 DEF Section
<1>6. QED BY <1>1, <1>2, <1>3, <1>4, <1>5 DEF Next

\* The inductive invariant holds in every state kern_lock.c can reach.
THEOREM Invariance == Spec => []IInv
BY InitIInv, NextIInv, PTL DEF Spec

\* The values of the variables of kern_lock.c and kern_wait.c.
THEOREM TypeCorrect == Spec => []TypeOK
<1>1. IInv => TypeOK
  BY DEF IInv
<1>2. QED BY <1>1, Invariance, PTL

\* An exclusive holder of the lock is alone, for any number of threads.
THEOREM Exclusion == Spec => []MutualExclusion
<1>1. IInv => MutualExclusion
  <2> SUFFICES ASSUME IInv, NEW t \in Threads, NEW u \in Threads,
                      held[t] = "EXCLUSIVE", t # u
               PROVE  held[u] = "NONE"
    BY DEF MutualExclusion
  <2>1. t \in Holders("EXCLUSIVE")
    BY DEF Holders
  <2>2. Holders("SHARED") = {} /\ Cardinality(Holders("EXCLUSIVE")) = 1
    BY <2>1 DEF IInv, NumberCountsHolders
  <2>3. Holders("EXCLUSIVE") = {t}
    BY <2>1, <2>2, HoldersFinite, FS_Singleton
  <2>4. QED
    BY <2>2, <2>3 DEF Holders, IInv, TypeOK, Types
<1>2. QED BY <1>1, Invariance, PTL

\* sl_number counts the holders.
THEOREM NumberExact == Spec => []NumberCountsHolders
<1>1. IInv => NumberCountsHolders
  BY DEF IInv
<1>2. QED BY <1>1, Invariance, PTL

\* The wait queue is walked without meeting a null pointer, even after an
\* entry was linked twice.
THEOREM QueueNeverNull == Spec => []NoNullInQueue
<1>1. IInv => NoNullInQueue
  BY DEF IInv
<1>2. QED BY <1>1, Invariance, PTL

\* After the return of sl_drain the lock is free for ever.
THEOREM DrainedFree == Spec => []DrainedIsFree
<1>1. IInv => DrainedIsFree
  <2> SUFFICES ASSUME IInv, drained
               PROVE  drain /\ number = 0 /\ \A t \in Threads : held[t] = "NONE"
    BY DEF DrainedIsFree
  <2>1. drain /\ number = 0
    BY DEF IInv, DrainInv
  <2>2. Cardinality(Holders("SHARED")) = 0 /\ Holders("EXCLUSIVE") = {}
    BY <2>1 DEF IInv, NumberCountsHolders
  <2>3. Holders("SHARED") = {}
    BY <2>2, HoldersFinite, FS_EmptySet
  <2>4. QED
    BY <2>1, <2>2, <2>3 DEF Holders, IInv, TypeOK, Types
<1>2. QED BY <1>1, Invariance, PTL

\* Nobody obtains a lock that is being drained.
THEOREM DrainForbids == Spec => DrainForbidsLock
<1> DEFINE A == drain => \A t \in Threads : held'[t] # "NONE" => held[t] # "NONE"
<1>1. IInv /\ [Next]_vars => [A]_vars
  <2> SUFFICES ASSUME IInv, Next, drain, NEW u \in Threads, held'[u] # "NONE"
               PROVE  held[u] # "NONE"
    OBVIOUS
  <2>1. PICK t \in Threads : \/ \E f \in Fns, ty \in Types : Call(t, f, ty)
                             \/ KernlockLock(t) \/ WaitReturn(t) \/ Section(t)
    BY DEF Next
  <2>2. UNCHANGED held \/ held' = [held EXCEPT ![t] = "NONE"]
    BY <2>1 DEF Call, KernlockLock, WaitReturn, Section, SlLock, SlLockFair, SlLockGreedy,
                LockWoken, LockInternal, SlUnlock, UnlockTo, SlTouch, SlDrain, DrainLocks,
                DrainWaiters, DrainWoken, Wait
  <2>3. QED BY <2>2 DEF IInv, TypeOK
<1>2. QED BY <1>1, Invariance, PTL DEF Spec, DrainForbidsLock
=============================================================================
