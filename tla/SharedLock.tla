----------------------------- MODULE SharedLock -----------------------------
(***************************************************************************)
(* The reader/writer lock of system/kern/kern_lock.c on the wait queue of  *)
(* system/kern/kern_wait.c.                                                *)
(*                                                                         *)
(* A thread runs one sl_* function at a time.  Everything the functions    *)
(* do to the lock they do between kernlock_lock and kernlock_unlock of     *)
(* sl_lock; the model takes the acquisition of the spinlock as one step    *)
(* and the section up to its release as another, so a thread can be seen   *)
(* holding the spinlock.  A call of waitqueue_wait ends a section (the     *)
(* thread is linked, the spinlock released) and the code behind it starts  *)
(* the next one, after the yield and the re-acquisition.                   *)
(*                                                                         *)
(* The yield.  sched_is_suspended wants t_wait_queue to be set, and no     *)
(* code sets it, so hal_induce_preemption never blocks the caller: it      *)
(* returns with the thread still linked in the wait queue, or (when the    *)
(* scheduler dereferences the empty run queue it picked) not at all.       *)
(* WaitReturn may therefore happen at any time and need not happen, and    *)
(* sched_actualize, called by waitqueue_get_first, changes nothing here.   *)
(*                                                                         *)
(* The callers.  A thread releases what it holds, with the type it holds,  *)
(* and starts no other call on the lock while it holds it.                 *)
(***************************************************************************)
EXTENDS Ring, FiniteSets

CONSTANTS
  Threads,    \* the threads that use the lock
  Calls,      \* Calls[t]: the calls <<function, type>> thread t makes
  WqHead,     \* the list node sl_queue.wq_threads
  Null        \* the null pointer; also the owner of a free spinlock

ASSUME ThreadsFinite == IsFiniteSet(Threads)
ASSUME DistinctNodes == WqHead \notin Threads /\ Null \notin Threads \cup {WqHead}

VARIABLES
  number,     \* sl_number: -1 exclusive, otherwise the number of shared locks
  drain,      \* SL_FLAG_DRAIN of sl_flags
  spin,       \* the thread that holds sl_lock, or Null
  ring,       \* wq_threads and the t_wait_entry of every thread
  pc,         \* where each thread is
  fn,         \* the function it is in ...
  type,       \* ... and the lock type it was called with
  site,       \* the call of waitqueue_wait it is in, or was in last
  ret,        \* the result of its last call, "ok" while in one
  held,       \* the lock type the thread holds between lock and unlock
  drained     \* history: some sl_drain has returned

lockVars == <<number, drain, ring>>
callVars == <<fn, type, site>>
vars == <<number, drain, spin, ring, pc, fn, type, site, ret, held, drained>>

Types == {"SHARED", "EXCLUSIVE"}
LockFns == {"sl_lock", "sl_lock_greedy"}
Fns == LockFns \cup {"sl_unlock", "sl_touch", "sl_drain"}
Nodes == Threads \cup {WqHead}

\* "idle": outside; "enter": before the first kernlock_lock; "body": behind
\* it; "yield": in waitqueue_wait, unlocked; "relock": before its last
\* kernlock_lock; "woken": behind it.
Labels == {"idle", "enter", "body", "yield", "relock", "woken"}
Sites == {"none", "fair", "internal", "touch", "drain_locks", "drain_waiters"}

Init ==
  /\ number = 0
  /\ drain = FALSE
  /\ spin = Null
  /\ ring = [next |-> [n \in Nodes |-> IF n = WqHead THEN WqHead ELSE Null],
             prev |-> [n \in Nodes |-> IF n = WqHead THEN WqHead ELSE Null]]
  /\ pc = [t \in Threads |-> "idle"]
  /\ fn = [t \in Threads |-> "none"]
  /\ type = [t \in Threads |-> "NONE"]
  /\ site = [t \in Threads |-> "none"]
  /\ ret = [t \in Threads |-> "ok"]
  /\ held = [t \in Threads |-> "NONE"]
  /\ drained = FALSE

-----------------------------------------------------------------------------
\* kern_wait.c

\* waitqueue_get_first: unlink the thread before the head, if there is one.
GetFirst(r) ==
  IF r.prev[WqHead] = WqHead THEN r ELSE RingRemove(r, r.prev[WqHead])

\* waitqueue_wait up to the yield, on the queue r: link the thread and
\* release the spinlock.
Wait(t, r, after, s) ==
  /\ ring' = RingInsert(r, WqHead, t, after)
  /\ spin' = Null
  /\ pc' = [pc EXCEPT ![t] = "yield"]
  /\ site' = [site EXCEPT ![t] = s]
  /\ UNCHANGED <<number, fn, type, ret, held, drained>>

\* hal_induce_preemption returns; the thread goes on to kernlock_lock.
WaitReturn(t) ==
  /\ pc[t] = "yield"
  /\ pc' = [pc EXCEPT ![t] = "relock"]
  /\ UNCHANGED <<number, drain, spin, ring, callVars, ret, held, drained>>

\* kernlock_lock(&lock->sl_lock), at the start of a call or after a wait.
KernlockLock(t) ==
  /\ pc[t] \in {"enter", "relock"}
  /\ spin = Null
  /\ spin' = t
  /\ pc' = [pc EXCEPT ![t] = IF @ = "enter" THEN "body" ELSE "woken"]
  /\ UNCHANGED <<lockVars, callVars, ret, held, drained>>

\* kernlock_unlock and return with a result.
Return(t, result) ==
  /\ spin' = Null
  /\ pc' = [pc EXCEPT ![t] = "idle"]
  /\ ret' = [ret EXCEPT ![t] = result]
  /\ fn' = [fn EXCEPT ![t] = "none"]
  /\ type' = [type EXCEPT ![t] = "NONE"]
  /\ site' = [site EXCEPT ![t] = "none"]

-----------------------------------------------------------------------------
\* kern_lock.c

\* A call of one of the five functions by a thread that may make it.
Call(t, f, ty) ==
  /\ pc[t] = "idle"
  /\ <<f, ty>> \in Calls[t]
  /\ IF f = "sl_unlock" THEN held[t] = ty ELSE held[t] = "NONE"
  /\ f = "sl_drain" => ty = "SHARED"       \* sl_drain has no type
  /\ pc' = [pc EXCEPT ![t] = "enter"]
  /\ fn' = [fn EXCEPT ![t] = f]
  /\ type' = [type EXCEPT ![t] = ty]
  /\ ret' = [ret EXCEPT ![t] = "ok"]
  /\ UNCHANGED <<lockVars, spin, site, held, drained>>

\* Mutant: an exclusive lock waits for the exclusive holder only.
BusySharedTest(ty) == number < 0

\* The conditions of the while loops: the lock is not free for the type.
Busy(ty) == IF ty = "SHARED" THEN number < 0 ELSE number # 0

\* sl_lock_internal from its while loop on: wait once more, or take the lock
\* (a shared one wakes the next waiter).
AcquireOrWait(t) ==
  \/ /\ Busy(type[t])
     /\ Wait(t, ring, FALSE, "internal")
     /\ UNCHANGED drain
  \/ /\ ~ Busy(type[t])
     /\ number' = IF type[t] = "SHARED" THEN number + 1 ELSE -1
     /\ ring' = IF type[t] = "SHARED" THEN GetFirst(ring) ELSE ring
     /\ held' = [held EXCEPT ![t] = type[t]]
     /\ Return(t, "ok")
     /\ UNCHANGED <<drain, drained>>

\* Mutant: the drain test at the start of sl_lock_internal is missing.
LockInternalNoDrainTest(t) == AcquireOrWait(t)

\* sl_lock_internal from its start.
LockInternal(t) ==
  \/ /\ drain
     /\ Return(t, "ENOLCK")
     /\ UNCHANGED <<lockVars, held, drained>>
  \/ /\ ~ drain
     /\ AcquireOrWait(t)

\* Mutant: sl_lock queues up before it looks at the drain flag.
SlLockQueuesFirst(t) ==
  /\ pc[t] = "body" /\ fn[t] = "sl_lock"
  /\ \/ /\ ~ RingEmpty(ring, WqHead)
        /\ Wait(t, ring, TRUE, "fair")
        /\ UNCHANGED drain
     \/ /\ RingEmpty(ring, WqHead)
        /\ LockInternal(t)

\* sl_lock: with waiters in the queue, wait once behind them.
SlLock(t) ==
  /\ pc[t] = "body" /\ fn[t] = "sl_lock"
  /\ \/ /\ drain
        /\ Return(t, "ENOLCK")
        /\ UNCHANGED <<lockVars, held, drained>>
     \/ /\ ~ drain
        /\ ~ RingEmpty(ring, WqHead)
        /\ Wait(t, ring, TRUE, "fair")
        /\ UNCHANGED drain
     \/ /\ ~ drain
        /\ RingEmpty(ring, WqHead)
        /\ LockInternal(t)

\* sl_lock after its fairness wait.
SlLockFair(t) ==
  /\ pc[t] = "woken" /\ site[t] = "fair"
  /\ LockInternal(t)

\* sl_lock_greedy.
SlLockGreedy(t) ==
  /\ pc[t] = "body" /\ fn[t] = "sl_lock_greedy"
  /\ LockInternal(t)

\* Mutant: a woken waiter does not look at the drain flag again.
LockWokenNoDrainTest(t) ==
  /\ pc[t] = "woken" /\ site[t] = "internal"
  /\ AcquireOrWait(t)

\* sl_lock_internal after a wait in its loop; a drained waiter passes the
\* wake-up on (WAKEUP_ENOLCK).
LockWoken(t) ==
  /\ pc[t] = "woken" /\ site[t] = "internal"
  /\ \/ /\ drain
        /\ ring' = GetFirst(ring)
        /\ Return(t, "ENOLCK")
        /\ UNCHANGED <<number, drain, held, drained>>
     \/ /\ ~ drain
        /\ AcquireOrWait(t)

\* The switch of sl_unlock sets sl_number to n.
UnlockTo(t, n) ==
  /\ pc[t] = "body" /\ fn[t] = "sl_unlock"
  /\ number' = n
  /\ ring' = GetFirst(ring)
  /\ held' = [held EXCEPT ![t] = "NONE"]
  /\ Return(t, "ok")
  /\ UNCHANGED <<drain, drained>>

\* Mutant: the case SHARED falls through into the case EXCLUSIVE.
SlUnlockFallsThrough(t) == UnlockTo(t, 0)

\* sl_unlock.
SlUnlock(t) == UnlockTo(t, IF type[t] = "SHARED" THEN number - 1 ELSE 0)

\* The second loop of sl_drain, on the queue r, and its return.
DrainWaiters(t, r) ==
  \/ /\ ~ RingEmpty(r, WqHead)
     /\ Wait(t, r, TRUE, "drain_waiters")
  \/ /\ RingEmpty(r, WqHead)
     /\ ring' = r
     /\ drained' = TRUE
     /\ Return(t, "ok")
     /\ UNCHANGED <<number, held>>

\* Mutant: sl_drain does not wait for the holders.
DrainLocksSkipped(t, r) == DrainWaiters(t, r)

\* The first loop of sl_drain.
DrainLocks(t, r) ==
  \/ /\ number # 0
     /\ Wait(t, r, TRUE, "drain_locks")
  \/ /\ number = 0
     /\ DrainWaiters(t, r)

\* sl_drain: forbid the lock, wake the first waiter, enter the loops.
SlDrain(t) ==
  /\ pc[t] = "body" /\ fn[t] = "sl_drain"
  /\ drain' = TRUE
  /\ DrainLocks(t, GetFirst(ring))

\* sl_drain after a wait in either loop; the second loop does not look at
\* sl_number again.
DrainWoken(t) ==
  /\ pc[t] = "woken"
  /\ \/ site[t] = "drain_locks" /\ DrainLocks(t, ring)
     \/ site[t] = "drain_waiters" /\ DrainWaiters(t, ring)
  /\ UNCHANGED drain

\* sl_touch, from its start or after a wait: wait while the lock is busy.
SlTouch(t) ==
  /\ \/ pc[t] = "body" /\ fn[t] = "sl_touch"
     \/ pc[t] = "woken" /\ site[t] = "touch"
  /\ \/ /\ Busy(type[t])
        /\ Wait(t, ring, FALSE, "touch")
     \/ /\ ~ Busy(type[t])
        /\ ring' = GetFirst(ring)
        /\ Return(t, "ok")
        /\ UNCHANGED <<number, held, drained>>
  /\ UNCHANGED drain

-----------------------------------------------------------------------------
\* The sections a thread runs while it holds the spinlock.
Section(t) ==
  \/ SlLock(t) \/ SlLockFair(t) \/ SlLockGreedy(t) \/ LockWoken(t)
  \/ SlUnlock(t) \/ SlTouch(t) \/ SlDrain(t) \/ DrainWoken(t)

Next ==
  \E t \in Threads :
     \/ \E f \in Fns, ty \in Types : Call(t, f, ty)
     \/ KernlockLock(t)
     \/ WaitReturn(t)
     \/ Section(t)

Spec == Init /\ [][Next]_vars

\* A CPU goes on with a section it is in, no CPU loses the race for the
\* spinlock for ever, and whoever holds the lock releases it.  Nothing is
\* assumed of a yield: it need not return.
Fairness ==
  \A t \in Threads :
     /\ WF_vars(Section(t))
     /\ SF_vars(KernlockLock(t))
     /\ \A ty \in Types : WF_vars(Call(t, "sl_unlock", ty))

FairSpec == Spec /\ Fairness

-----------------------------------------------------------------------------
\* The values of the variables.
TypeOK ==
  /\ number \in Nat \cup {-1}
  /\ drain \in BOOLEAN
  /\ spin \in Threads \cup {Null}
  /\ ring \in [next : [Nodes -> Nodes \cup {Null}],
               prev : [Nodes -> Nodes \cup {Null}]]
  /\ pc \in [Threads -> Labels]
  /\ fn \in [Threads -> Fns \cup {"none"}]
  /\ type \in [Threads -> Types \cup {"NONE"}]
  /\ site \in [Threads -> Sites]
  /\ ret \in [Threads -> {"ok", "ENOLCK"}]
  /\ held \in [Threads -> Types \cup {"NONE"}]
  /\ drained \in BOOLEAN

Holders(ty) == {t \in Threads : held[t] = ty}

\* lock.h: "Holding an exclusive lock guarantees, there is no other exclusive
\* or shared lock", from the return of sl_lock to the release in sl_unlock,
\* although every waiter re-checks sl_number only after it gave the spinlock
\* away and may be woken by nobody.
MutualExclusion ==
  \A t, u \in Threads : held[t] = "EXCLUSIVE" /\ t # u => held[u] = "NONE"

\* sl_number is exact in every state: -1 for the one exclusive holder, else
\* the number of shared holders.  sl_lock_internal, sl_unlock and sl_drain
\* all decide by it.
NumberCountsHolders ==
  \/ number = -1 /\ Holders("SHARED") = {} /\ Cardinality(Holders("EXCLUSIVE")) = 1
  \/ number = Cardinality(Holders("SHARED")) /\ Holders("EXCLUSIVE") = {}

\* The nodes that were linked once: neither pointer is null, and they lead to
\* each other only.
NoNull(r) ==
  /\ r.next[WqHead] # Null
  /\ \A n \in Nodes :
       /\ r.next[n] = Null <=> r.prev[n] = Null
       /\ r.next[n] # Null => r.next[r.next[n]] # Null /\ r.next[r.prev[n]] # Null

\* waitqueue_get_first and linked_ring_insert never follow a null pointer:
\* the list node and all it leads to, in either direction, were linked once.
\* It holds although a thread that returns from the yield unwoken links its
\* entry a second time and tears the ring.
NoNullInQueue == NoNull(ring)

\* Once SL_FLAG_DRAIN is set no thread obtains the lock any more, also not
\* one that was already waiting for it or was just woken.
DrainForbidsLock ==
  [][drain => \A t \in Threads : held'[t] # "NONE" => held[t] # "NONE"]_vars

\* When sl_drain has returned nobody holds the lock, then and for ever after,
\* although its second loop never looks at sl_number again.
DrainedIsFree == drained => drain /\ number = 0 /\ \A t \in Threads : held[t] = "NONE"

-----------------------------------------------------------------------------
\* Liveness, under FairSpec.

\* Once SL_FLAG_DRAIN is set the lock becomes free and stays free.
DrainSettles == drain ~> [](number = 0)

\* Once SL_FLAG_DRAIN is set, a thread that is in sl_lock or sl_lock_greedy and
\* not in a yield, or comes back from one, leaves the function: it never waits
\* again, wherever it was when the flag was set.
DrainedNeverWaits ==
  \A t \in Threads :
     drain /\ fn[t] \in LockFns /\ pc[t] # "yield" ~> fn[t] \notin LockFns

-----------------------------------------------------------------------------
\* What comments of the code say and the code does not do.

\* kern_wait.c:92-95 says of the yield "This will block this thread, until it
\* gets removed from the wait-queue": behind it the thread is not linked.
WaitBlocksUntilRemoved ==
  \A t \in Threads : pc[t] = "relock" =>
     \A n \in Nodes : ring.next[n] # t /\ ring.prev[n] # t

\* kern_lock.c:154-156 says of sl_drain's second loop "Wait until, all waiting
\* threads have been drained": when it is through no thread is in a wait of
\* sl_lock or sl_lock_greedy, about to come back to the lock.
DrainedHasNoWaiter ==
  drained => \A t \in Threads : ~ (pc[t] \in {"yield", "relock"} /\ fn[t] \in LockFns)
=============================================================================
