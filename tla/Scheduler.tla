------------------------------ MODULE Scheduler ------------------------------
(***************************************************************************)
(* The per-CPU schedulers of system/kern/kern_sched.c.                     *)
(*                                                                         *)
(* A CPU executes its current thread (sched_insert, sched_remove,          *)
(* sched_actualize, the yield of waitqueue_wait) and, on top of it, the    *)
(* preemption event sched_preempt: the timer interrupt, at any point of    *)
(* the thread, or induced by the yield.  Any CPU may work on the scheduler *)
(* of any other.  A scheduler's lock is taken in one step; what is done    *)
(* under it, up to its release, is one step per pass of the loop in        *)
(* sched_schedule_next.                                                    *)
(*                                                                         *)
(* The macro sched_runnable is linked_ring_empty, so the loop picks among  *)
(* the priorities whose queue is empty.  The element it removes is then    *)
(* the list node itself, whose data is null: sched_is_suspended reads a    *)
(* page that boot.s unmapped, and as the page-fault handler only returns,  *)
(* the CPU takes that fault for ever ("wedged"), holding the lock.         *)
(***************************************************************************)
EXTENDS Ring, FiniteSets

CONSTANTS
  CPUs,
  Threads,      \* all threads, the idle ones included
  IdleThread,   \* IdleThread[c]: sched_idle, the thread that booted c
  Priority,     \* Priority[t]: t_priority
  NRQS,         \* SCHED_NRQS
  SchedPrios,   \* sched_prios
  Null

Queues == 0..(NRQS - 1)
RunRing(c, i) == <<c, i>>             \* sched_run_ring[i] of c
Blocked(c) == <<c, NRQS>>             \* sched_blocked of c
RunHeads == CPUs \X Queues
Nodes == (CPUs \X (0..NRQS)) \cup Threads

ASSUME SchedulerConstants ==
  /\ NRQS \in Nat \ {0}
  /\ IsFiniteSet(Threads)
  /\ IdleThread \in [CPUs -> Threads]
  /\ \A c, d \in CPUs : IdleThread[c] = IdleThread[d] => c = d
  /\ Priority \in [Threads -> Nat]
  /\ SchedPrios \in [Queues -> Int]
  /\ Null \notin CPUs \cup Nodes
  /\ CPUs \cap Threads = {} /\ (CPUs \X (0..NRQS)) \cap Threads = {}

VARIABLES
  ring,         \* sched_run_ring, sched_blocked and every t_queue_entry
  q,            \* history: the elements of every run ring, in its order
  decay,        \* sched_run_decay
  count,        \* sched_thread_count
  lock,         \* sched_lock's owner: a thread, a CPU (its interrupt) or Null
  cur,          \* cpu_current_thread
  home,         \* t_current_cpu
  flags,        \* t_stateflags: PREEMPT, LOCK_SCHED, QUEUE_WAIT
  waitq,        \* t_wait_queue
  pc,           \* where each thread is
  call,         \* the scheduler and the thread its call is about
  irq           \* the preemption event on each CPU

schedVars == <<ring, q, decay, count>>
threadVars == <<cur, home, flags, waitq>>
vars == <<ring, q, decay, count, lock, cur, home, flags, waitq, pc, call, irq>>

NoCall == [fn |-> "none", cpu |-> Null, thread |-> Null]

\* The scheduler of every CPU with n threads.  sched_blocked stays zeroed;
\* thread_allocate makes each t_queue_entry a ring of its own.
Instanciated(n) ==
  /\ LET ptr == [x \in Nodes |-> IF x \in {Blocked(c) : c \in CPUs} THEN Null ELSE x]
     IN  ring = [next |-> ptr, prev |-> ptr]
  /\ q = [h \in RunHeads |-> << >>]
  /\ decay = [c \in CPUs |-> SchedPrios]
  /\ count = [c \in CPUs |-> n]
  /\ lock = [c \in CPUs |-> Null]

\* sched_instanciate: one thread, the one that initializes the scheduler.
SchedInstanciate == Instanciated(1)

\* Every CPU runs its idle thread; the others are as thread_allocate left them.
Init ==
  /\ SchedInstanciate
  /\ cur = IdleThread
  /\ home = [t \in Threads |->
               IF \E c \in CPUs : IdleThread[c] = t
               THEN CHOOSE c \in CPUs : IdleThread[c] = t ELSE Null]
  /\ flags = [t \in Threads |-> {}]
  /\ waitq = [t \in Threads |-> Null]
  /\ pc = [t \in Threads |-> "run"]
  /\ call = [t \in Threads |-> NoCall]
  /\ irq = [c \in CPUs |-> "none"]

-----------------------------------------------------------------------------
\* sched_is_suspended.  (Nothing sets t_wait_queue.)
Suspended(t) == "QUEUE_WAIT" \in flags[t] /\ waitq[t] # Null

\* The macro sched_runnable.
Runnable(c, i) == RingEmpty(ring, RunRing(c, i))

\* sched_reenqueue of a thread into the scheduler of c.
Reenqueue(r, qq, dd, c, t) ==
  LET i == Priority[t] % NRQS
  IN  IF t = IdleThread[c]
      THEN [ring |-> r, q |-> qq, decay |-> dd]
      ELSE IF Suspended(t)
      THEN [ring |-> RingInsert(r, Blocked(c), t, FALSE), q |-> qq, decay |-> dd]
      ELSE [ring |-> RingInsert(r, RunRing(c, i), t, TRUE),
            q |-> [qq EXCEPT ![RunRing(c, i)] = << t >> \o @],
            decay |-> IF RingEmpty(r, RunRing(c, i)) THEN dd
                      ELSE [dd EXCEPT ![c][i] = SchedPrios[i]]]

Apply(s) == ring' = s.ring /\ q' = s.q /\ decay' = s.decay

\* The loop of sched_schedule_next: the decays after it, the priorities it
\* chooses among, and the first of those with the lowest decay, -1 if none.
Decayed(c) ==
  [i \in Queues |-> IF Runnable(c, i) THEN decay[c][i] - 1 ELSE SchedPrios[i]]

Candidates(c) == {i \in Queues : Runnable(c, i)}

\* mi is what the loop leaves in the variable of that name.
Choice(c, mi) ==
  IF Candidates(c) = {}
  THEN mi = -1
  ELSE /\ mi \in Candidates(c)
       /\ \A j \in Candidates(c) :
            \/ Decayed(c)[mi] < Decayed(c)[j]
            \/ Decayed(c)[mi] = Decayed(c)[j] /\ mi <= j

\* The last element of the chosen ring and its data, null for a list node.
Elem(c, mi) == ring.prev[RunRing(c, mi)]
Picked(c, mi) == IF Elem(c, mi) \in Threads THEN Elem(c, mi) ELSE Null

\* The scheduler after a pass.
Pass(c, mi) ==
  IF mi < 0
  THEN [ring |-> ring, q |-> q, decay |-> [decay EXCEPT ![c] = Decayed(c)]]
  ELSE [ring |-> RingRemove(ring, Elem(c, mi)),
        q |-> [q EXCEPT ![RunRing(c, mi)] = SubSeq(@, 1, Len(@) - 1)],
        decay |-> [decay EXCEPT ![c] = [Decayed(c) EXCEPT ![mi] = SchedPrios[mi]]]]

\* The pass dereferences a null thread.
PassFaults(c, mi) == mi >= 0 /\ Picked(c, mi) = Null

\* The pass found a suspended thread, blocks it and starts over.
PassRestarts(c, mi) == mi >= 0 /\ Picked(c, mi) # Null /\ Suspended(Picked(c, mi))
Restart(c, mi) ==
  LET s == Pass(c, mi)
  IN  /\ Apply([s EXCEPT !.ring = RingInsert(@, Blocked(c), Picked(c, mi), FALSE)])
      /\ UNCHANGED <<count, lock, threadVars, pc, call, irq>>

\* What sched_schedule_next returns after a pass that is the last one.
Result(c, mi) == IF mi >= 0 THEN Picked(c, mi) ELSE Null

-----------------------------------------------------------------------------
\* Thread context: the current thread of c, not interrupted.
Runs(c, t) == cur[c] = t /\ irq[c] = "none"

\* Mutant: t_current_cpu is not set.
CallInsertNoCpu(c, t, cpu, n) ==
  /\ Runs(c, t) /\ pc[t] = "run"
  /\ home[n] = Null
  /\ pc' = [pc EXCEPT ![t] = "flag"]
  /\ call' = [call EXCEPT ![t] = [fn |-> "sched_insert", cpu |-> cpu, thread |-> n]]
  /\ UNCHANGED <<schedVars, lock, threadVars, irq>>

\* sched_insert(cpu, thread) of a new thread, up to the flag.
CallInsert(c, t, cpu, n) ==
  /\ Runs(c, t) /\ pc[t] = "run"
  /\ home[n] = Null
  /\ home' = [home EXCEPT ![n] = cpu]
  /\ pc' = [pc EXCEPT ![t] = "flag"]
  /\ call' = [call EXCEPT ![t] = [fn |-> "sched_insert", cpu |-> cpu, thread |-> n]]
  /\ UNCHANGED <<schedVars, lock, cur, flags, waitq, irq>>

\* sched_remove(cpu), up to the flag.
CallRemove(c, t, cpu) ==
  /\ Runs(c, t) /\ pc[t] = "run"
  /\ pc' = [pc EXCEPT ![t] = "flag"]
  /\ call' = [call EXCEPT ![t] = [fn |-> "sched_remove", cpu |-> cpu, thread |-> Null]]
  /\ UNCHANGED <<schedVars, lock, threadVars, irq>>

\* waitqueue_get_first has unlinked n: it zeroes t_wait_queue and calls
\* sched_actualize(n), which returns at once if n has no CPU.
CallActualize(c, t, n) ==
  /\ Runs(c, t) /\ pc[t] = "run"
  /\ waitq' = [waitq EXCEPT ![n] = Null]
  /\ IF home[n] = Null
     THEN UNCHANGED <<pc, call>>
     ELSE /\ pc' = [pc EXCEPT ![t] = "flag"]
          /\ call' = [call EXCEPT ![t] =
                        [fn |-> "sched_actualize", cpu |-> home[n], thread |-> n]]
  /\ UNCHANGED <<schedVars, lock, cur, home, flags, irq>>

\* Mutant: the flag is not set.
SetFlagMissing(c, t) ==
  /\ Runs(c, t) /\ pc[t] = "flag"
  /\ pc' = [pc EXCEPT ![t] = "lock"]
  /\ UNCHANGED <<schedVars, lock, threadVars, call, irq>>

\* Setting THREAD_SF_LOCK_SCHED.
SetFlag(c, t) ==
  /\ Runs(c, t) /\ pc[t] = "flag"
  /\ flags' = [flags EXCEPT ![t] = @ \cup {"LOCK_SCHED"}]
  /\ pc' = [pc EXCEPT ![t] = "lock"]
  /\ UNCHANGED <<schedVars, lock, cur, home, waitq, call, irq>>

\* kernlock_lock(&scheduler->sched_lock).
Lock(c, t) ==
  /\ Runs(c, t) /\ pc[t] = "lock"
  /\ lock[call[t].cpu] = Null
  /\ lock' = [lock EXCEPT ![call[t].cpu] = t]
  /\ pc' = [pc EXCEPT ![t] = "locked"]
  /\ UNCHANGED <<schedVars, threadVars, call, irq>>

\* kernlock_unlock at the end of a section; the flag is still set.
Unlock(t) ==
  /\ lock' = [lock EXCEPT ![call[t].cpu] = Null]
  /\ pc' = [pc EXCEPT ![t] = "unlocked"]
  /\ UNCHANGED <<threadVars, irq>>

InLock(c, t, f) == Runs(c, t) /\ pc[t] = "locked" /\ call[t].fn = f

\* Thread n enters the scheduler that t has locked.
InsertThread(c, t, n) ==
  /\ InLock(c, t, "sched_insert")
  /\ Apply(Reenqueue(ring, q, decay, call[t].cpu, n))
  /\ count' = [count EXCEPT ![call[t].cpu] = @ + 1]
  /\ Unlock(t)
  /\ UNCHANGED call

\* Mutant: the caller itself is enqueued.
InsertMyself(c, t) == InsertThread(c, t, t)

\* sched_insert under the lock.
Insert(c, t) == InsertThread(c, t, call[t].thread)

\* Mutant: sched_remove counts a thread less even if it found none.
RemovedAlways(d, mi) == 1

\* By how much sched_remove lowers sched_thread_count.
Removed(d, mi) == IF Result(d, mi) = Null THEN 0 ELSE 1

\* sched_remove under the lock: a pass of sched_schedule_next.
RemoveNext(c, t) ==
  LET d == call[t].cpu
  IN  /\ InLock(c, t, "sched_remove")
      /\ \E mi \in Queues \cup {-1} :
           /\ Choice(d, mi)
           /\ \/ /\ PassFaults(d, mi)
                 /\ Apply(Pass(d, mi))
                 /\ pc' = [pc EXCEPT ![t] = "wedged"]
                 /\ UNCHANGED <<count, lock, threadVars, call, irq>>
              \/ /\ ~ PassFaults(d, mi)
                 /\ IF PassRestarts(d, mi)
                    THEN Restart(d, mi)
                    ELSE /\ Apply(Pass(d, mi))
                         /\ count' = [count EXCEPT ![d] = @ - Removed(d, mi)]
                         /\ call' = [call EXCEPT ![t].thread = Result(d, mi)]
                         /\ Unlock(t)

\* sched_actualize under the lock: requeue the thread if it is preempted.
Actualize(c, t) ==
  LET n == call[t].thread
      d == call[t].cpu
  IN  /\ InLock(c, t, "sched_actualize")
      /\ IF "PREEMPT" \in flags[n]
         THEN Apply(Reenqueue(RingRemove(ring, n),
                              [h \in RunHeads |-> SelectSeq(q[h], LAMBDA x : x # n)],
                              decay, d, n))
         ELSE UNCHANGED <<ring, q, decay>>
      /\ Unlock(t)
      /\ UNCHANGED <<count, call>>

\* Clearing THREAD_SF_LOCK_SCHED; sched_remove then clears t_current_cpu of
\* the thread it removed, without the lock.
ClearFlag(c, t) ==
  /\ Runs(c, t) /\ pc[t] = "unlocked"
  /\ flags' = [flags EXCEPT ![t] = @ \ {"LOCK_SCHED"}]
  /\ home' = IF call[t].fn = "sched_remove" /\ call[t].thread # Null
             THEN [home EXCEPT ![call[t].thread] = Null] ELSE home
  /\ pc' = [pc EXCEPT ![t] = "run"]
  /\ call' = [call EXCEPT ![t] = NoCall]
  /\ UNCHANGED <<schedVars, lock, cur, waitq, irq>>

\* waitqueue_wait sets THREAD_SF_QUEUE_WAIT before its yield ...
WaitFlag(c, t) ==
  /\ Runs(c, t) /\ pc[t] = "run"
  /\ flags' = [flags EXCEPT ![t] = @ \cup {"QUEUE_WAIT"}]
  /\ pc' = [pc EXCEPT ![t] = "yield"]
  /\ UNCHANGED <<schedVars, lock, cur, home, waitq, call, irq>>

\* ... and clears it behind it.
WaitEnd(c, t) ==
  /\ Runs(c, t) /\ pc[t] = "yielded"
  /\ flags' = [flags EXCEPT ![t] = @ \ {"QUEUE_WAIT"}]
  /\ pc' = [pc EXCEPT ![t] = "run"]
  /\ UNCHANGED <<schedVars, lock, cur, home, waitq, call, irq>>

-----------------------------------------------------------------------------
\* Preemption events.

\* Mutant: the test of THREAD_SF_LOCK_SCHED is missing.
PreemptEntryNoTest(c) ==
  /\ irq[c] = "none"
  /\ irq' = [irq EXCEPT ![c] = "lock"]

\* sched_preempt up to the lock; it gives up if the current thread is
\* manipulating a scheduler.  (t_nonpreempt is zero in every thread.)
PreemptEntry(c) ==
  /\ irq[c] = "none"
  /\ irq' = [irq EXCEPT ![c] = IF "LOCK_SCHED" \in flags[cur[c]] THEN "none" ELSE "lock"]

\* The timer interrupt.
Timer(c) ==
  /\ PreemptEntry(c)
  /\ UNCHANGED <<schedVars, lock, threadVars, pc, call>>

\* hal_induce_preemption, called by waitqueue_wait.
Yield(c, t) ==
  /\ Runs(c, t) /\ pc[t] = "yield"
  /\ pc' = [pc EXCEPT ![t] = "yielded"]
  /\ PreemptEntry(c)
  /\ UNCHANGED <<schedVars, lock, threadVars, call>>

\* The event acquires the lock of its own CPU's scheduler.
PreemptLock(c) ==
  /\ irq[c] = "lock"
  /\ lock[c] = Null
  /\ lock' = [lock EXCEPT ![c] = c]
  /\ irq' = [irq EXCEPT ![c] = "locked"]
  /\ UNCHANGED <<schedVars, threadVars, pc, call>>

\* The thread sched_preempt goes on with.
NextThread(c, mi) ==
  IF Result(c, mi) # Null THEN Result(c, mi)
  ELSE IF ~ Suspended(cur[c]) THEN cur[c] ELSE IdleThread[c]

\* The end of sched_preempt: the switch from thread o to thread n, if they
\* differ, and the unlock.
Switch(c, o, n, s) ==
  /\ IF o = n
     THEN Apply(s) /\ UNCHANGED threadVars
     ELSE /\ flags' = [flags EXCEPT ![n] = @ \ {"PREEMPT"}, ![o] = @ \cup {"PREEMPT"}]
          /\ cur' = [cur EXCEPT ![c] = n]
          /\ home' = [home EXCEPT ![n] = c]
          /\ Apply(Reenqueue(s.ring, s.q, s.decay, c, o))
          /\ UNCHANGED waitq
  /\ lock' = [lock EXCEPT ![c] = Null]
  /\ irq' = [irq EXCEPT ![c] = "none"]
  /\ UNCHANGED <<count, pc, call>>

\* sched_preempt under the lock: a pass of sched_schedule_next and, after the
\* last one, the switch.
Preempt(c) ==
  /\ irq[c] = "locked"
  /\ \E mi \in Queues \cup {-1} :
       /\ Choice(c, mi)
       /\ \/ /\ PassFaults(c, mi)
             /\ Apply(Pass(c, mi))
             /\ irq' = [irq EXCEPT ![c] = "wedged"]
             /\ UNCHANGED <<count, lock, threadVars, pc, call>>
          \/ /\ ~ PassFaults(c, mi)
             /\ IF PassRestarts(c, mi)
                THEN Restart(c, mi)
                ELSE Switch(c, cur[c], NextThread(c, mi), Pass(c, mi))

-----------------------------------------------------------------------------
\* What the code of a CPU does once started: no new call, no interrupt.
Step(c) ==
  \/ \E t \in Threads : \/ SetFlag(c, t) \/ Lock(c, t) \/ Insert(c, t) \/ RemoveNext(c, t)
                        \/ Actualize(c, t) \/ ClearFlag(c, t) \/ Yield(c, t) \/ WaitEnd(c, t)
  \/ PreemptLock(c) \/ Preempt(c)

Next ==
  \E c \in CPUs :
     \/ \E t, n \in Threads, cpu \in CPUs : CallInsert(c, t, cpu, n)
     \/ \E t \in Threads, cpu \in CPUs : CallRemove(c, t, cpu)
     \/ \E t, n \in Threads : CallActualize(c, t, n)
     \/ \E t \in Threads : WaitFlag(c, t)
     \/ Timer(c)
     \/ Step(c)

Spec == Init /\ [][Next]_vars

\* A CPU that has something to do does it, and a preemption event that finds
\* the lock free again and again gets it in the end.
FairSpec == Spec /\ \A c \in CPUs : WF_vars(Step(c)) /\ SF_vars(PreemptLock(c))

-----------------------------------------------------------------------------
Contexts == {"flag", "lock", "locked", "unlocked", "wedged"}

\* The deadlock of the comment that opens kern_sched.c cannot happen: while a
\* preemption event is under way on a CPU, the thread it interrupted holds no
\* scheduler's lock, neither this CPU's nor another's.
EventNeverOverLock ==
  \A c, d \in CPUs : irq[c] # "none" => lock[d] # cur[c]

\* Thread t waits on run queue h; the threads on the run queues of c.
On(h, t) == \E k \in 1..Len(q[h]) : q[h][k] = t
Queued(c) == {t \in Threads : \E i \in Queues : On(RunRing(c, i), t)}

\* sched_thread_count is exact whenever a scheduler is unlocked: the thread
\* that booted the CPU and the threads that wait on its run queues.
CountExact ==
  \A c \in CPUs : lock[c] = Null => count[c] = 1 + Cardinality(Queued(c))

\* A thread waits on the queue of its priority, on the CPU its t_current_cpu
\* names, and runs nowhere: no thread is scheduled twice.
QueuedAtHome ==
  \A c \in CPUs, i \in Queues, t \in Threads :
     On(RunRing(c, i), t) =>
       /\ Priority[t] % NRQS = i
       /\ home[t] = c
       /\ \A d \in CPUs : cur[d] # t

\* Some context faults for ever inside the section of c's scheduler.
Wedged(c) ==
  \/ irq[c] = "wedged"
  \/ \E t \in Threads : pc[t] = "wedged" /\ call[t].cpu = c

\* A preemption event ends, unless a CPU is wedged in the scheduler it needs:
\* no spinning of events and threads on each other's locks lasts for ever.
EventEnds ==
  \A c \in CPUs : irq[c] = "lock" ~> (irq[c] = "none" \/ Wedged(c))

\* The comment on sched_schedule_next: it finds a thread "among the
\* priorities with non-empty run-queues".  A pass never ends at a list node.
PicksFromNonEmptyQueue ==
  \A c \in CPUs : ~ Wedged(c)

\* The schedulers keep the contract of the rings: all their run queues and
\* t_queue_entry fields, under any interleaving, behave as RingQueue says.
RQ == INSTANCE RingQueue WITH
  Heads <- RunHeads, Elems <- Threads,
  ring <- [next |-> [n \in RunHeads \cup Threads |-> ring.next[n]],
           prev |-> [n \in RunHeads \cup Threads |-> ring.prev[n]]]
RingContract == RQ!Spec
=============================================================================
