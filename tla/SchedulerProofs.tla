-------------------------- MODULE SchedulerProofs --------------------------
(***************************************************************************)
(* Safety of the schedulers for any number of CPUs, threads and run        *)
(* queues, as the code is.                                                 *)
(*                                                                         *)
(* What makes the invariant inductive is that a pass of                    *)
(* sched_schedule_next, choosing among the empty run queues, never takes a *)
(* thread (lemma PassTakesNothing): it faults or finds nothing.  So threads*)
(* enter a run queue and never leave it, and every CPU stays with the      *)
(* thread it booted with.  Of the rings the argument needs only that an    *)
(* empty one is empty from both sides (RingInv).  That a thread is linked  *)
(* only while no ring holds it makes the schedulers an implementation of   *)
(* RingQueue, and RingQueueProofs then shows that the pointers of their    *)
(* run queues represent the queues.                                        *)
(***************************************************************************)
EXTENDS Scheduler, FiniteSetTheorems, TLAPS

\* What the variables may be; no thread is ever on a wait queue.
TypeOK ==
  /\ ring \in [next : [Nodes -> Nodes \cup {Null}], prev : [Nodes -> Nodes \cup {Null}]]
  /\ q \in [RunHeads -> Seq(Threads)]
  /\ decay \in [CPUs -> [Queues -> Int]]
  /\ count \in [CPUs -> Nat \ {0}]
  /\ lock \in [CPUs -> CPUs \cup Threads \cup {Null}]
  /\ cur \in [CPUs -> Threads]
  /\ home \in [Threads -> CPUs \cup {Null}]
  /\ flags \in [Threads -> SUBSET {"PREEMPT", "LOCK_SCHED", "QUEUE_WAIT"}]
  /\ waitq = [t \in Threads |-> Null]
  /\ pc \in [Threads -> {"run", "yield", "yielded"} \cup Contexts]
  /\ call \in [Threads -> [fn : {"none", "sched_insert", "sched_remove", "sched_actualize"},
                           cpu : CPUs \cup {Null}, thread : Threads \cup {Null}]]
  /\ irq \in [CPUs -> {"none", "lock", "locked", "wedged"}]

\* An empty run ring is empty from both sides, and so is its queue.
RingInv ==
  \A h \in RunHeads :
     /\ ring.next[h] \in Threads \cup {h}
     /\ ring.next[h] = h => ring.prev[h] = h /\ q[h] = << >>

\* The owner of a lock, and the section it is in.
LockInv ==
  /\ \A t \in Threads, d \in CPUs :
       lock[d] = t <=> pc[t] \in {"locked", "wedged"} /\ call[t].cpu = d
  /\ \A c, d \in CPUs : lock[d] = c <=> c = d /\ irq[c] \in {"locked", "wedged"}

\* THREAD_SF_LOCK_SCHED is set around every section of a thread, and no event
\* is under way on a CPU whose thread has set it.
FlagInv ==
  /\ \A t \in Threads :
       "LOCK_SCHED" \in flags[t] <=> pc[t] \in {"lock", "locked", "unlocked", "wedged"}
  /\ \A c \in CPUs : irq[c] # "none" => "LOCK_SCHED" \notin flags[cur[c]]

\* No CPU has ever switched.
IdleInv ==
  /\ cur = IdleThread
  /\ \A t \in Threads : "PREEMPT" \notin flags[t]
  /\ \A c \in CPUs : home[IdleThread[c]] = c

\* The arguments of a call; sched_remove never has a thread to return.
CallInv ==
  \A t \in Threads :
     /\ pc[t] \in Contexts <=> call[t].fn # "none"
     /\ call[t].fn # "none" => call[t].cpu \in CPUs
     /\ call[t].fn \in {"sched_insert", "sched_actualize"} => call[t].thread \in Threads
     /\ call[t].fn = "sched_remove" => call[t].thread = Null

\* The run queue of CPU d for thread n.
PrioOf(n) == Priority[n] % NRQS
RunOf(d, n) == RunRing(d, PrioOf(n))

\* Thread n waits on some run queue.
InQueue(n) == \E h \in RunHeads : On(h, n)

\* Thread t is about to insert thread n.
Inserts(t, n) ==
  /\ call[t].fn = "sched_insert" /\ call[t].thread = n
  /\ pc[t] \in {"flag", "lock", "locked", "wedged"}

\* Where threads are: on the queue of their priority at their t_current_cpu,
\* or about to be inserted there by one caller, or nowhere.
QueueInv ==
  /\ \A h \in RunHeads, n \in Threads : On(h, n) => PrioOf(n) = h[2] /\ home[n] = h[1]
  /\ \A n \in Threads : InQueue(n) => \A c \in CPUs : IdleThread[c] # n
  /\ \A t, n \in Threads : Inserts(t, n) =>
       /\ home[n] = call[t].cpu
       /\ ~ InQueue(n)
       /\ \A c \in CPUs : IdleThread[c] # n
       /\ \A u \in Threads : Inserts(u, n) => u = t

\* sched_thread_count is exact also while a scheduler is locked.
CountInv == \A c \in CPUs : count[c] = 1 + Cardinality(Queued(c))

\* The inductive invariant.
IInv ==
  /\ TypeOK /\ RingInv /\ LockInv /\ FlagInv /\ IdleInv /\ CallInv
  /\ QueueInv /\ CountInv

-----------------------------------------------------------------------------
\* The nodes of the rings are distinct.
LEMMA NodesDistinct ==
  /\ RunHeads \cap Threads = {} /\ Null \notin RunHeads \cup Threads
  /\ RunHeads \cup Threads \subseteq Nodes /\ Null \notin Nodes /\ Null \notin CPUs
  /\ CPUs \cap Threads = {} /\ NRQS \in Nat \ {0}
  /\ \A c \in CPUs, i \in Queues : RunRing(c, i) \in RunHeads
BY SchedulerConstants DEF RunHeads, Nodes, Queues, RunRing

\* As sched_runnable is linked_ring_empty, a pass of sched_schedule_next never
\* takes a thread: with an empty run queue it faults on the list node, else it
\* finds nothing.  The rings stay as they are.
LEMMA PassTakesNothing ==
  ASSUME TypeOK, RingInv, NEW c \in CPUs, NEW mi \in Queues \cup {-1}, Choice(c, mi)
  PROVE  /\ Result(c, mi) = Null /\ ~ PassRestarts(c, mi)
         /\ Pass(c, mi).ring = ring /\ Pass(c, mi).q = q
         /\ Pass(c, mi).decay \in [CPUs -> [Queues -> Int]]
<1>1. Decayed(c) \in [Queues -> Int]
  BY SchedulerConstants DEF Decayed, TypeOK
<1>2. CASE mi = -1
  BY <1>1, <1>2 DEF Result, PassRestarts, Pass, TypeOK
<1>3. CASE mi \in Queues
  <2> DEFINE h == RunRing(c, mi)
  <2>1. mi >= 0 /\ ~ (mi < 0) /\ h \in RunHeads /\ h \in Nodes /\ mi # -1
    BY <1>3, NodesDistinct DEF Queues
  <2>2. ring.next[h] = h
    BY <2>1 DEF Choice, Candidates, Runnable, RingEmpty
  <2>3. q[h] = << >> /\ ring.prev[h] = h
    BY <2>1, <2>2 DEF RingInv
  <2>4. Elem(c, mi) = h /\ Picked(c, mi) = Null
    BY <2>1, <2>3, NodesDistinct DEF Elem, Picked
  <2>5. RingRemove(ring, h) = ring
    <3>1. [ring.next EXCEPT ![h] = h] = ring.next /\ [ring.prev EXCEPT ![h] = h] = ring.prev
      BY <2>1, <2>2, <2>3 DEF TypeOK
    <3>2. ring = [next |-> ring.next, prev |-> ring.prev]
      BY DEF TypeOK
    <3>3. QED BY <2>2, <2>3, <3>1, <3>2 DEF RingRemove
  <2>6. [q EXCEPT ![h] = SubSeq(@, 1, Len(@) - 1)] = q
    BY <2>1, <2>3 DEF TypeOK
  <2>7. [decay EXCEPT ![c] = [Decayed(c) EXCEPT ![mi] = SchedPrios[mi]]]
          \in [CPUs -> [Queues -> Int]]
    BY <1>1, <1>3, SchedulerConstants DEF TypeOK
  <2>8. QED
    BY <2>1, <2>4, <2>5, <2>6, <2>7 DEF Result, PassRestarts, Pass
<1>4. QED BY <1>2, <1>3

\* sched_reenqueue of a thread puts it on a run ring that is then not empty.
LEMMA InsertKeepsRings ==
  ASSUME TypeOK, RingInv, NEW h \in RunHeads, NEW n \in Threads,
         ring' = RingInsert(ring, h, n, TRUE), q' = [q EXCEPT ![h] = << n >> \o @]
  PROVE  /\ ring' \in [next : [Nodes -> Nodes \cup {Null}], prev : [Nodes -> Nodes \cup {Null}]]
         /\ RingInv'
<1> DEFINE c == ring.next[h]
           nx == [ring.next EXCEPT ![h] = n, ![n] = c]
           pv == [ring.prev EXCEPT ![c] = n, ![n] = h]
<1>1. ring'.next = nx /\ ring'.prev = pv /\ ring' = [next |-> nx, prev |-> pv]
  BY DEF RingInsert, RingLink
<1>2. c \in Threads \cup {h}
  BY DEF RingInv
<1>3. h \in Nodes /\ n \in Nodes /\ c \in Nodes /\ n # h
  BY <1>2, NodesDistinct
<1> HIDE DEF c
<1>4. nx \in [Nodes -> Nodes \cup {Null}] /\ pv \in [Nodes -> Nodes \cup {Null}]
  BY Zenon, <1>3 DEF TypeOK
<1>5. nx[h] = n
  BY <1>3 DEF TypeOK
<1>6. ASSUME NEW g \in RunHeads, g # h PROVE nx[g] = ring.next[g] /\ pv[g] = ring.prev[g]
  BY <1>2, <1>6, NodesDistinct DEF TypeOK
<1>7. ASSUME NEW g \in RunHeads, g # h PROVE q'[g] = q[g]
  BY <1>7 DEF TypeOK
<1> HIDE DEF nx, pv
<1>8. RingInv'
  BY ZenonT(30), <1>1, <1>3, <1>5, <1>6, <1>7 DEF RingInv
<1>9. QED BY Zenon, <1>1, <1>4, <1>8

-----------------------------------------------------------------------------
\* The state after boot.
LEMMA InitIInv == Init => IInv
<1> SUFFICES ASSUME Init PROVE IInv
  OBVIOUS
<1> USE DEF Init, SchedInstanciate, Instanciated
<1>1. /\ \A n \in RunHeads \cup Threads : ring.next[n] = n /\ ring.prev[n] = n
      /\ ring \in [next : [Nodes -> Nodes \cup {Null}], prev : [Nodes -> Nodes \cup {Null}]]
  <2>1. \A n \in RunHeads \cup Threads, c \in CPUs : n # Blocked(c)
    <3>1. \A c \in CPUs : Blocked(c) \in CPUs \X (0..NRQS) /\ Blocked(c)[2] = NRQS
      BY SchedulerConstants DEF Blocked
    <3>2. \A n \in RunHeads : n[2] \in Queues
      BY DEF RunHeads
    <3>3. NRQS \notin Queues
      BY SchedulerConstants DEF Queues
    <3>4. QED BY <3>1, <3>2, <3>3, SchedulerConstants 
  <2>2. QED BY <2>1, NodesDistinct
<1>2. \A c \in CPUs : home[IdleThread[c]] = c
  BY SchedulerConstants
<1>3. home \in [Threads -> CPUs \cup {Null}]
  OBVIOUS
<1>4. TypeOK
  BY <1>1, <1>3, SchedulerConstants DEF TypeOK, NoCall
<1>5. RingInv
  BY Zenon, <1>1 DEF RingInv
<1>6. LockInv /\ FlagInv /\ IdleInv /\ CallInv
  <2>1. LockInv
    BY NodesDistinct DEF LockInv
  <2>2. FlagInv
    BY SchedulerConstants DEF FlagInv
  <2>3. IdleInv
    BY <1>2 DEF IdleInv
  <2>4. CallInv
    BY DEF CallInv, NoCall, Contexts
  <2>5. QED BY <2>1, <2>2, <2>3, <2>4
<1>7. QueueInv
  BY DEF QueueInv, InQueue, On, Inserts, NoCall
<1>8. CountInv
  <2>1. \A c \in CPUs : Queued(c) = {}
    BY NodesDistinct DEF Queued, On
  <2>2. Cardinality({}) = 0
    BY FS_EmptySet
  <2>3. \A c \in CPUs : count[c] = 1
    OBVIOUS
  <2>4. \A c \in CPUs : Cardinality(Queued(c)) = 0
    BY <2>1, <2>2, Zenon
  <2>5. QED BY <2>3, <2>4 DEF CountInv
<1>9. QED BY <1>4, <1>5, <1>6, <1>7, <1>8 DEF IInv

\* What a step keeps that leaves the rings alone.
LEMMA RingsUnchanged ==
  ASSUME RingInv, CountInv, UNCHANGED <<ring, q, count>>
  PROVE  /\ RingInv' /\ CountInv'
         /\ \A n \in Threads : InQueue(n)' <=> InQueue(n)
         /\ \A h \in RunHeads, n \in Threads : On(h, n)' <=> On(h, n)
<1>1. RingInv'
  BY DEF RingInv
<1>2. CountInv'
  BY DEF CountInv, Queued, On
<1>3. /\ \A n \in Threads : InQueue(n)' <=> InQueue(n)
      /\ \A h \in RunHeads, n \in Threads : On(h, n)' <=> On(h, n)
  BY DEF InQueue, On
<1>4. QED BY <1>1, <1>2, <1>3

\* A step that leaves the rings and t_current_cpu alone and starts no
\* insertion keeps QueueInv.
LEMMA QueueUnchanged ==
  ASSUME RingInv, CountInv, QueueInv, UNCHANGED <<ring, q, count, home>>,
         \A t, n \in Threads : Inserts(t, n)' => Inserts(t, n) /\ call'[t].cpu = call[t].cpu
  PROVE  QueueInv'
<1>1. /\ \A n \in Threads : InQueue(n)' <=> InQueue(n)
      /\ \A h \in RunHeads, n \in Threads : On(h, n)' <=> On(h, n)
  BY RingsUnchanged
<1>2. QED BY <1>1 DEF QueueInv

\* A new call.
LEMMA CallKeeps ==
  ASSUME IInv, NEW c \in CPUs, NEW t \in Threads, NEW cpu \in CPUs, NEW n \in Threads,
         CallInsert(c, t, cpu, n) \/ CallRemove(c, t, cpu) \/ CallActualize(c, t, n)
  PROVE  IInv'
<1> USE DEF IInv
<1>1. pc[t] = "run" /\ cur[c] = t /\ irq[c] = "none" /\ call[t].fn = "none"
  BY DEF CallInsert, CallRemove, CallActualize, Runs, CallInv, Contexts
<1>2. UNCHANGED <<ring, q, count, decay, lock, cur, flags, irq>>
  BY DEF CallInsert, CallRemove, CallActualize, schedVars, threadVars
<1>3. /\ RingInv' /\ CountInv' /\ \A m \in Threads : InQueue(m)' <=> InQueue(m)
      /\ \A h \in RunHeads, m \in Threads : On(h, m)' <=> On(h, m)
  BY <1>2, RingsUnchanged
<1>4. CASE CallInsert(c, t, cpu, n)
  <2>1. /\ home[n] = Null /\ home' = [home EXCEPT ![n] = cpu] /\ waitq' = waitq
        /\ pc' = [pc EXCEPT ![t] = "flag"]
        /\ call' = [call EXCEPT ![t] = [fn |-> "sched_insert", cpu |-> cpu, thread |-> n]]
    BY <1>4 DEF CallInsert
  <2>2. \A d \in CPUs : IdleThread[d] # n
    BY <2>1, NodesDistinct DEF IdleInv
  <2>3. ~ InQueue(n)
    BY <2>1, NodesDistinct DEF QueueInv, InQueue, RunHeads
  <2>4. TypeOK'
    BY <1>2, <2>1 DEF TypeOK, Contexts
  <2>5. LockInv'
    BY <1>1, <1>2, <2>1, NodesDistinct DEF LockInv, TypeOK
  <2>6. FlagInv'
    BY <1>1, <1>2, <2>1 DEF FlagInv, TypeOK
  <2>7. IdleInv'
    BY <1>2, <2>1, <2>2, SchedulerConstants DEF IdleInv, TypeOK
  <2>8. CallInv'
    BY <1>1, <2>1 DEF CallInv, TypeOK, Contexts
  <2>9. QueueInv'
    <3>1. \A u, m \in Threads : Inserts(u, m)' <=> Inserts(u, m) \/ (u = t /\ m = n)
      BY <1>1, <2>1 DEF Inserts, TypeOK
    <3>2. \A u, m \in Threads : Inserts(u, m) => m # n /\ u # t /\ home[m] = call[u].cpu
      BY SMTT(30), <1>1, <2>1, NodesDistinct DEF QueueInv, Inserts, CallInv
    <3>3. \A h \in RunHeads, m \in Threads : On(h, m) => m # n
      BY <2>3 DEF InQueue
    <3>4. \A h \in RunHeads, m \in Threads : On(h, m) => PrioOf(m) = h[2] /\ home'[m] = h[1]
      BY SMTT(30), <2>1, <3>3 DEF QueueInv, TypeOK
    <3>5. ASSUME NEW u \in Threads, NEW m \in Threads, Inserts(u, m)'
          PROVE  /\ home'[m] = call'[u].cpu /\ ~ InQueue(m)
                 /\ \A d \in CPUs : IdleThread[d] # m
                 /\ \A v \in Threads : Inserts(v, m)' => v = u
      <4>1. CASE Inserts(u, m)
        <5>1. home'[m] = call'[u].cpu
          BY <2>1, <3>2, <4>1 DEF TypeOK
        <5>2. QED BY <3>1, <3>2, <4>1, <5>1 DEF QueueInv
      <4>2. CASE u = t /\ m = n
        <5>1. home'[m] = call'[u].cpu
          BY <2>1, <4>2 DEF TypeOK
        <5>2. QED BY <2>2, <2>3, <3>1, <3>2, <4>2, <5>1
      <4>3. QED BY <3>1, <3>5, <4>1, <4>2
    <3>6. \A m \in Threads : InQueue(m) => \A d \in CPUs : IdleThread[d] # m
      BY DEF QueueInv
    <3>7. QED
      BY Zenon, <1>2, <1>3, <3>4, <3>5, <3>6 DEF QueueInv
  <2>10. QED BY <1>3, <2>4, <2>5, <2>6, <2>7, <2>8, <2>9
<1>5. CASE CallRemove(c, t, cpu) \/ CallActualize(c, t, n)
  <2>1. home' = home /\ waitq' = waitq
    BY <1>5 DEF CallRemove, CallActualize, threadVars, TypeOK
  <2>2. CASE UNCHANGED <<pc, call>>
    <3>1. TypeOK' /\ LockInv' /\ FlagInv' /\ IdleInv' /\ CallInv'
      BY <1>2, <2>1, <2>2 DEF TypeOK, LockInv, FlagInv, IdleInv, CallInv
    <3>2. \A u, m \in Threads : Inserts(u, m)' => Inserts(u, m) /\ call'[u].cpu = call[u].cpu
      BY <2>2 DEF Inserts
    <3>3. QueueInv'
      BY <1>2, <2>1, <3>2, QueueUnchanged
    <3>4. QED BY <1>3, <3>1, <3>3
  <2>3. ASSUME NEW y \in [fn : {"sched_remove", "sched_actualize"}, cpu : CPUs,
                          thread : Threads \cup {Null}],
               y.fn = "sched_remove" <=> y.thread = Null,
               pc' = [pc EXCEPT ![t] = "flag"], call' = [call EXCEPT ![t] = y]
        PROVE  IInv'
    <3>1. TypeOK'
      BY <1>2, <2>1, <2>3 DEF TypeOK, Contexts
    <3>2. LockInv'
      BY <1>1, <1>2, <2>3, NodesDistinct DEF LockInv, TypeOK
    <3>3. FlagInv'
      BY <1>1, <1>2, <2>3 DEF FlagInv, TypeOK
    <3>4. IdleInv'
      BY <1>2, <2>1 DEF IdleInv
    <3>5. CallInv'
      BY <1>1, <2>3 DEF CallInv, TypeOK, Contexts
    <3>6. \A u, m \in Threads : Inserts(u, m)' => Inserts(u, m) /\ call'[u].cpu = call[u].cpu
      BY <1>1, <2>3 DEF Inserts, TypeOK
    <3>7. QueueInv'
      BY <1>2, <2>1, <3>6, QueueUnchanged
    <3>8. QED BY <1>3, <3>1, <3>2, <3>3, <3>4, <3>5, <3>7
  <2>4. CASE CallRemove(c, t, cpu)
    BY Zenon, <2>3, <2>4 DEF CallRemove
  <2>5. CASE CallActualize(c, t, n)
    <3>1. home[n] # Null => home[n] \in CPUs
      BY DEF TypeOK
    <3>2. QED BY Zenon, <2>2, <2>3, <2>5, <3>1, NodesDistinct DEF CallActualize, Nodes
  <2>6. QED BY <1>5, <2>4, <2>5
<1>6. QED BY <1>4, <1>5

\* Setting THREAD_SF_LOCK_SCHED.
LEMMA SetFlagKeeps ==
  ASSUME IInv, NEW c \in CPUs, NEW t \in Threads, SetFlag(c, t)
  PROVE  IInv'
<1> USE DEF IInv
<1>1. /\ pc[t] = "flag" /\ cur[c] = t /\ irq[c] = "none"
      /\ flags' = [flags EXCEPT ![t] = @ \cup {"LOCK_SCHED"}]
      /\ pc' = [pc EXCEPT ![t] = "lock"]
      /\ UNCHANGED <<ring, q, count, decay, lock, cur, home, waitq, call, irq>>
  BY DEF SetFlag, Runs, schedVars
<1>2. \A d \in CPUs : cur[d] = t => d = c
  BY <1>1, SchedulerConstants DEF IdleInv
<1>3. RingInv' /\ CountInv'
  BY <1>1, RingsUnchanged
<1>4. TypeOK'
  BY <1>1 DEF TypeOK, Contexts
<1>5. LockInv' /\ CallInv'
  BY <1>1 DEF LockInv, CallInv, TypeOK, Contexts
<1>6. FlagInv'
  BY <1>1, <1>2 DEF FlagInv, TypeOK
<1>7. IdleInv'
  BY <1>1 DEF IdleInv, TypeOK
<1>8. \A u, m \in Threads : Inserts(u, m)' => Inserts(u, m) /\ call'[u].cpu = call[u].cpu
  BY <1>1 DEF Inserts, TypeOK
<1>9. QueueInv'
  BY <1>1, <1>8, QueueUnchanged
<1>10. QED BY <1>3, <1>4, <1>5, <1>6, <1>7, <1>9

\* Clearing THREAD_SF_LOCK_SCHED: sched_remove has no thread whose
\* t_current_cpu it would clear.
LEMMA ClearFlagKeeps ==
  ASSUME IInv, NEW c \in CPUs, NEW t \in Threads, ClearFlag(c, t)
  PROVE  IInv'
<1> USE DEF IInv
<1>1. /\ pc[t] = "unlocked" /\ cur[c] = t /\ irq[c] = "none"
      /\ flags' = [flags EXCEPT ![t] = @ \ {"LOCK_SCHED"}]
      /\ pc' = [pc EXCEPT ![t] = "run"] /\ call' = [call EXCEPT ![t] = NoCall]
      /\ UNCHANGED <<ring, q, count, decay, lock, cur, waitq, irq>>
  BY DEF ClearFlag, Runs, schedVars
<1>2. home' = home
  BY DEF ClearFlag, CallInv
<1>3. RingInv' /\ CountInv'
  BY <1>1, RingsUnchanged
<1>4. TypeOK'
  BY <1>1, <1>2 DEF TypeOK, NoCall
<1>5. LockInv' /\ CallInv'
  BY <1>1, NodesDistinct DEF LockInv, CallInv, TypeOK, Contexts, NoCall
<1>6. FlagInv'
  BY <1>1, SchedulerConstants DEF FlagInv, TypeOK
<1>7. IdleInv'
  BY <1>1, <1>2 DEF IdleInv, TypeOK
<1>8. \A u, m \in Threads : Inserts(u, m)' => Inserts(u, m) /\ call'[u].cpu = call[u].cpu
  BY <1>1 DEF Inserts, TypeOK, NoCall
<1>9. QueueInv'
  BY <1>1, <1>2, <1>8, QueueUnchanged
<1>10. QED BY <1>3, <1>4, <1>5, <1>6, <1>7, <1>9

\* A step of a thread outside the scheduler, to place p, with flags f.
LEMMA WaitStepKeeps ==
  ASSUME IInv, NEW t \in Threads, NEW p \in {"run", "yield"},
         NEW f \in SUBSET {"PREEMPT", "LOCK_SCHED", "QUEUE_WAIT"},
         "LOCK_SCHED" \in f <=> "LOCK_SCHED" \in flags[t],
         "PREEMPT" \in f <=> "PREEMPT" \in flags[t],
         pc[t] \in {"run", "yielded"},
         pc' = [pc EXCEPT ![t] = p], flags' = [flags EXCEPT ![t] = f],
         UNCHANGED <<ring, q, count, decay, lock, cur, home, waitq, call, irq>>
  PROVE  IInv'
<1> USE DEF IInv
<1>1. RingInv' /\ CountInv'
  BY RingsUnchanged
<1>2. TypeOK'
  BY DEF TypeOK
<1>3. LockInv' /\ CallInv'
  BY DEF LockInv, CallInv, TypeOK, Contexts
<1>4. FlagInv' /\ IdleInv'
  BY DEF FlagInv, IdleInv, TypeOK
<1>5. \A u, m \in Threads : Inserts(u, m)' => Inserts(u, m) /\ call'[u].cpu = call[u].cpu
  BY DEF Inserts, TypeOK
<1>6. QueueInv'
  BY <1>5, QueueUnchanged
<1>7. QED BY <1>1, <1>2, <1>3, <1>4, <1>6

\* waitqueue_wait sets and clears THREAD_SF_QUEUE_WAIT.
LEMMA WaitKeeps ==
  ASSUME IInv, NEW c \in CPUs, NEW t \in Threads, WaitFlag(c, t) \/ WaitEnd(c, t)
  PROVE  IInv'
<1>1. flags[t] \in SUBSET {"PREEMPT", "LOCK_SCHED", "QUEUE_WAIT"}
  BY DEF IInv, TypeOK
<1>2. CASE WaitFlag(c, t)
  <2> DEFINE f == flags[t] \cup {"QUEUE_WAIT"}
  <2>1. /\ f \in SUBSET {"PREEMPT", "LOCK_SCHED", "QUEUE_WAIT"}
        /\ "LOCK_SCHED" \in f <=> "LOCK_SCHED" \in flags[t]
        /\ "PREEMPT" \in f <=> "PREEMPT" \in flags[t]
    BY <1>1
  <2>2. /\ pc[t] = "run" /\ pc' = [pc EXCEPT ![t] = "yield"] /\ flags' = [flags EXCEPT ![t] = f]
        /\ UNCHANGED <<ring, q, count, decay, lock, cur, home, waitq, call, irq>>
    BY <1>2 DEF WaitFlag, schedVars
  <2> HIDE DEF f
  <2>3. QED BY Zenon, <2>1, <2>2, WaitStepKeeps
<1>3. CASE WaitEnd(c, t)
  <2> DEFINE f == flags[t] \ {"QUEUE_WAIT"}
  <2>1. /\ f \in SUBSET {"PREEMPT", "LOCK_SCHED", "QUEUE_WAIT"}
        /\ "LOCK_SCHED" \in f <=> "LOCK_SCHED" \in flags[t]
        /\ "PREEMPT" \in f <=> "PREEMPT" \in flags[t]
    BY <1>1
  <2>2. /\ pc[t] = "yielded" /\ pc' = [pc EXCEPT ![t] = "run"] /\ flags' = [flags EXCEPT ![t] = f]
        /\ UNCHANGED <<ring, q, count, decay, lock, cur, home, waitq, call, irq>>
    BY <1>3 DEF WaitEnd, schedVars
  <2> HIDE DEF f
  <2>3. QED BY Zenon, <2>1, <2>2, WaitStepKeeps
<1>4. QED BY <1>2, <1>3

\* A thread acquires a scheduler's lock.
LEMMA LockKeeps ==
  ASSUME IInv, NEW c \in CPUs, NEW t \in Threads, Lock(c, t)
  PROVE  IInv'
<1> USE DEF IInv
<1>1. /\ pc[t] = "lock" /\ lock[call[t].cpu] = Null
      /\ lock' = [lock EXCEPT ![call[t].cpu] = t]
      /\ pc' = [pc EXCEPT ![t] = "locked"]
      /\ UNCHANGED <<ring, q, count, decay, flags, cur, home, waitq, call, irq>>
  BY DEF Lock, Runs, schedVars, threadVars
<1>2. call[t].cpu \in CPUs
  BY <1>1 DEF CallInv, Contexts
<1>3. RingInv' /\ CountInv'
  BY <1>1, RingsUnchanged
<1>4. TypeOK'
  BY <1>1, <1>2 DEF TypeOK, Contexts
<1>5. LockInv'
  BY <1>1, <1>2, NodesDistinct DEF LockInv, TypeOK
<1>6. CallInv' /\ FlagInv' /\ IdleInv'
  BY <1>1 DEF CallInv, FlagInv, IdleInv, TypeOK, Contexts
<1>7. \A u, m \in Threads : Inserts(u, m)' => Inserts(u, m) /\ call'[u].cpu = call[u].cpu
  BY <1>1 DEF Inserts, TypeOK
<1>8. QueueInv'
  BY <1>1, <1>7, QueueUnchanged
<1>9. QED BY <1>3, <1>4, <1>5, <1>6, <1>8

\* A preemption event begins, or gives up, by timer or by yield.
LEMMA EventKeeps ==
  ASSUME IInv, NEW c \in CPUs, Timer(c) \/ \E t \in Threads : Yield(c, t)
  PROVE  IInv'
<1> USE DEF IInv
<1>1. /\ irq[c] = "none"
      /\ irq' = [irq EXCEPT ![c] = IF "LOCK_SCHED" \in flags[cur[c]] THEN "none" ELSE "lock"]
      /\ UNCHANGED <<ring, q, count, decay, lock, flags, cur, home, waitq, call>>
  BY Zenon DEF Timer, Yield, PreemptEntry, schedVars, threadVars
<1>2. \A u \in Threads : pc'[u] = pc[u] \/ (pc[u] = "yield" /\ pc'[u] = "yielded")
  BY DEF Timer, Yield, TypeOK
<1>3. pc' \in [Threads -> {"run", "yield", "yielded"} \cup Contexts]
  BY Zenon DEF Timer, Yield, TypeOK
<1>4. RingInv' /\ CountInv'
  BY <1>1, RingsUnchanged, Zenon
<1>5. TypeOK'
  BY <1>1, <1>3 DEF TypeOK
<1>6. LockInv'
  BY <1>1, <1>2 DEF LockInv, TypeOK
<1>7. CallInv' /\ IdleInv'
  BY Zenon, <1>1, <1>2 DEF CallInv, IdleInv, Contexts
<1>8. FlagInv'
  <2>1. \A u \in Threads :
          "LOCK_SCHED" \in flags'[u] <=> pc'[u] \in {"lock", "locked", "unlocked", "wedged"}
    BY <1>1, <1>2 DEF FlagInv
  <2>2. ASSUME NEW d \in CPUs, irq'[d] # "none" PROVE "LOCK_SCHED" \notin flags'[cur'[d]]
    <3>1. CASE d = c
      <4>1. irq'[c] = IF "LOCK_SCHED" \in flags[cur[c]] THEN "none" ELSE "lock"
        BY <1>1 DEF TypeOK
      <4>2. QED BY <1>1, <2>2, <3>1, <4>1
    <3>2. CASE d # c
      <4>1. irq'[d] = irq[d]
        BY <1>1, <3>2 DEF TypeOK
      <4>2. QED BY <1>1, <2>2, <4>1 DEF FlagInv
    <3>3. QED BY <3>1, <3>2
  <2>3. QED BY <2>1, <2>2, Zenon DEF FlagInv
<1>9. \A u, m \in Threads : Inserts(u, m)' => Inserts(u, m) /\ call'[u].cpu = call[u].cpu
  BY <1>1, <1>2 DEF Inserts
<1>10. QueueInv'
  BY <1>1, <1>9, QueueUnchanged
<1>11. QED BY <1>4, <1>5, <1>6, <1>7, <1>8, <1>10

\* The event acquires the lock of its CPU's scheduler.
LEMMA PreemptLockKeeps ==
  ASSUME IInv, NEW c \in CPUs, PreemptLock(c)
  PROVE  IInv'
<1> USE DEF IInv
<1>1. /\ irq[c] = "lock" /\ lock[c] = Null
      /\ lock' = [lock EXCEPT ![c] = c] /\ irq' = [irq EXCEPT ![c] = "locked"]
      /\ UNCHANGED <<ring, q, count, decay, flags, cur, home, waitq, pc, call>>
  BY DEF PreemptLock, schedVars, threadVars
<1>2. RingInv' /\ CountInv'
  BY <1>1, RingsUnchanged
<1>3. TypeOK'
  BY <1>1 DEF TypeOK
<1>4. LockInv'
  BY <1>1, NodesDistinct DEF LockInv, TypeOK
<1>5. CallInv' /\ FlagInv' /\ IdleInv'
  BY <1>1 DEF CallInv, FlagInv, IdleInv, TypeOK
<1>6. \A u, m \in Threads : Inserts(u, m)' => Inserts(u, m) /\ call'[u].cpu = call[u].cpu
  BY Zenon, <1>1 DEF Inserts
<1>7. QueueInv'
  BY <1>1, <1>6, QueueUnchanged
<1>8. QED BY <1>2, <1>3, <1>4, <1>5, <1>7

-----------------------------------------------------------------------------
\* The end of a thread's section.
LEMMA UnlockKeeps ==
  ASSUME TypeOK, LockInv, FlagInv, IdleInv, CallInv, NEW t \in Threads, pc[t] = "locked",
         lock' = [lock EXCEPT ![call[t].cpu] = Null], pc' = [pc EXCEPT ![t] = "unlocked"],
         UNCHANGED <<cur, home, flags, waitq, irq, call>>
  PROVE  /\ LockInv' /\ FlagInv' /\ IdleInv' /\ CallInv' /\ call[t].cpu \in CPUs
         /\ lock' \in [CPUs -> CPUs \cup Threads \cup {Null}]
         /\ pc' \in [Threads -> {"run", "yield", "yielded"} \cup Contexts]
         /\ \A u, m \in Threads : Inserts(u, m)' =>
              u # t /\ Inserts(u, m) /\ call'[u].cpu = call[u].cpu
<1>1. call[t].cpu \in CPUs
  BY DEF CallInv, Contexts
<1>2. LockInv'
  BY <1>1, NodesDistinct DEF LockInv, TypeOK
<1>3. FlagInv' /\ IdleInv' /\ CallInv'
  BY DEF FlagInv, IdleInv, CallInv, TypeOK, Contexts
<1>4. /\ lock' \in [CPUs -> CPUs \cup Threads \cup {Null}]
      /\ pc' \in [Threads -> {"run", "yield", "yielded"} \cup Contexts]
  BY <1>1 DEF TypeOK, Contexts
<1>5. \A u, m \in Threads : Inserts(u, m)' =>
              u # t /\ Inserts(u, m) /\ call'[u].cpu = call[u].cpu
  BY DEF Inserts, TypeOK
<1>6. QED BY <1>1, <1>2, <1>3, <1>4, <1>5

\* The scheduler becomes s.
LEMMA ApplyRecord ==
  ASSUME NEW r2, NEW q2, NEW d2, Apply([ring |-> r2, q |-> q2, decay |-> d2])
  PROVE  ring' = r2 /\ q' = q2 /\ decay' = d2
BY DEF Apply

\* sched_reenqueue of a thread that is neither idle nor suspended.
LEMMA ReenqueueRunnable ==
  ASSUME NEW d, NEW n, n # IdleThread[d], ~ Suspended(n),
         Apply(Reenqueue(ring, q, decay, d, n))
  PROVE  /\ ring' = RingInsert(ring, RunOf(d, n), n, TRUE)
         /\ q' = [q EXCEPT ![RunOf(d, n)] = << n >> \o @]
         /\ \/ decay' = decay
            \/ decay' = [decay EXCEPT ![d][PrioOf(n)] = SchedPrios[PrioOf(n)]]
<1> DEFINE r2 == RingInsert(ring, RunOf(d, n), n, TRUE)
           q2 == [q EXCEPT ![RunOf(d, n)] = << n >> \o @]
           d2 == IF RingEmpty(ring, RunOf(d, n)) THEN decay
                 ELSE [decay EXCEPT ![d][PrioOf(n)] = SchedPrios[PrioOf(n)]]
<1>1. Reenqueue(ring, q, decay, d, n) = [ring |-> r2, q |-> q2, decay |-> d2]
  BY Zenon DEF Reenqueue, RunOf, PrioOf
<1>2. d2 = decay \/ d2 = [decay EXCEPT ![d][PrioOf(n)] = SchedPrios[PrioOf(n)]]
  BY Zenon
<1>3. ring' = r2 /\ q' = q2 /\ decay' = d2
  <2> HIDE DEF r2, q2, d2
  <2>1. Apply([ring |-> r2, q |-> q2, decay |-> d2])
    BY <1>1, Zenon
  <2>2. QED BY <2>1, ApplyRecord, Zenon
<1>4. ring' = r2 /\ q' = q2
  BY <1>3, Zenon
<1> HIDE DEF d2
<1>5. QED BY <1>2, <1>3, <1>4, Zenon

\* Resetting a decay keeps the type.
LEMMA DecayType ==
  ASSUME NEW dd \in [CPUs -> [Queues -> Int]], NEW d \in CPUs, NEW k \in Queues
  PROVE  [dd EXCEPT ![d][k] = SchedPrios[k]] \in [CPUs -> [Queues -> Int]]
BY SchedulerConstants

\* The run queues of the threads are run queues.
LEMMA RunOfType ==
  ASSUME NEW d \in CPUs, NEW n \in Threads
  PROVE  PrioOf(n) \in Queues /\ RunOf(d, n) \in RunHeads /\ RunOf(d, n) = <<d, PrioOf(n)>>
<1>1. Priority[n] \in Nat /\ NRQS \in Nat \ {0}
  BY SchedulerConstants
<1>2. PrioOf(n) \in 0..(NRQS - 1)
  BY <1>1 DEF PrioOf
<1>3. QED BY <1>2 DEF Queues, RunHeads, RunRing, RunOf

\* What sched_insert does to the rings: it links thread n into the run queue
\* of its priority, as no thread is suspended.
LEMMA InsertEffect ==
  ASSUME TypeOK, NEW n \in Threads, NEW d \in CPUs, n # IdleThread[d],
         Apply(Reenqueue(ring, q, decay, d, n))
  PROVE  /\ ring' = RingInsert(ring, RunOf(d, n), n, TRUE)
         /\ q' = [q EXCEPT ![RunOf(d, n)] = << n >> \o @]
         /\ decay' \in [CPUs -> [Queues -> Int]]
<1>1. ~ Suspended(n)
  BY DEF TypeOK, Suspended
<1>2. /\ ring' = RingInsert(ring, RunOf(d, n), n, TRUE)
      /\ q' = [q EXCEPT ![RunOf(d, n)] = << n >> \o @]
      /\ \/ decay' = decay
         \/ decay' = [decay EXCEPT ![d][PrioOf(n)] = SchedPrios[PrioOf(n)]]
  BY <1>1, ReenqueueRunnable, Zenon
<1>3. decay \in [CPUs -> [Queues -> Int]]
  BY DEF TypeOK
<1>4. [decay EXCEPT ![d][PrioOf(n)] = SchedPrios[PrioOf(n)]] \in [CPUs -> [Queues -> Int]]
  BY <1>3, RunOfType, DecayType, Zenon
<1>5. decay' \in [CPUs -> [Queues -> Int]]
  BY <1>2, <1>3, <1>4, Zenon
<1>6. QED BY <1>2, <1>5, Zenon

\* Putting a thread in front of a queue adds it to the queue.
LEMMA PrependOn ==
  ASSUME q \in [RunHeads -> Seq(Threads)], NEW h \in RunHeads, NEW n \in Threads,
         q' = [q EXCEPT ![h] = << n >> \o @]
  PROVE  /\ q' \in [RunHeads -> Seq(Threads)]
         /\ \A g \in RunHeads, m \in Threads : On(g, m)' <=> On(g, m) \/ (g = h /\ m = n)
<1>1. q[h] \in Seq(Threads) /\ q'[h] = << n >> \o q[h] /\ Len(q[h]) \in Nat
  OBVIOUS
<1>2. q' \in [RunHeads -> Seq(Threads)] /\ \A g \in RunHeads : g # h => q'[g] = q[g]
  BY <1>1
<1>3. Len(q'[h]) = Len(q[h]) + 1 /\ q'[h][1] = n
  BY <1>1
<1>4. \A i \in 1..Len(q[h]) : i + 1 \in 1..Len(q'[h]) /\ q'[h][i + 1] = q[h][i]
  BY <1>1, <1>3
<1>5. \A i \in 1..Len(q'[h]) : i # 1 => i - 1 \in 1..Len(q[h]) /\ q'[h][i] = q[h][i - 1]
  BY <1>1, <1>3
<1>6. ASSUME NEW g \in RunHeads, g # h, NEW m \in Threads PROVE On(g, m)' <=> On(g, m)
  BY <1>2, <1>6 DEF On
<1>7. ASSUME NEW m \in Threads PROVE On(h, m)' <=> On(h, m) \/ m = n
  <2>1. ASSUME On(h, m) PROVE On(h, m)'
    BY <2>1, <1>4 DEF On
  <2>2. ASSUME m = n PROVE On(h, m)'
    <3>1. 1 \in 1..Len(q'[h]) /\ q'[h][1] = m
      BY <2>2, <1>1, <1>3
    <3>2. QED BY <3>1 DEF On
  <2>3. ASSUME On(h, m)', m # n PROVE On(h, m)
    <3>1. PICK i \in 1..Len(q'[h]) : q'[h][i] = m
      BY <2>3 DEF On
    <3>2. i # 1
      BY <3>1, <2>3, <1>3
    <3>3. i - 1 \in 1..Len(q[h]) /\ q[h][i - 1] = m
      BY <3>1, <3>2, <1>5
    <3>4. QED BY <3>3 DEF On
  <2>4. QED BY <2>1, <2>2, <2>3
<1>8. QED BY <1>2, <1>6, <1>7

\* The threads queued at a CPU are those on its run queues.
LEMMA QueuedOn ==
  ASSUME NEW c \in CPUs
  PROVE  /\ Queued(c) \subseteq Threads
         /\ \A m \in Threads : m \in Queued(c) <=> \E i \in Queues : On(<<c, i>>, m)
BY DEF Queued, RunRing

\* After thread n got on queue h of its CPU, threads are where QueueInv says.
LEMMA InsertKeepsQueue ==
  ASSUME QueueInv, NEW t \in Threads, NEW n \in Threads, NEW h \in RunHeads,
         Inserts(t, n), home[n] = h[1], PrioOf(n) = h[2], home' = home,
         \A g \in RunHeads, m \in Threads : On(g, m)' <=> On(g, m) \/ (g = h /\ m = n),
         \A u, m \in Threads : Inserts(u, m)' =>
           u # t /\ Inserts(u, m) /\ call'[u].cpu = call[u].cpu
  PROVE  QueueInv'
<1>0. /\ \A g \in RunHeads, m \in Threads : On(g, m) => PrioOf(m) = g[2] /\ home[m] = g[1]
      /\ \A m \in Threads : InQueue(m) => \A e \in CPUs : IdleThread[e] # m
      /\ \A e \in CPUs : IdleThread[e] # n
  BY Zenon DEF QueueInv
<1>1. ASSUME NEW g \in RunHeads, NEW m \in Threads, On(g, m)'
      PROVE  PrioOf(m) = g[2] /\ home'[m] = g[1]
  <2>1. On(g, m) \/ (g = h /\ m = n)
    BY <1>1
  <2>2. QED BY <2>1, <1>0
<1>2. ASSUME NEW m \in Threads, InQueue(m)' PROVE InQueue(m) \/ m = n
  BY <1>2 DEF InQueue
<1>3. ASSUME NEW m \in Threads, InQueue(m)' PROVE \A e \in CPUs : IdleThread[e] # m
  BY <1>0, <1>2, <1>3
<1>4. ASSUME NEW u \in Threads, NEW m \in Threads, Inserts(u, m)'
      PROVE  /\ home'[m] = call'[u].cpu /\ ~ InQueue(m)'
             /\ \A e \in CPUs : IdleThread[e] # m
             /\ \A v \in Threads : Inserts(v, m)' => v = u
  <2>1. u # t /\ Inserts(u, m) /\ call'[u].cpu = call[u].cpu
    BY <1>4
  <2>2. m # n
    BY SMTT(30), <2>1 DEF QueueInv
  <2>3. /\ home[m] = call[u].cpu /\ ~ InQueue(m) /\ (\A e \in CPUs : IdleThread[e] # m)
        /\ \A v \in Threads : Inserts(v, m) => v = u
    BY <2>1 DEF QueueInv
  <2>4. QED BY <2>1, <2>2, <2>3, <1>2
<1>5. QED BY Zenon, <1>1, <1>3, <1>4 DEF QueueInv

\* ... and sched_thread_count is right.
LEMMA InsertKeepsCount ==
  ASSUME CountInv, NEW n \in Threads, NEW d \in CPUs, NEW p \in Queues, ~ InQueue(n),
         count \in [CPUs -> Nat \ {0}], count' = [count EXCEPT ![d] = @ + 1],
         \A g \in RunHeads, m \in Threads : On(g, m)' <=> On(g, m) \/ (g = <<d, p>> /\ m = n)
  PROVE  CountInv'
<1> SUFFICES ASSUME NEW e \in CPUs PROVE count'[e] = 1 + Cardinality(Queued(e)')
  BY DEF CountInv
<1>1. \A i \in Queues : <<e, i>> \in RunHeads
  BY DEF RunHeads
<1>2. /\ Queued(e) \subseteq Threads
      /\ \A m \in Threads : m \in Queued(e) <=> \E i \in Queues : On(<<e, i>>, m)
  BY QueuedOn
<1>4. /\ Queued(e)' \subseteq Threads
      /\ \A m \in Threads : m \in Queued(e)' <=> \E i \in Queues : On(<<e, i>>, m)'
  BY Zenon DEF Queued, RunRing
<1>5. /\ IsFiniteSet(Queued(e)) /\ Cardinality(Queued(e)) \in Nat
      /\ count[e] = 1 + Cardinality(Queued(e))
  BY <1>2, SchedulerConstants, FS_Subset, FS_CardinalityType DEF CountInv
<1>6. CASE e = d
  <2>1. n \notin Queued(e)
    BY Zenon, <1>1, <1>2 DEF InQueue
  <2>2. Queued(e)' = Queued(e) \cup {n}
    BY <1>1, <1>2, <1>4, <1>6
  <2>3. Cardinality(Queued(e)') = Cardinality(Queued(e)) + 1
    BY Zenon, <2>1, <2>2, <1>5, FS_AddElement
  <2>4. count'[e] = count[e] + 1
    BY <1>6
  <2>5. QED BY <2>3, <2>4, <1>5
<1>7. CASE e # d
  <2>1. \A i \in Queues, m \in Threads : On(<<e, i>>, m)' <=> On(<<e, i>>, m)
    BY <1>1, <1>7
  <2>2. Queued(e)' = Queued(e)
    BY Zenon, <2>1, <1>2, <1>4
  <2>3. count'[e] = count[e]
    BY <1>7
  <2>4. QED BY <2>2, <2>3, <1>5
<1>8. QED BY <1>6, <1>7

\* sched_insert.
LEMMA InsertKeeps ==
  ASSUME IInv, NEW c \in CPUs, NEW t \in Threads, Insert(c, t)
  PROVE  IInv'
<1> DEFINE n == call[t].thread
           d == call[t].cpu
<1>1. /\ pc[t] = "locked" /\ call[t].fn = "sched_insert"
      /\ Apply(Reenqueue(ring, q, decay, d, n))
      /\ count' = [count EXCEPT ![d] = @ + 1]
      /\ lock' = [lock EXCEPT ![call[t].cpu] = Null] /\ pc' = [pc EXCEPT ![t] = "unlocked"]
      /\ UNCHANGED <<cur, home, flags, waitq, irq, call>>
  BY Zenon DEF Insert, InsertThread, InLock, Unlock, threadVars
<1>2. n \in Threads /\ d \in CPUs /\ call[t].cpu = d
  BY <1>1 DEF IInv, CallInv
<1>3. Inserts(t, n)
  BY <1>1 DEF Inserts
<1>4. ~ InQueue(n) /\ home[n] = d /\ n # IdleThread[d]
  BY <1>2, <1>3 DEF IInv, QueueInv
<1> HIDE DEF n, d
<1> DEFINE h == RunOf(d, n)
<1>5. PrioOf(n) \in Queues /\ h \in RunHeads /\ h = <<d, PrioOf(n)>>
  BY <1>2, RunOfType, Zenon
<1>6. TypeOK /\ RingInv
  BY DEF IInv
<1>7. /\ ring' = RingInsert(ring, h, n, TRUE)
      /\ q' = [q EXCEPT ![h] = << n >> \o @]
      /\ decay' \in [CPUs -> [Queues -> Int]]
  BY <1>1, <1>2, <1>4, <1>6, InsertEffect, Zenon
<1> HIDE DEF h
<1>9. RingInv' /\ ring' \in [next : [Nodes -> Nodes \cup {Null}], prev : [Nodes -> Nodes \cup {Null}]]
  BY <1>2, <1>5, <1>6, <1>7, InsertKeepsRings, Zenon
<1>11. /\ q \in [RunHeads -> Seq(Threads)] /\ q' \in [RunHeads -> Seq(Threads)]
       /\ \A g \in RunHeads, m \in Threads : On(g, m)' <=> On(g, m) \/ (g = h /\ m = n)
  BY <1>2, <1>5, <1>6, <1>7, PrependOn, Zenon DEF TypeOK
<1>12. /\ LockInv' /\ FlagInv' /\ IdleInv' /\ CallInv'
       /\ lock' \in [CPUs -> CPUs \cup Threads \cup {Null}]
       /\ pc' \in [Threads -> {"run", "yield", "yielded"} \cup Contexts]
       /\ \A u, m \in Threads : Inserts(u, m)' =>
            u # t /\ Inserts(u, m) /\ call'[u].cpu = call[u].cpu
  BY Zenon, <1>1, UnlockKeeps DEF IInv
<1>13. QueueInv'
  <2>1. h[1] = d /\ h[2] = PrioOf(n)
    BY <1>5
  <2>2. QueueInv /\ home[n] = h[1] /\ PrioOf(n) = h[2] /\ home' = home
    BY Zenon, <1>1, <1>4, <2>1 DEF IInv
  <2>3. \A u, m \in Threads : Inserts(u, m)' =>
          u # t /\ Inserts(u, m) /\ call'[u].cpu = call[u].cpu
    BY <1>12
  <2>4. \A g \in RunHeads, m \in Threads : On(g, m)' <=> On(g, m) \/ (g = h /\ m = n)
    BY <1>11
  <2>5. QED BY <1>2, <1>3, <1>5, <2>2, <2>3, <2>4, InsertKeepsQueue, Zenon
<1>14. count \in [CPUs -> Nat \ {0}] /\ count' \in [CPUs -> Nat \ {0}]
  BY <1>1, <1>2, <1>6 DEF TypeOK
<1>15. CountInv'
  BY Zenon, <1>1, <1>2, <1>4, <1>5, <1>11, <1>14, InsertKeepsCount DEF IInv
<1>16. TypeOK'
  BY Zenon, <1>1, <1>6, <1>7, <1>9, <1>11, <1>12, <1>14 DEF TypeOK
<1>17. QED BY <1>9, <1>12, <1>13, <1>15, <1>16 DEF IInv

\* A step inside a section that leaves the rings alone.
LEMMA SectionKeeps ==
  ASSUME IInv, UNCHANGED <<ring, q, count, cur, home, flags, waitq, call>>,
         decay' \in [CPUs -> [Queues -> Int]],
         lock' \in [CPUs -> CPUs \cup Threads \cup {Null}],
         pc' \in [Threads -> {"run", "yield", "yielded"} \cup Contexts],
         irq' \in [CPUs -> {"none", "lock", "locked", "wedged"}],
         LockInv', FlagInv', CallInv',
         \A u, m \in Threads : Inserts(u, m)' => Inserts(u, m)
  PROVE  IInv'
<1>1. TypeOK'
  BY DEF IInv, TypeOK
<1>2. IdleInv'
  BY Zenon DEF IInv, IdleInv
<1>3. RingInv' /\ CountInv'
  BY RingsUnchanged DEF IInv
<1>4. QueueInv'
  BY QueueUnchanged DEF IInv
<1>5. QED BY <1>1, <1>2, <1>3, <1>4 DEF IInv

\* sched_actualize: no thread is marked as preempted.
LEMMA ActualizeKeeps ==
  ASSUME IInv, NEW c \in CPUs, NEW t \in Threads, Actualize(c, t)
  PROVE  IInv' /\ ring' = ring /\ q' = q
<1>1. call[t].thread \in Threads
  BY Zenon DEF Actualize, InLock, IInv, CallInv
<1>2. "PREEMPT" \notin flags[call[t].thread]
  BY <1>1 DEF IInv, IdleInv
<1>3. /\ pc[t] = "locked" /\ UNCHANGED <<ring, q, decay, count, call, cur, home, flags, waitq, irq>>
      /\ lock' = [lock EXCEPT ![call[t].cpu] = Null] /\ pc' = [pc EXCEPT ![t] = "unlocked"]
  BY Zenon, <1>2 DEF Actualize, InLock, Unlock, threadVars
<1>4. /\ LockInv' /\ FlagInv' /\ CallInv'
      /\ lock' \in [CPUs -> CPUs \cup Threads \cup {Null}]
      /\ pc' \in [Threads -> {"run", "yield", "yielded"} \cup Contexts]
      /\ \A u, m \in Threads : Inserts(u, m)' => Inserts(u, m)
  BY Zenon, <1>3, UnlockKeeps DEF IInv
<1>5. decay' \in [CPUs -> [Queues -> Int]] /\ irq' \in [CPUs -> {"none", "lock", "locked", "wedged"}]
  BY <1>3 DEF IInv, TypeOK
<1>6. IInv'
  BY Zenon, <1>3, <1>4, <1>5, SectionKeeps
<1>7. QED BY <1>3, <1>6

\* A pass leaves the rings as they are.
LEMMA PassEffect ==
  ASSUME TypeOK, RingInv, NEW c \in CPUs, NEW mi \in Queues \cup {-1}, Choice(c, mi),
         Apply(Pass(c, mi))
  PROVE  ring' = ring /\ q' = q /\ decay' \in [CPUs -> [Queues -> Int]]
BY PassTakesNothing DEF Apply

\* sched_remove under the lock: it faults on a list node or returns null.
LEMMA RemoveKeeps ==
  ASSUME IInv, NEW c \in CPUs, NEW t \in Threads, RemoveNext(c, t)
  PROVE  IInv' /\ ring' = ring /\ q' = q
<1> DEFINE d == call[t].cpu
<1>1. pc[t] = "locked" /\ call[t].fn = "sched_remove"
  BY DEF RemoveNext, InLock
<1>2. d \in CPUs /\ call[t].thread = Null /\ TypeOK /\ RingInv
  BY <1>1 DEF IInv, CallInv
<1> HIDE DEF d
<1>3. PICK mi \in Queues \cup {-1} :
        /\ Choice(d, mi)
        /\ \/ /\ PassFaults(d, mi) /\ Apply(Pass(d, mi))
              /\ pc' = [pc EXCEPT ![t] = "wedged"]
              /\ UNCHANGED <<count, lock, threadVars, call, irq>>
           \/ /\ ~ PassFaults(d, mi)
              /\ IF PassRestarts(d, mi)
                 THEN Restart(d, mi)
                 ELSE /\ Apply(Pass(d, mi))
                      /\ count' = [count EXCEPT ![d] = @ - Removed(d, mi)]
                      /\ call' = [call EXCEPT ![t].thread = Result(d, mi)]
                      /\ Unlock(t)
  BY Zenon DEF RemoveNext, d
<1>4. Result(d, mi) = Null /\ ~ PassRestarts(d, mi)
  BY <1>2, <1>3, PassTakesNothing
<1>5. Apply(Pass(d, mi))
  BY <1>3, <1>4, Zenon
<1>6. ring' = ring /\ q' = q /\ decay' \in [CPUs -> [Queues -> Int]]
  BY <1>2, <1>3, <1>5, PassEffect
<1>7. CASE pc' = [pc EXCEPT ![t] = "wedged"] /\ UNCHANGED <<count, lock, threadVars, call, irq>>
  <2>1. UNCHANGED <<count, lock, cur, home, flags, waitq, call, irq>>
    BY <1>7 DEF threadVars
  <2>p. /\ pc'[t] = "wedged" /\ call' = call /\ lock' = lock /\ flags' = flags
        /\ cur' = cur /\ irq' = irq /\ \A u \in Threads : u # t => pc'[u] = pc[u]
    BY <1>2, <1>7, <2>1 DEF TypeOK
  <2>l. LockInv'
    <3>1. \A u \in Threads : pc'[u] \in {"locked", "wedged"} <=> pc[u] \in {"locked", "wedged"}
      BY <1>1, <2>p
    <3>2. \A u \in Threads, e \in CPUs :
            lock'[e] = u <=> pc'[u] \in {"locked", "wedged"} /\ call'[u].cpu = e
      <4>1. \A u \in Threads, e \in CPUs :
              lock[e] = u <=> pc[u] \in {"locked", "wedged"} /\ call[u].cpu = e
        BY Zenon DEF IInv, LockInv
      <4>2. lock' = lock /\ call' = call
        BY <2>p
      <4>3. QED BY <4>1, <4>2, <3>1
    <3>3. \A e, g \in CPUs : lock'[g] = e <=> e = g /\ irq'[e] \in {"locked", "wedged"}
      <4>1. \A e, g \in CPUs : lock[g] = e <=> e = g /\ irq[e] \in {"locked", "wedged"}
        BY Zenon DEF IInv, LockInv
      <4>2. lock' = lock /\ irq' = irq
        BY <2>p, Zenon
      <4>3. QED BY <4>1, <4>2, Zenon
    <3>4. QED BY <3>2, <3>3, Zenon DEF LockInv
  <2>f. FlagInv'
    BY <1>1, <2>p DEF IInv, FlagInv
  <2>c. CallInv'
    BY <1>1, <2>p DEF IInv, CallInv, Contexts
  <2>2. LockInv' /\ FlagInv' /\ CallInv'
    BY <2>l, <2>f, <2>c
  <2>3. /\ lock' \in [CPUs -> CPUs \cup Threads \cup {Null}]
        /\ pc' \in [Threads -> {"run", "yield", "yielded"} \cup Contexts]
        /\ irq' \in [CPUs -> {"none", "lock", "locked", "wedged"}]
    BY <1>2, <1>7, <2>1 DEF TypeOK, Contexts
  <2>4. \A u, m \in Threads : Inserts(u, m)' => Inserts(u, m)
    BY <1>1, <1>2, <1>7, <2>1 DEF Inserts, TypeOK
  <2>5. IInv'
    BY <1>6, <2>1, <2>2, <2>3, <2>4, SectionKeeps
  <2>6. QED BY <1>6, <2>5
<1>8. CASE /\ count' = [count EXCEPT ![d] = @ - Removed(d, mi)]
           /\ call' = [call EXCEPT ![t].thread = Result(d, mi)]
           /\ Unlock(t)
  <2>1. Removed(d, mi) = 0
    BY <1>4 DEF Removed
  <2>2. count' = count
    BY <1>2, <1>8, <2>1 DEF TypeOK
  <2>3. call' = call
    BY <1>2, <1>4, <1>8 DEF TypeOK
  <2>4. /\ lock' = [lock EXCEPT ![call[t].cpu] = Null] /\ pc' = [pc EXCEPT ![t] = "unlocked"]
        /\ UNCHANGED <<cur, home, flags, waitq, irq>>
    BY <1>8 DEF Unlock, threadVars
  <2>5. /\ LockInv' /\ FlagInv' /\ CallInv'
        /\ lock' \in [CPUs -> CPUs \cup Threads \cup {Null}]
        /\ pc' \in [Threads -> {"run", "yield", "yielded"} \cup Contexts]
        /\ \A u, m \in Threads : Inserts(u, m)' => Inserts(u, m)
    BY Zenon, <1>1, <2>3, <2>4, UnlockKeeps DEF IInv
  <2>6. irq' \in [CPUs -> {"none", "lock", "locked", "wedged"}]
    BY <1>2, <2>4 DEF TypeOK
  <2>7. IInv'
    BY Zenon, <1>6, <2>2, <2>3, <2>4, <2>5, <2>6, SectionKeeps
  <2>8. QED BY <1>6, <2>7
<1>9. QED BY <1>3, <1>4, <1>7, <1>8, Zenon

\* sched_preempt under the lock: it faults or goes on with the same thread.
LEMMA PreemptKeeps ==
  ASSUME IInv, NEW c \in CPUs, Preempt(c)
  PROVE  IInv' /\ ring' = ring /\ q' = q
<1>1. irq[c] = "locked"
  BY DEF Preempt
<1>2. TypeOK /\ RingInv /\ cur[c] \in Threads
  BY DEF IInv, TypeOK
<1>3. PICK mi \in Queues \cup {-1} :
        /\ Choice(c, mi)
        /\ \/ /\ PassFaults(c, mi) /\ Apply(Pass(c, mi))
              /\ irq' = [irq EXCEPT ![c] = "wedged"]
              /\ UNCHANGED <<count, lock, threadVars, pc, call>>
           \/ /\ ~ PassFaults(c, mi)
              /\ IF PassRestarts(c, mi)
                 THEN Restart(c, mi)
                 ELSE Switch(c, cur[c], NextThread(c, mi), Pass(c, mi))
  BY Zenon DEF Preempt
<1>4. Result(c, mi) = Null /\ ~ PassRestarts(c, mi)
  BY Zenon, <1>2, <1>3, PassTakesNothing
<1>5. NextThread(c, mi) = cur[c]
  BY <1>2, <1>4 DEF NextThread, Suspended, TypeOK
<1>6. /\ Apply(Pass(c, mi)) /\ UNCHANGED <<count, cur, home, flags, waitq, pc, call>>
      /\ \/ irq' = [irq EXCEPT ![c] = "wedged"] /\ lock' = lock
         \/ irq' = [irq EXCEPT ![c] = "none"] /\ lock' = [lock EXCEPT ![c] = Null]
  BY <1>3, <1>4, <1>5, Zenon DEF Switch, threadVars
<1>7. ring' = ring /\ q' = q /\ decay' \in [CPUs -> [Queues -> Int]]
  BY <1>2, <1>3, <1>6, PassEffect
<1>a. /\ pc' = pc /\ call' = call /\ flags' = flags /\ cur' = cur
      /\ \A d \in CPUs : d # c => irq'[d] = irq[d] /\ lock'[d] = lock[d]
      /\ \/ irq'[c] = "wedged" /\ lock'[c] = lock[c]
         \/ irq'[c] = "none" /\ lock'[c] = Null
  <2>1. /\ irq \in [CPUs -> {"none", "lock", "locked", "wedged"}]
        /\ lock \in [CPUs -> CPUs \cup Threads \cup {Null}]
    BY <1>2 DEF TypeOK
  <2>2. CASE irq' = [irq EXCEPT ![c] = "wedged"] /\ lock' = lock
    BY <1>6, <2>1, <2>2
  <2>3. CASE irq' = [irq EXCEPT ![c] = "none"] /\ lock' = [lock EXCEPT ![c] = Null]
    BY <1>6, <2>1, <2>3
  <2>4. QED BY <1>6, <2>2, <2>3
<1>b. lock[c] = c
  BY <1>1 DEF IInv, LockInv
<1>8. LockInv'
  <2>1. \A t \in Threads, d \in CPUs :
          lock'[d] = t <=> pc'[t] \in {"locked", "wedged"} /\ call'[t].cpu = d
    <3>1. \A t \in Threads : t # c /\ t # Null
      BY NodesDistinct
    <3>2. \A t \in Threads, d \in CPUs : lock'[d] = t <=> lock[d] = t
      BY <1>a, <1>b, <3>1
    <3>3. \A t \in Threads, d \in CPUs :
            lock[d] = t <=> pc[t] \in {"locked", "wedged"} /\ call[t].cpu = d
      BY Zenon DEF IInv, LockInv
    <3>4. pc' = pc /\ call' = call
      BY <1>a
    <3>5. QED BY <3>2, <3>3, <3>4
  <2>2. \A e, d \in CPUs : lock'[d] = e <=> e = d /\ irq'[e] \in {"locked", "wedged"}
    <3>1. ASSUME NEW e \in CPUs
          PROVE  lock'[c] = e <=> e = c /\ irq'[e] \in {"locked", "wedged"}
      BY <1>a, <1>b, NodesDistinct
    <3>2. ASSUME NEW e \in CPUs, NEW d \in CPUs, d # c
          PROVE  lock'[d] = e <=> e = d /\ irq'[e] \in {"locked", "wedged"}
      <4>1. lock'[d] = lock[d] /\ irq'[d] = irq[d]
        BY <1>a, <3>2
      <4>2. lock[d] = e <=> e = d /\ irq[e] \in {"locked", "wedged"}
        BY DEF IInv, LockInv
      <4>3. QED BY <4>1, <4>2
    <3>3. QED BY <3>1, <3>2
  <2>3. QED BY <2>1, <2>2, Zenon DEF LockInv
<1>f. FlagInv'
  BY <1>1, <1>a DEF IInv, FlagInv
<1>c. CallInv'
  BY <1>a, Zenon DEF IInv, CallInv
<1>9. FlagInv' /\ CallInv'
  BY <1>f, <1>c
<1>10. /\ lock' \in [CPUs -> CPUs \cup Threads \cup {Null}]
       /\ pc' \in [Threads -> {"run", "yield", "yielded"} \cup Contexts]
       /\ irq' \in [CPUs -> {"none", "lock", "locked", "wedged"}]
  BY Zenon, <1>2, <1>6 DEF TypeOK
<1>11. \A u, m \in Threads : Inserts(u, m)' => Inserts(u, m)
  BY Zenon, <1>6 DEF Inserts
<1>12. IInv'
  BY <1>6, <1>7, <1>8, <1>9, <1>10, <1>11, SectionKeeps
<1>13. QED BY <1>7, <1>12

-----------------------------------------------------------------------------
\* The invariant holds in every state of the schedulers, whatever the number
\* of CPUs, threads and priorities.
THEOREM Invariance == Spec => []IInv
<1>1. IInv /\ [Next]_vars => IInv'
  <2> SUFFICES ASSUME IInv, [Next]_vars PROVE IInv'
    OBVIOUS
  <2>1. CASE UNCHANGED vars
    <3>1. UNCHANGED <<ring, q, decay, count, lock, cur, home, flags, waitq, pc, call, irq>>
      BY <2>1 DEF vars
    <3>2. LockInv' /\ FlagInv' /\ CallInv' /\ \A u, m \in Threads : Inserts(u, m)' => Inserts(u, m)
      <4>1. LockInv' /\ FlagInv'
        <5>1. lock' = lock /\ pc' = pc /\ call' = call /\ irq' = irq /\ flags' = flags /\ cur' = cur
          BY <3>1
        <5>2. LockInv'
          BY <5>1 DEF IInv, LockInv
        <5>3. FlagInv'
          <6>1. FlagInv /\ (FlagInv' <=> FlagInv)
            BY <5>1 DEF IInv, FlagInv
          <6>2. QED BY <6>1
        <5>4. QED BY <5>2, <5>3
      <4>2. CallInv' /\ \A u, m \in Threads : Inserts(u, m)' => Inserts(u, m)
        <5>1. pc' = pc /\ call' = call
          BY <3>1
        <5>2. QED BY <5>1, Zenon DEF IInv, CallInv, Inserts
      <4>3. QED BY <4>1, <4>2
    <3>3. /\ decay' \in [CPUs -> [Queues -> Int]]
          /\ lock' \in [CPUs -> CPUs \cup Threads \cup {Null}]
          /\ pc' \in [Threads -> {"run", "yield", "yielded"} \cup Contexts]
          /\ irq' \in [CPUs -> {"none", "lock", "locked", "wedged"}]
      BY <3>1 DEF IInv, TypeOK
    <3>4. QED BY <3>1, <3>2, <3>3, SectionKeeps
  <2>2. ASSUME NEW c \in CPUs, NEW t \in Threads, NEW n \in Threads, NEW cpu \in CPUs,
               CallInsert(c, t, cpu, n) \/ CallRemove(c, t, cpu) \/ CallActualize(c, t, n)
        PROVE  IInv'
    BY <2>2, CallKeeps
  <2>3. ASSUME NEW c \in CPUs, NEW t \in Threads, WaitFlag(c, t) \/ WaitEnd(c, t) PROVE IInv'
    BY <2>3, WaitKeeps
  <2>4. ASSUME NEW c \in CPUs, Timer(c) \/ \E t \in Threads : Yield(c, t) PROVE IInv'
    BY <2>4, EventKeeps
  <2>5. ASSUME NEW c \in CPUs, NEW t \in Threads, SetFlag(c, t) \/ Lock(c, t) \/ ClearFlag(c, t)
        PROVE  IInv'
    BY <2>5, SetFlagKeeps, LockKeeps, ClearFlagKeeps
  <2>6. ASSUME NEW c \in CPUs, NEW t \in Threads, Insert(c, t) \/ RemoveNext(c, t) \/ Actualize(c, t)
        PROVE  IInv'
    BY <2>6, InsertKeeps, RemoveKeeps, ActualizeKeeps
  <2>7. ASSUME NEW c \in CPUs, PreemptLock(c) \/ Preempt(c) PROVE IInv'
    BY <2>7, PreemptLockKeeps, PreemptKeeps
  <2>8. ASSUME NEW c \in CPUs, Step(c) PROVE IInv'
    BY <2>3, <2>4, <2>5, <2>6, <2>7, <2>8, Zenon DEF Step
  <2>9. CASE Next
    <3>1. PICK c \in CPUs :
            \/ \E t, n \in Threads, cpu \in CPUs : CallInsert(c, t, cpu, n)
            \/ \E t \in Threads, cpu \in CPUs : CallRemove(c, t, cpu)
            \/ \E t, n \in Threads : CallActualize(c, t, n)
            \/ \E t \in Threads : WaitFlag(c, t)
            \/ Timer(c)
            \/ Step(c)
      BY <2>9, Zenon DEF Next
    <3>2. QED BY <3>1, <2>2, <2>3, <2>4, <2>8, Zenon
  <2>10. QED BY <2>1, <2>9
<1>2. QED BY InitIInv, <1>1, PTL DEF Spec

\* No preemption event is under way on a CPU whose thread holds a scheduler's
\* lock: the deadlock the comment that opens kern_sched.c describes.
THEOREM EventsClear == Spec => []EventNeverOverLock
<1>1. IInv => EventNeverOverLock
  <2> SUFFICES ASSUME IInv, NEW c \in CPUs, NEW d \in CPUs, irq[c] # "none", lock[d] = cur[c]
               PROVE  FALSE
    BY DEF EventNeverOverLock
  <2>1. cur[c] \in Threads /\ "LOCK_SCHED" \notin flags[cur[c]]
    BY DEF IInv, TypeOK, FlagInv
  <2>2. pc[cur[c]] \in {"locked", "wedged"}
    BY <2>1 DEF IInv, LockInv
  <2>3. QED BY <2>1, <2>2 DEF IInv, FlagInv
<1>2. QED BY <1>1, Invariance, PTL

\* sched_thread_count is exact: sched_insert counts every thread it links.
THEOREM CountTrue == Spec => []CountExact
<1>1. IInv => CountExact
  BY DEF IInv, CountInv, CountExact
<1>2. QED BY <1>1, Invariance, PTL

\* A queued thread is on the queue of its priority at the CPU t_current_cpu
\* names, and runs on no CPU.
THEOREM ThreadsAtHome == Spec => []QueuedAtHome
<1>1. IInv => QueuedAtHome
  <2> SUFFICES ASSUME IInv, NEW c \in CPUs, NEW i \in Queues, NEW t \in Threads,
                      On(RunRing(c, i), t)
               PROVE  Priority[t] % NRQS = i /\ home[t] = c /\ \A d \in CPUs : cur[d] # t
    BY DEF QueuedAtHome
  <2>1. RunRing(c, i) \in RunHeads /\ RunRing(c, i)[1] = c /\ RunRing(c, i)[2] = i
    BY DEF RunRing, RunHeads
  <2>2. PrioOf(t) = i /\ home[t] = c
    BY Zenon, <2>1 DEF IInv, QueueInv
  <2>3. InQueue(t)
    BY <2>1 DEF InQueue
  <2>4. \A d \in CPUs : IdleThread[d] # t
    BY <2>3 DEF IInv, QueueInv
  <2>5. QED BY <2>2, <2>4 DEF IInv, IdleInv, PrioOf
<1>2. QED BY <1>1, Invariance, PTL

-----------------------------------------------------------------------------
\* The schedulers implement the rings of RingQueue.

\* The part of the pointers that the run queues and the threads have.
View(r) ==
  [next |-> [n \in RunHeads \cup Threads |-> r.next[n]],
   prev |-> [n \in RunHeads \cup Threads |-> r.prev[n]]]

\* linked_ring_insert behind a list node writes to this part only.
LEMMA InsertInView ==
  ASSUME NEW r \in [next : [Nodes -> Nodes \cup {Null}], prev : [Nodes -> Nodes \cup {Null}]],
         NEW h \in RunHeads, NEW n \in Threads, r.next[h] \in RunHeads \cup Threads
  PROVE  View(RingInsert(r, h, n, TRUE)) = RQ!RingInsert(View(r), h, n, TRUE)
<1> DEFINE M == RunHeads \cup Threads
           k == r.next[h]
           r2 == RingInsert(r, h, n, TRUE)
<1>1. h \in M /\ n \in M /\ k \in M /\ M \subseteq Nodes
  BY NodesDistinct
<1>2. r2.next = [r.next EXCEPT ![h] = n, ![n] = k] /\ r2.prev = [r.prev EXCEPT ![k] = n, ![n] = h]
  BY DEF RingInsert, RingLink
<1>3. [x \in M |-> r2.next[x]] = [[x \in M |-> r.next[x]] EXCEPT ![h] = n, ![n] = k]
  BY <1>1, <1>2
<1>4. [x \in M |-> r2.prev[x]] = [[x \in M |-> r.prev[x]] EXCEPT ![k] = n, ![n] = h]
  BY <1>1, <1>2
<1>5. View(r).next[h] = k
  BY <1>1 DEF View
<1>6. QED
  BY <1>3, <1>4, <1>5 DEF View, RQ!RingInsert, RQ!RingLink

\* sched_insert links a thread that no queue holds: it is not one that another
\* caller inserts too, and not an idle thread.
LEMMA InsertRefines ==
  ASSUME IInv, NEW c \in CPUs, NEW t \in Threads, Insert(c, t)
  PROVE  RQ!Next
<1> DEFINE n == call[t].thread
           d == call[t].cpu
<1>1. /\ pc[t] = "locked" /\ call[t].fn = "sched_insert"
      /\ Apply(Reenqueue(ring, q, decay, d, n))
  BY Zenon DEF Insert, InsertThread, InLock
<1>2. n \in Threads /\ d \in CPUs
  BY <1>1 DEF IInv, CallInv
<1>3. Inserts(t, n)
  BY <1>1 DEF Inserts
<1>4. ~ InQueue(n) /\ n # IdleThread[d]
  BY <1>2, <1>3 DEF IInv, QueueInv
<1> HIDE DEF n, d
<1> DEFINE h == RunOf(d, n)
<1>5. h \in RunHeads
  BY <1>2, RunOfType, Zenon
<1>6. /\ ring' = RingInsert(ring, h, n, TRUE)
      /\ q' = [q EXCEPT ![h] = << n >> \o @]
  BY <1>1, <1>2, <1>4, InsertEffect, Zenon DEF IInv
<1> HIDE DEF h
<1>7. View(ring') = RQ!RingInsert(View(ring), h, n, TRUE)
  <2>1. ring \in [next : [Nodes -> Nodes \cup {Null}], prev : [Nodes -> Nodes \cup {Null}]]
    BY DEF IInv, TypeOK
  <2>2. ring.next[h] \in RunHeads \cup Threads
    BY <1>5 DEF IInv, RingInv
  <2>3. QED BY <1>2, <1>5, <1>6, <2>1, <2>2, InsertInView
<1>8. ~ RQ!Linked(n)
  BY <1>4 DEF RQ!Linked, InQueue, On
<1>9. PICK g \in RunHeads, e \in Threads : g = h /\ e = n
  BY <1>2, <1>5
<1>10. RQ!InsertAfter(g, e)
  BY <1>6, <1>7, <1>8, <1>9 DEF RQ!InsertAfter, View
<1>11. QED
  BY <1>9, <1>10 DEF RQ!Next

\* Nothing else changes a run queue.
LEMMA OthersStutter ==
  ASSUME IInv, [Next]_vars
  PROVE  (ring' = ring /\ q' = q) \/ \E c \in CPUs, t \in Threads : Insert(c, t)
<1>1. ASSUME NEW c \in CPUs, Step(c)
      PROVE  (ring' = ring /\ q' = q) \/ \E t \in Threads : Insert(c, t)
  <2>1. ASSUME NEW t \in Threads,
               SetFlag(c, t) \/ Lock(c, t) \/ ClearFlag(c, t) \/ Yield(c, t) \/ WaitEnd(c, t)
        PROVE  ring' = ring /\ q' = q
    BY <2>1 DEF SetFlag, Lock, ClearFlag, Yield, WaitEnd, schedVars
  <2>2. ASSUME NEW t \in Threads, RemoveNext(c, t) \/ Actualize(c, t)
        PROVE  ring' = ring /\ q' = q
    BY <2>2, RemoveKeeps, ActualizeKeeps, Zenon
  <2>3. PreemptLock(c) \/ Preempt(c) => ring' = ring /\ q' = q
    <3>1. PreemptLock(c) => ring' = ring /\ q' = q
      BY DEF PreemptLock, schedVars
    <3>2. QED BY <3>1, PreemptKeeps, Zenon
  <2>4. QED BY <1>1, <2>1, <2>2, <2>3, Zenon DEF Step
<1>2. ASSUME NEW c \in CPUs, NEW t \in Threads, NEW n \in Threads, NEW cpu \in CPUs,
             \/ CallInsert(c, t, cpu, n) \/ CallRemove(c, t, cpu) \/ CallActualize(c, t, n)
             \/ WaitFlag(c, t) \/ Timer(c)
      PROVE  ring' = ring /\ q' = q
  BY <1>2 DEF CallInsert, CallRemove, CallActualize, WaitFlag, Timer, schedVars
<1>3. CASE UNCHANGED vars
  BY <1>3 DEF vars
<1>4. CASE Next
  <2>1. PICK c \in CPUs :
          \/ \E t, n \in Threads, cpu \in CPUs : CallInsert(c, t, cpu, n)
          \/ \E t \in Threads, cpu \in CPUs : CallRemove(c, t, cpu)
          \/ \E t, n \in Threads : CallActualize(c, t, n)
          \/ \E t \in Threads : WaitFlag(c, t)
          \/ Timer(c)
          \/ Step(c)
    BY <1>4, Zenon DEF Next
  <2>2. IdleThread[c] \in Threads
    BY SchedulerConstants
  <2>3. QED BY <1>1, <1>2, <2>1, <2>2, Zenon
<1>5. QED BY <1>3, <1>4

\* sched_instanciate and thread_allocate leave rings as linked_ring_init does.
LEMMA InitRefines == Init => RQ!Init
<1> SUFFICES ASSUME Init PROVE RQ!Init
  OBVIOUS
<1> DEFINE ptr == [x \in Nodes |-> IF x \in {Blocked(c) : c \in CPUs} THEN Null ELSE x]
           M == RunHeads \cup Threads
<1>1. ring = [next |-> ptr, prev |-> ptr] /\ q = [h \in RunHeads |-> << >>]
  BY DEF Init, SchedInstanciate, Instanciated
<1>2. \A x \in M : x \in Nodes /\ x \notin {Blocked(c) : c \in CPUs}
  <2>1. \A c \in CPUs : Blocked(c) = <<c, NRQS>> /\ Blocked(c) \in CPUs \X (0..NRQS)
    BY SchedulerConstants DEF Blocked
  <2>2. \A h \in RunHeads, c \in CPUs : h # <<c, NRQS>>
    BY SchedulerConstants DEF RunHeads, Queues
  <2>3. \A t \in Threads, c \in CPUs : t # Blocked(c)
    BY <2>1, SchedulerConstants
  <2>4. QED BY <2>1, <2>2, <2>3, NodesDistinct
<1>3. [x \in M |-> ptr[x]] = [x \in M |-> x]
  BY <1>2
<1>4. View(ring) = [next |-> [x \in M |-> x], prev |-> [x \in M |-> x]]
  BY Zenon, <1>1, <1>3 DEF View
<1>5. [x \in RQ!Nodes |-> IF x \in RunHeads \cup Threads THEN x ELSE Null] = [x \in M |-> x]
  BY DEF RQ!Nodes
<1>6. QED
  BY Zenon, <1>1, <1>4, <1>5 DEF RQ!Init, View

\* The schedulers keep the contract of kern_ring.c, for any number of CPUs,
\* threads and queues and any interleaving of their callers and events: their
\* run queues are rings into which a thread is only linked while no ring holds
\* its t_queue_entry.
THEOREM RingsUsedRight == Spec => RingContract
<1>1. IInv /\ [Next]_vars => [RQ!Next]_(RQ!vars)
  <2> SUFFICES ASSUME IInv, [Next]_vars PROVE [RQ!Next]_(RQ!vars)
    OBVIOUS
  <2>1. CASE ring' = ring /\ q' = q
    BY <2>1 DEF RQ!vars
  <2>2. CASE \E c \in CPUs, t \in Threads : Insert(c, t)
    BY <2>2, InsertRefines
  <2>3. QED BY <2>1, <2>2, OthersStutter
<1>2. QED
  BY InitRefines, Invariance, <1>1, PTL DEF Spec, RingContract, RQ!Spec

\* The rings as RingQueueProofs has them.
RQP == INSTANCE RingQueueProofs WITH
  Heads <- RunHeads, Elems <- Threads, ring <- View(ring)

\* With what RingQueueProofs shows of kern_ring.c: after every section of
\* sched_insert, sched_remove, sched_actualize and sched_preempt the pointers of
\* the run queues are exactly the queues, and no thread is on two of them or on
\* one twice.
THEOREM RunQueuesNeverTorn == Spec => []RQP!RingsRepresentQueues
<1>1. RunHeads \cap Threads = {} /\ Null \notin RunHeads \cup Threads
  BY NodesDistinct
<1>2. RQP!Spec => []RQP!RingsRepresentQueues
  BY <1>1, RQP!RingsCorrect
<1>3. RQ!Init => RQP!Init
  BY Zenon DEF RQ!Init, RQP!Init, RQ!Nodes, RQP!Nodes, View
<1>4. [RQ!Next]_(RQ!vars) => [RQP!Next]_(RQP!vars)
  BY Zenon DEF RQ!Next, RQ!InsertAfter, RQ!InsertBefore, RQ!Unlink, RQ!RemoveLast, RQ!Linked, RQ!vars,
         RQ!RingInsert, RQ!RingLink, RQ!RingRemove, RQ!Without,
         RQP!Next, RQP!InsertAfter, RQP!InsertBefore, RQP!Unlink, RQP!RemoveLast, RQP!Linked, RQP!vars,
         RQP!RingInsert, RQP!RingLink, RQP!RingRemove, RQP!Without, View
<1>5. RQ!Spec => RQP!Spec
  BY <1>3, <1>4, PTL DEF RQ!Spec, RQP!Spec
<1>6. QED
  BY RingsUsedRight, <1>2, <1>5, PTL DEF RingContract
=============================================================================
