------------------------------ MODULE RingQueue ------------------------------
(***************************************************************************)
(* What the callers of kern_ring.c get from it as long as they keep its    *)
(* unwritten contract: insert an element only while it is unlinked, remove *)
(* it only while it is linked.  Several rings share one pool of elements,  *)
(* the way the run queues of a scheduler (kern_sched.c) share the          *)
(* t_queue_entry fields of its threads.  The variable q is what the rings  *)
(* mean: the sequence of elements each one holds.                          *)
(***************************************************************************)
EXTENDS Ring

CONSTANTS
  Heads,   \* the list nodes: sched_run_ring[i], sched_blocked, wq_threads
  Elems,   \* the entries of the threads
  Null     \* the pointers of a zeroed entry

ASSUME RingNodes == /\ Heads \cap Elems = {}
                    /\ Null \notin Heads \cup Elems

VARIABLES
  ring,    \* the pointers of all nodes
  q        \* q[h]: the elements on ring h, in the order of the next pointers

vars == <<ring, q>>

Nodes == Heads \cup Elems

Linked(e) == \E h \in Heads : \E i \in 1..Len(q[h]) : q[h][i] = e

\* The value of ring and q; the pointers of a list node are never null.
TypeOK ==
  /\ ring \in [next : [Nodes -> Nodes \cup {Null}],
               prev : [Nodes -> Nodes \cup {Null}]]
  /\ q \in [Heads -> Seq(Elems)]
  /\ \A h \in Heads : ring.next[h] # Null /\ ring.prev[h] # Null

\* linked_ring_init of every list node; an entry is zeroed (t_wait_entry) or
\* a ring of its own (t_queue_entry, which thread_allocate initialises).
Init ==
  /\ \E own \in SUBSET Elems :
       LET ptr == [n \in Nodes |-> IF n \in Heads \cup own THEN n ELSE Null]
       IN  ring = [next |-> ptr, prev |-> ptr]
  /\ q = [h \in Heads |-> << >>]

\* linked_ring_insert(list, elem, 1): elem becomes the first element.
InsertAfter(h, e) ==
  /\ ~ Linked(e)
  /\ ring' = RingInsert(ring, h, e, TRUE)
  /\ q' = [q EXCEPT ![h] = << e >> \o @]

\* linked_ring_insert(list, elem, 0): elem becomes the last element, the one
\* that waitqueue_get_first and sched_schedule_next take next.
InsertBefore(h, e) ==
  /\ ~ Linked(e)
  /\ ring' = RingInsert(ring, h, e, FALSE)
  /\ q' = [q EXCEPT ![h] = Append(@, e)]

\* The sequence s without its i-th element.
Without(s, i) == SubSeq(s, 1, i - 1) \o SubSeq(s, i + 1, Len(s))

\* linked_ring_remove of an element, wherever it is linked (sched_actualize).
Unlink(h, i) ==
  /\ i \in 1..Len(q[h])
  /\ ring' = RingRemove(ring, q[h][i])
  /\ q' = [q EXCEPT ![h] = Without(@, i)]

\* elem = head->prev; linked_ring_remove(elem): what both consumers do.  The
\* scheduler does it without looking whether the ring is empty.
RemoveLast(h) ==
  /\ ring' = RingRemove(ring, ring.prev[h])
  /\ q' = [q EXCEPT ![h] = IF @ = << >> THEN @ ELSE Without(@, Len(@))]

Next ==
  \E h \in Heads :
     \/ \E e \in Elems : InsertAfter(h, e) \/ InsertBefore(h, e)
     \/ \E i \in 1..Len(q[h]) : Unlink(h, i)
     \/ RemoveLast(h)

Spec == Init /\ [][Next]_vars

-----------------------------------------------------------------------------
\* No element is at two places: on one ring twice or on two rings at once.
LinkedOnce ==
  \A g, h \in Heads : \A i \in 1..Len(q[g]), j \in 1..Len(q[h]) :
     q[g][i] = q[h][j] => g = h /\ i = j

\* Every ring is, pointer by pointer and in both directions, the queue its
\* callers think it is: kern_ring.c's insert and remove never tear a ring,
\* join two rings, or lose or double an element, whatever the order of the
\* calls, on an empty ring, at either end and in the middle.
RingsRepresentQueues ==
  /\ \A h \in Heads : Represents(ring, h, q[h])
  /\ LinkedOnce
=============================================================================
