-------------------------------- MODULE Ring --------------------------------
(***************************************************************************)
(* The intrusive doubly linked rings of system/kern/kern_ring.c, as        *)
(* operators on a value r = [next |-> ..., prev |-> ...]: one pair of      *)
(* pointers for every node (struct linked_ring).  A ring is named by its   *)
(* list node (`list' in the code, `the head' here); the elements are the   *)
(* t_queue_entry and t_wait_entry fields of the threads.  The assignments  *)
(* are made in the order of the code, so that aliased nodes (an element    *)
(* that is inserted although it is linked already) do what they do there.  *)
(***************************************************************************)
EXTENDS Integers, Sequences

\* linked_ring_empty, as a Boolean (the code returns -1 or 0).
RingEmpty(r, list) == r.next[list] = list

\* Mutant: b->prev is not written.
RingLinkHalf(r, a, b, c) ==
  [next |-> [r.next EXCEPT ![a] = b, ![b] = c],
   prev |-> [r.prev EXCEPT ![c] = b]]

\* linked_ring_insert writes a->next, b->next, c->prev and b->prev in turn.
RingLink(r, a, b, c) ==
  [next |-> [r.next EXCEPT ![a] = b, ![b] = c],
   prev |-> [r.prev EXCEPT ![c] = b, ![b] = a]]

\* linked_ring_insert: behind the head (`after') or before it.
RingInsert(r, list, elem, after) ==
  IF after THEN RingLink(r, list, elem, r.next[list])
           ELSE RingLink(r, r.prev[list], elem, list)

\* Mutant: c->prev is not written.
RingRemoveHalf(r, elem) ==
  [r EXCEPT !.next[r.prev[elem]] = r.next[elem]]

\* linked_ring_remove: the neighbours are joined, elem keeps its pointers.
RingRemove(r, elem) ==
  [next |-> [r.next EXCEPT ![r.prev[elem]] = r.next[elem]],
   prev |-> [r.prev EXCEPT ![r.next[elem]] = r.prev[elem]]]

-----------------------------------------------------------------------------
\* The node at position i of the ring whose elements are s, in the order of
\* the next pointers; positions 0 and Len(s) + 1 are the head.
NodeAt(list, s, i) == IF i \in 1..Len(s) THEN s[i] ELSE list

\* r holds exactly the ring of the elements s around list: the next and the
\* prev pointers of every two neighbours agree.
Represents(r, list, s) ==
  \A i \in 0..Len(s) :
     /\ r.next[NodeAt(list, s, i)] = NodeAt(list, s, i + 1)
     /\ r.prev[NodeAt(list, s, i + 1)] = NodeAt(list, s, i)
=============================================================================
