---------------------------- MODULE MCSharedLock ----------------------------
(***************************************************************************)
(* SharedLock for TLC: two threads that may make every call, and three     *)
(* threads whose calls cover all five functions and both types.            *)
(***************************************************************************)
EXTENDS SharedLock, TLC

CONSTANTS t1, t2, t3

Unlocks == {"sl_unlock"} \X Types

\* A greedy writer, a fair reader and writer, and a thread that drains,
\* touches and reads.
ThreeRoles ==
  t1 :> (Unlocks \cup {<<"sl_lock_greedy", "EXCLUSIVE">>}) @@
  t2 :> (Unlocks \cup ({"sl_lock"} \X Types)) @@
  t3 :> (Unlocks \cup {<<"sl_lock_greedy", "SHARED">>, <<"sl_drain", "SHARED">>,
                       <<"sl_touch", "EXCLUSIVE">>})

AllCalls == [t \in Threads |-> Fns \X Types]
=============================================================================
