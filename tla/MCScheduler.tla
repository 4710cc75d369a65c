----------------------------- MODULE MCScheduler -----------------------------
(***************************************************************************)
(* Two CPUs with two priorities, their idle threads and two or three more. *)
(***************************************************************************)
EXTENDS Scheduler, TLC

CONSTANTS c1, c2, i1, i2, a, b, e

IdleOf == c1 :> i1 @@ c2 :> i2
\* 16 is the priority of the thread template; 3 and 5 are odd.
PriorityOf == [t \in Threads |-> IF t = b THEN 3 ELSE IF t = e THEN 5 ELSE 16]
\* The first two entries of the table.
Prios == 0 :> 1 @@ 1 :> 5
=============================================================================
