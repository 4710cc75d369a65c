--------------------------- MODULE MCKernelMemory ---------------------------
(***************************************************************************)
(* KernelMemory for TLC: pages of six units, buffers of four and five,     *)
(* which cross pages and leave a rest.                                     *)
(***************************************************************************)
EXTENDS KernelMemory

CONSTANTS c1, c2

Sizes == [thread |-> 4, sched |-> 5]
Counts == (0..13) \cup {16}
Plenty == {16}
=============================================================================
