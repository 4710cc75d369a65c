------------------------------ MODULE MCPaging ------------------------------
EXTENDS Paging, TLC
CONSTANTS c1, c2, t1, t2, t3
TwoCpus == (t1 :> c1 @@ t2 :> c1 @@ t3 :> c2)
Some == {[off |-> 1, n |-> 4]}
=============================================================================
