-------------------------------- MODULE Tree --------------------------------
(***************************************************************************)
(* The binary trees of system/vm/tree.c: nodes with a key, a value, two    *)
(* children and a stored depth, by which a node is balanced on the way     *)
(* back from an insertion or a removal.  A tree is its root, a slot of the *)
(* C code a position in it; paths stay shorter than narr[64].              *)
(***************************************************************************)
EXTENDS Integers, FiniteSets, FiniteSetsExt

CONSTANTS Keys, Values, Null   \* keys are numbers

VARIABLES
  root,     \* the tree: Null, or a node
  it,       \* the node the last call has left to its caller, or Null
  removed   \* bt_remove has been called

vars == <<root, it, removed>>

Node(k, v, l, r, d) == [K |-> k, V |-> v, left |-> l, right |-> r, depth |-> d]

-----------------------------------------------------------------------------

bt_depth(n) == IF n = Null THEN 0 ELSE n.depth

bt_calcdepth(n) == [n EXCEPT !.depth = Max({bt_depth(n.left), bt_depth(n.right)}) + 1]

\* Mutant: the subtree between the two nodes gets lost.
RotLeftDrops(h) ==
  LET x == h.right IN
  bt_calcdepth([x EXCEPT !.left = bt_calcdepth([h EXCEPT !.right = Null])])

bt_rotleft(h) ==
  LET x == h.right IN
  bt_calcdepth([x EXCEPT !.left = bt_calcdepth([h EXCEPT !.right = x.left])])

\* Mutant: the upper depth is computed before the lower one.
RotRightDepth(h) ==
  LET x == h.left IN
  [x EXCEPT !.right = bt_calcdepth([h EXCEPT !.left = x.right]),
            !.depth = Max({bt_depth(x.left), h.depth}) + 1]

bt_rotright(h) ==
  LET x == h.left IN
  bt_calcdepth([x EXCEPT !.right = bt_calcdepth([h EXCEPT !.left = x.right])])

\* One rotation when a side is deeper by two or more, else only the depth.
bt_balance(h) ==
  IF h = Null THEN Null
  ELSE LET l == bt_depth(h.left)
           r == bt_depth(h.right)
       IN  IF l > r /\ l - r > 1 THEN bt_rotright(h)
           ELSE IF r > l /\ r - l > 1 THEN bt_rotleft(h)
           ELSE bt_calcdepth(h)

\* The way down to the key and back: every slot on the path is balanced.  A
\* node that is there keeps its place and gets the value.
RECURSIVE Put(_, _, _)
Put(n, k, v) ==
  bt_balance(
    IF n = Null THEN Node(k, v, Null, Null, 0)
    ELSE IF k < n.K THEN [n EXCEPT !.left = Put(n.left, k, v)]
    ELSE IF n.K < k THEN [n EXCEPT !.right = Put(n.right, k, v)]
    ELSE [n EXCEPT !.V = v])

\* bt_remove of a slot: the node is rotated down until it has one child at
\* most, then the slots below are balanced.
RECURSIVE Cut(_)
Cut(n) ==
  bt_balance(
    IF n = Null THEN Null
    ELSE IF n.left = Null THEN n.right
    ELSE IF n.right = Null THEN n.left
    ELSE IF bt_depth(n.left) <= bt_depth(n.right)
         THEN LET x == bt_rotleft(n) IN [x EXCEPT !.left = Cut(x.left)]
         ELSE LET x == bt_rotright(n) IN [x EXCEPT !.right = Cut(x.right)])

\* The search of bt_lookup, bt_floor and bt_ceiling; `best' is what it returns
\* at the bottom, `low' and `high' tell whether a node that is passed on the
\* left or on the right becomes it.
RECURSIVE Search(_, _, _, _, _)
Search(n, k, low, high, best) ==
  IF n = Null THEN best
  ELSE IF k < n.K THEN Search(n.left, k, low, high, IF high THEN n ELSE best)
  ELSE IF n.K < k THEN Search(n.right, k, low, high, IF low THEN n ELSE best)
  ELSE n

bt_lookup(n, k) == Search(n, k, FALSE, FALSE, Null)

\* Mutant: the first node that is smaller is kept.
FloorFirst(n, k) ==
  LET m == Search(n, k, TRUE, FALSE, Null) IN IF n # Null /\ n.K < k THEN n ELSE m

bt_floor(n, k) == Search(n, k, TRUE, FALSE, Null)

bt_ceiling(n, k) == Search(n, k, FALSE, TRUE, Null)

\* The caller's slot is the one bt_lookup has found; what is above it is left
\* as it is, depths included.
RECURSIVE RemoveAt(_, _)
RemoveAt(n, k) ==
  IF k < n.K THEN [n EXCEPT !.left = RemoveAt(n.left, k)]
  ELSE IF n.K < k THEN [n EXCEPT !.right = RemoveAt(n.right, k)]
  ELSE Cut(n)

-----------------------------------------------------------------------------

Init == root = Null /\ it = Null /\ removed = FALSE

Pair(n) == IF n = Null THEN Null ELSE <<n.K, n.V>>

\* An element that exists is left alone, and the caller keeps its node.
bt_insert(k, v) ==
  /\ IF bt_lookup(root, k) # Null
     THEN it' = <<k, v>> /\ UNCHANGED root
     ELSE it' = Null /\ root' = Put(root, k, v)
  /\ UNCHANGED removed

\* The new node takes the place of the old one, which the caller gets.
bt_put(k, v) ==
  /\ it' = Pair(bt_lookup(root, k))
  /\ root' = Put(root, k, v)
  /\ UNCHANGED removed

\* The old node gets the value, and the caller keeps its own.
bt_put_ip(k, v) ==
  /\ it' = IF bt_lookup(root, k) = Null THEN Null ELSE <<k, v>>
  /\ root' = Put(root, k, v)
  /\ UNCHANGED removed

bt_remove(k) ==
  /\ bt_lookup(root, k) # Null
  /\ it' = Pair(bt_lookup(root, k))
  /\ root' = RemoveAt(root, k)
  /\ removed' = TRUE

Next ==
  \E k \in Keys :
    \/ \E v \in Values : bt_insert(k, v) \/ bt_put(k, v) \/ bt_put_ip(k, v)
    \/ bt_remove(k)

Spec == Init /\ [][Next]_vars

-----------------------------------------------------------------------------

RECURSIVE Nodes(_), HeightOf(_)
Nodes(n) == IF n = Null THEN {} ELSE {n} \cup Nodes(n.left) \cup Nodes(n.right)
HeightOf(n) == IF n = Null THEN 0 ELSE Max({HeightOf(n.left), HeightOf(n.right)}) + 1

Pairs(n) == {<<m.K, m.V>> : m \in Nodes(n)}

\* A call changes the set of pairs by its own pair only, no node is lost in a
\* rotation, and a node that leaves the tree is the one handed to the caller.
OnlyOnePair ==
  [][\E k \in Keys :
       /\ \A q \in (Pairs(root) \cup Pairs(root')) : q[1] # k => q \in Pairs(root) \cap Pairs(root')
       /\ (\A q \in Pairs(root') : q[1] # k) => it' # Null /\ it' \in Pairs(root) \cup ({k} \X Values)
       /\ \A q \in Pairs(root) : q[1] = k => it' # Null]_vars

\* bt_lookup finds a key just when it is there, bt_floor the greatest key that
\* is not above, bt_ceiling the least that is not below, in a tree of any shape.
SearchesAgree ==
  \A k \in Keys :
    LET keys == {p[1] : p \in Pairs(root)}
        below == {x \in keys : x <= k}
        above == {x \in keys : x >= k}
        Key(n) == IF n = Null THEN Null ELSE n.K
    IN  /\ Key(bt_lookup(root, k)) = IF k \in keys THEN k ELSE Null
        /\ Key(bt_floor(root, k)) = IF below = {} THEN Null ELSE Max(below)
        /\ Key(bt_ceiling(root, k)) = IF above = {} THEN Null ELSE Min(above)

\* As long as nothing has been removed, the depth stored in each node is its
\* height, and so the balancing never works with stale numbers.  (bt_remove
\* does not touch the slots above the one it is given.)
DepthsExact == ~removed => \A n \in Nodes(root) : n.depth = HeightOf(n)
=============================================================================
