-------------------------- MODULE RingQueueProofs --------------------------
(***************************************************************************)
(* kern_ring.c keeps its rings, for any number of rings and elements: the  *)
(* invariants TypeOK and RingsRepresentQueues of RingQueue.  The proof     *)
(* reduces the operations to two: linking an element between two           *)
(* neighbours, and unlinking the element at a position.                    *)
(***************************************************************************)
EXTENDS RingQueue, TLAPS

RingType == [next : [Nodes -> Nodes \cup {Null}], prev : [Nodes -> Nodes \cup {Null}]]
QueueType == [Heads -> Seq(Elems)]

\* No element is at two places of the queues Q.
Once(Q) ==
  \A g, h \in Heads : \A i \in 1..Len(Q[g]), j \in 1..Len(Q[h]) :
     Q[g][i] = Q[h][j] => g = h /\ i = j

\* The pointers r hold the queues Q.
Holds(r, Q) == Once(Q) /\ \A h \in Heads : Represents(r, h, Q[h])

-----------------------------------------------------------------------------
\* A position of a ring is a node, and two positions are the same node only
\* if they are the same position or both the list node.
LEMMA Positions ==
  ASSUME NEW Q \in QueueType, Once(Q), NEW g \in Heads, NEW h \in Heads,
         NEW i \in 0..(Len(Q[g]) + 1), NEW j \in 0..(Len(Q[h]) + 1)
  PROVE  /\ NodeAt(g, Q[g], i) \in Nodes
         /\ NodeAt(g, Q[g], i) \in Heads <=> i \in {0, Len(Q[g]) + 1}
         /\ i \in {0, Len(Q[g]) + 1} => NodeAt(g, Q[g], i) = g
         /\ NodeAt(g, Q[g], i) = NodeAt(h, Q[h], j) =>
              g = h /\ (i = j \/ NodeAt(g, Q[g], i) = g)
<1>1. Q[g] \in Seq(Elems) /\ Q[h] \in Seq(Elems)
  BY DEF QueueType
<1>2. /\ Len(Q[g]) \in Nat /\ Len(Q[h]) \in Nat
      /\ \A k \in 1..Len(Q[g]) : Q[g][k] \in Elems
      /\ \A k \in 1..Len(Q[h]) : Q[h][k] \in Elems
  BY <1>1
<1>3. /\ i \in 1..Len(Q[g]) \/ i \in {0, Len(Q[g]) + 1}
      /\ j \in 1..Len(Q[h]) \/ j \in {0, Len(Q[h]) + 1}
  BY <1>2
<1>4. QED
  BY <1>2, <1>3, RingNodes DEF NodeAt, Once, Nodes

\* An element of no queue is no position of a ring.
LEMMA Fresh ==
  ASSUME NEW Q \in QueueType, NEW e \in Elems,
         \A h \in Heads : \A i \in 1..Len(Q[h]) : Q[h][i] # e,
         NEW g \in Heads, NEW i \in 0..(Len(Q[g]) + 1)
  PROVE  NodeAt(g, Q[g], i) # e
<1>1. Len(Q[g]) \in Nat
  BY DEF QueueType
<1>2. QED
  BY <1>1, RingNodes DEF NodeAt

\* linked_ring_insert between the positions k and k + 1 of a ring puts the
\* element there and leaves everything else as it is.
LEMMA LinkHolds ==
  ASSUME NEW r \in RingType, NEW Q \in QueueType, Holds(r, Q),
         NEW h \in Heads, NEW e \in Elems,
         \A g \in Heads : \A i \in 1..Len(Q[g]) : Q[g][i] # e,
         NEW k \in 0..Len(Q[h]), NEW s \in Seq(Elems), Len(s) = Len(Q[h]) + 1,
         \A i \in 1..Len(s) :
            s[i] = IF i <= k THEN Q[h][i] ELSE IF i = k + 1 THEN e ELSE Q[h][i - 1]
  PROVE  LET r2 == RingLink(r, NodeAt(h, Q[h], k), e, NodeAt(h, Q[h], k + 1))
         IN  r2 \in RingType /\ Holds(r2, [Q EXCEPT ![h] = s])
<1> DEFINE a == NodeAt(h, Q[h], k)
           c == NodeAt(h, Q[h], k + 1)
           n == [r.next EXCEPT ![a] = e, ![e] = c]
           p == [r.prev EXCEPT ![c] = e, ![e] = a]
           Q2 == [Q EXCEPT ![h] = s]
<1>1. /\ Q2 \in QueueType /\ Q2[h] = s
      /\ \A g \in Heads : g # h => Q2[g] = Q[g]
      /\ \A g \in Heads : Len(Q[g]) \in Nat /\ Len(Q2[g]) \in Nat
  BY DEF QueueType
<1>2. /\ a \in Nodes /\ c \in Nodes /\ e \in Nodes /\ e # a /\ e # c
  <2>1. k \in 0..(Len(Q[h]) + 1) /\ k + 1 \in 0..(Len(Q[h]) + 1)
    BY <1>1
  <2>2. a \in Nodes /\ c \in Nodes
    BY <2>1, Positions DEF Holds
  <2>3. e # a /\ e # c
    BY <2>1, Fresh
  <2>4. QED BY <2>2, <2>3 DEF Nodes
<1>3. /\ n \in [Nodes -> Nodes \cup {Null}] /\ p \in [Nodes -> Nodes \cup {Null}]
      /\ \A x \in Nodes : n[x] = IF x = e THEN c ELSE IF x = a THEN e ELSE r.next[x]
      /\ \A x \in Nodes : p[x] = IF x = e THEN a ELSE IF x = c THEN e ELSE r.prev[x]
  BY <1>2 DEF RingType
<1>4. RingLink(r, a, e, c) = [next |-> n, prev |-> p]
  BY DEF RingLink
<1>5. Once(Q2)
  <2>1. ASSUME NEW i \in 1..Len(s), NEW j \in 1..Len(s), s[i] = s[j]
        PROVE  i = j
    <3>1. \A x, y \in 1..Len(Q[h]) : Q[h][x] = Q[h][y] => x = y
      BY DEF Holds, Once
    <3>2. \A x \in 1..Len(Q[h]) : Q[h][x] # e
      OBVIOUS
    <3>3. Len(Q[h]) \in Nat /\ i \in Nat /\ j \in Nat /\ k \in Nat /\ k <= Len(Q[h])
      BY <1>1
    <3> DEFINE Old(x) == IF x <= k THEN x ELSE x - 1
    <3>4. ASSUME NEW x \in 1..Len(s), x # k + 1
          PROVE  Old(x) \in 1..Len(Q[h]) /\ s[x] = Q[h][Old(x)]
      BY SMTT(30), <3>3, <3>4
    <3>5. s[k + 1] = e
      BY SMTT(30), <3>3
    <3>6. CASE i # k + 1 /\ j # k + 1
      <4>1. Old(i) = Old(j)
        <5> HIDE DEF Old
        <5> QED BY SMTT(30), <2>1, <3>1, <3>4, <3>6
      <4>2. QED BY <3>3, <3>6, <4>1
    <3>7. CASE i = k + 1 \/ j = k + 1
      <4> HIDE DEF Old
      <4> QED BY <2>1, <3>2, <3>4, <3>5, <3>7
    <3>8. QED BY <3>6, <3>7
  <2>2. \A g \in Heads : g # h => \A i \in 1..Len(s), j \in 1..Len(Q[g]) : s[i] # Q[g][j]
    BY SMTT(30), <1>1 DEF Holds, Once
  <2>3. QED
    BY SMTT(30), <1>1, <2>1, <2>2 DEF Holds, Once
<1>6. ASSUME NEW g \in Heads, g # h
      PROVE  Represents([next |-> n, prev |-> p], g, Q2[g])
  <2> SUFFICES ASSUME NEW i \in 0..Len(Q[g])
               PROVE  /\ n[NodeAt(g, Q[g], i)] = NodeAt(g, Q[g], i + 1)
                      /\ p[NodeAt(g, Q[g], i + 1)] = NodeAt(g, Q[g], i)
    BY <1>1, <1>6 DEF Represents
  <2>1. /\ r.next[NodeAt(g, Q[g], i)] = NodeAt(g, Q[g], i + 1)
        /\ r.prev[NodeAt(g, Q[g], i + 1)] = NodeAt(g, Q[g], i)
    BY DEF Holds, Represents
  <2>2. i \in 0..(Len(Q[g]) + 1) /\ i + 1 \in 0..(Len(Q[g]) + 1)
        /\ k \in 0..(Len(Q[h]) + 1) /\ k + 1 \in 0..(Len(Q[h]) + 1)
    BY <1>1
  <2>3. /\ NodeAt(g, Q[g], i) \in Nodes /\ NodeAt(g, Q[g], i + 1) \in Nodes
        /\ NodeAt(g, Q[g], i) # a /\ NodeAt(g, Q[g], i + 1) # c
    BY <1>6, <2>2, Positions DEF Holds
  <2>4. NodeAt(g, Q[g], i) # e /\ NodeAt(g, Q[g], i + 1) # e
    BY <2>2, Fresh
  <2>5. QED
    BY <1>3, <2>1, <2>3, <2>4
<1>7. Represents([next |-> n, prev |-> p], h, s)
  <2> DEFINE N(i) == NodeAt(h, Q[h], i)
             M(i) == NodeAt(h, s, i)
  <2>1. \A i \in 0..(Len(Q[h]) + 2) :
          M(i) = IF i <= k THEN N(i) ELSE IF i = k + 1 THEN e ELSE N(i - 1)
    BY SMTT(30), <1>1 DEF NodeAt
  <2>2. \A i \in 0..Len(Q[h]) : r.next[N(i)] = N(i + 1) /\ r.prev[N(i + 1)] = N(i)
    BY DEF Holds, Represents
  <2>3. ASSUME NEW i \in 0..(Len(Q[h]) + 1)
        PROVE  N(i) \in Nodes /\ N(i) # e
    <3>1. N(i) \in Nodes
      BY Positions DEF Holds
    <3>2. N(i) # e
      BY Fresh
    <3>3. QED BY <3>1, <3>2
  <2>4. \A i \in 0..Len(Q[h]) : N(i) = a => i = k
    BY <1>1, Positions DEF Holds
  <2>5. ASSUME NEW i \in 1..(Len(Q[h]) + 1), N(i) = c
        PROVE  i = k + 1
    <3>1. i \in 0..(Len(Q[h]) + 1) /\ k + 1 \in 0..(Len(Q[h]) + 1)
      BY <1>1
    <3>2. i = k + 1 \/ (N(i) \in Heads /\ N(k + 1) \in Heads)
      BY <2>5, <3>1, Positions DEF Holds
    <3>3. N(i) \in Heads => i = Len(Q[h]) + 1
      BY <1>1, <3>1, Positions DEF Holds
    <3>4. N(k + 1) \in Heads => k + 1 = Len(Q[h]) + 1
      BY <1>1, <3>1, Positions DEF Holds
    <3>5. QED BY <3>2, <3>3, <3>4
  <2>6. a = N(k) /\ c = N(k + 1)
    OBVIOUS
  <2> HIDE DEF a, c, n, p, N, M
  <2>7. ASSUME NEW i \in 0..Len(s)
        PROVE  n[M(i)] = M(i + 1) /\ p[M(i + 1)] = M(i)
    <3>1. Len(s) = Len(Q[h]) + 1 /\ Len(Q[h]) \in Nat /\ i \in Nat /\ k \in Nat /\ k <= Len(Q[h])
      BY <1>1
    <3>2. CASE i < k
      <4>0. /\ i \in 0..(Len(Q[h]) + 2) /\ i + 1 \in 0..(Len(Q[h]) + 2)
            /\ i <= k /\ i + 1 <= k
        BY <3>1, <3>2
      <4>1. M(i) = N(i) /\ M(i + 1) = N(i + 1)
        BY <2>1, <4>0, Zenon
      <4>2. /\ N(i) \in Nodes /\ N(i + 1) \in Nodes /\ N(i) # e /\ N(i + 1) # e
            /\ N(i) # a /\ N(i + 1) # c
            /\ r.next[N(i)] = N(i + 1) /\ r.prev[N(i + 1)] = N(i)
        BY <2>2, <2>3, <2>4, <2>5, <3>1, <3>2
      <4>3. QED BY <1>3, <4>1, <4>2
    <3>3. CASE i = k
      <4>1. M(i) = a /\ M(i + 1) = e
        BY <2>1, <2>6, <3>1, <3>3
      <4>2. QED BY <1>2, <1>3, <4>1
    <3>4. CASE i = k + 1
      <4>1. M(i) = e /\ M(i + 1) = c
        <5>1. i + 1 \in 0..(Len(Q[h]) + 2) /\ (i + 1) - 1 = k + 1 /\ i + 1 > k + 1
          BY <3>1, <3>4
        <5>2. QED BY <2>1, <2>6, <3>1, <3>4, <5>1
      <4>2. QED BY <1>2, <1>3, <4>1
    <3>5. CASE i > k + 1
      <4>1. M(i) = N(i - 1) /\ M(i + 1) = N(i)
        BY <2>1, <3>1, <3>5
      <4>2. /\ N(i - 1) \in Nodes /\ N(i) \in Nodes /\ N(i - 1) # e /\ N(i) # e
            /\ N(i - 1) # a /\ N(i) # c
            /\ r.next[N(i - 1)] = N(i) /\ r.prev[N(i)] = N(i - 1)
        <5>1. i - 1 \in 0..Len(Q[h]) /\ i \in 1..(Len(Q[h]) + 1) /\ (i - 1) + 1 = i
          BY <3>1, <3>5
        <5>2. QED BY <2>2, <2>3, <2>4, <2>5, <3>1, <3>5, <5>1
      <4>3. QED BY <1>3, <4>1, <4>2
    <3>6. QED BY <3>1, <3>2, <3>3, <3>4, <3>5
  <2>8. QED
    BY <2>7 DEF Represents, M
<1>8. [next |-> n, prev |-> p] \in RingType
  BY <1>3 DEF RingType
<1>9. QED
  BY <1>1, <1>4, <1>5, <1>6, <1>7, <1>8 DEF Holds

\* linked_ring_remove of the element at position k of a ring takes it out and
\* leaves everything else as it is.
LEMMA UnlinkHolds ==
  ASSUME NEW r \in RingType, NEW Q \in QueueType, Holds(r, Q),
         NEW h \in Heads, NEW k \in 1..Len(Q[h]),
         NEW s \in Seq(Elems), Len(s) = Len(Q[h]) - 1,
         \A i \in 1..Len(s) : s[i] = IF i < k THEN Q[h][i] ELSE Q[h][i + 1]
  PROVE  LET r2 == RingRemove(r, Q[h][k])
         IN  r2 \in RingType /\ Holds(r2, [Q EXCEPT ![h] = s])
<1> DEFINE N(i) == NodeAt(h, Q[h], i)
           M(i) == NodeAt(h, s, i)
           a == N(k - 1)
           c == N(k + 1)
           n == [r.next EXCEPT ![a] = c]
           p == [r.prev EXCEPT ![c] = a]
           Q2 == [Q EXCEPT ![h] = s]
<1>1. /\ Q2 \in QueueType /\ Q2[h] = s
      /\ \A g \in Heads : g # h => Q2[g] = Q[g]
      /\ \A g \in Heads : Len(Q[g]) \in Nat /\ Len(Q2[g]) \in Nat
  BY DEF QueueType
<1>2. /\ k \in Nat /\ 1 <= k /\ k <= Len(Q[h]) /\ Len(Q[h]) \in Nat
      /\ k - 1 \in 0..Len(Q[h]) /\ k \in 0..Len(Q[h]) /\ k - 1 \in 0..(Len(Q[h]) + 1)
      /\ k + 1 \in 1..(Len(Q[h]) + 1) /\ k + 1 \in 0..(Len(Q[h]) + 1)
  BY <1>1
<1>3. \A i \in 0..Len(Q[h]) : r.next[N(i)] = N(i + 1) /\ r.prev[N(i + 1)] = N(i)
  BY DEF Holds, Represents
<1>4. N(k) = Q[h][k] /\ r.prev[Q[h][k]] = a /\ r.next[Q[h][k]] = c
  <2>1. N(k) = Q[h][k]
    BY DEF NodeAt
  <2>2. r.next[N(k)] = N(k + 1)
    BY <1>2, <1>3
  <2>3. r.prev[N((k - 1) + 1)] = N(k - 1) /\ (k - 1) + 1 = k
    <3> HIDE DEF N
    <3> QED BY <1>2, <1>3
  <2>4. QED BY <2>1, <2>2, <2>3
<1>5. RingRemove(r, Q[h][k]) = [next |-> n, prev |-> p]
  BY <1>4 DEF RingRemove
<1>6. \A i \in 0..(Len(Q[h]) + 1) : N(i) \in Nodes
  BY Positions DEF Holds
<1>7. a \in Nodes /\ c \in Nodes
  BY <1>2, <1>6
<1>8. /\ n \in [Nodes -> Nodes \cup {Null}] /\ p \in [Nodes -> Nodes \cup {Null}]
      /\ \A x \in Nodes : n[x] = IF x = a THEN c ELSE r.next[x]
      /\ \A x \in Nodes : p[x] = IF x = c THEN a ELSE r.prev[x]
  BY <1>7 DEF RingType
<1>9. Once(Q2)
  <2> DEFINE Old(x) == IF x < k THEN x ELSE x + 1
  <2>1. ASSUME NEW x \in 1..Len(s)
        PROVE  Old(x) \in 1..Len(Q[h]) /\ s[x] = Q[h][Old(x)]
    BY <1>2
  <2>2. ASSUME NEW g \in Heads, NEW i \in 1..Len(s), NEW j \in 1..Len(Q[g]), s[i] = Q[g][j]
        PROVE  g = h /\ j = Old(i)
    <3> HIDE DEF Old
    <3>1. Old(i) \in 1..Len(Q[h]) /\ Q[h][Old(i)] = Q[g][j]
      BY <2>1, <2>2
    <3>2. QED BY <3>1 DEF Holds, Once
  <2>3. ASSUME NEW i \in 1..Len(s), NEW j \in 1..Len(s), s[i] = s[j]
        PROVE  i = j
    <3>1. Old(i) = Old(j)
      <4> HIDE DEF Old
      <4> QED BY SMTT(30), <2>1, <2>2, <2>3
    <3>2. i \in Nat /\ j \in Nat
      BY <1>1
    <3>3. QED BY <1>2, <3>1, <3>2
  <2> HIDE DEF Old
  <2>4. QED
    BY SMTT(30), <1>1, <2>2, <2>3 DEF Holds, Once
<1>10. ASSUME NEW g \in Heads, g # h
       PROVE  Represents([next |-> n, prev |-> p], g, Q2[g])
  <2> SUFFICES ASSUME NEW i \in 0..Len(Q[g])
               PROVE  /\ n[NodeAt(g, Q[g], i)] = NodeAt(g, Q[g], i + 1)
                      /\ p[NodeAt(g, Q[g], i + 1)] = NodeAt(g, Q[g], i)
    BY <1>1, <1>10 DEF Represents
  <2>1. /\ r.next[NodeAt(g, Q[g], i)] = NodeAt(g, Q[g], i + 1)
        /\ r.prev[NodeAt(g, Q[g], i + 1)] = NodeAt(g, Q[g], i)
    BY DEF Holds, Represents
  <2>2. i \in 0..(Len(Q[g]) + 1) /\ i + 1 \in 0..(Len(Q[g]) + 1)
    BY <1>1
  <2>3. /\ NodeAt(g, Q[g], i) \in Nodes /\ NodeAt(g, Q[g], i + 1) \in Nodes
        /\ NodeAt(g, Q[g], i) # a /\ NodeAt(g, Q[g], i + 1) # c
    BY SMTT(30), <1>2, <1>10, <2>2, Positions DEF Holds
  <2>4. QED
    BY <1>8, <2>1, <2>3
<1>11. Represents([next |-> n, prev |-> p], h, s)
  <2>1. \A i \in 0..Len(Q[h]) : M(i) = IF i < k THEN N(i) ELSE N(i + 1)
    BY SMTT(30), <1>2 DEF NodeAt
  <2>2. \A i \in 0..Len(Q[h]) : N(i) = a => i = k - 1
    BY SMTT(30), <1>2, Positions DEF Holds
  <2>3. ASSUME NEW i \in 1..(Len(Q[h]) + 1), N(i) = c
        PROVE  i = k + 1
    <3>1. i \in 0..(Len(Q[h]) + 1)
      BY <1>2
    <3>2. i = k + 1 \/ (N(i) \in Heads /\ N(k + 1) \in Heads)
      BY <1>2, <2>3, <3>1, Positions DEF Holds
    <3>3. N(i) \in Heads => i = Len(Q[h]) + 1
      BY <1>2, <3>1, Positions DEF Holds
    <3>4. N(k + 1) \in Heads => k + 1 = Len(Q[h]) + 1
      BY <1>2, <3>1, Positions DEF Holds
    <3>5. QED BY <3>2, <3>3, <3>4
  <2> HIDE DEF n, p, N, M
  <2>4. ASSUME NEW i \in 0..Len(s)
        PROVE  n[M(i)] = M(i + 1) /\ p[M(i + 1)] = M(i)
    <3>1. Len(s) = Len(Q[h]) - 1 /\ i \in Nat /\ i <= Len(Q[h]) - 1
      BY <1>1, <1>2
    <3>2. CASE i < k - 1
      <4>1. M(i) = N(i) /\ M(i + 1) = N(i + 1)
        <5>1. i \in 0..Len(Q[h]) /\ i + 1 \in 0..Len(Q[h]) /\ i < k /\ i + 1 < k
          BY <1>2, <3>1, <3>2
        <5>2. QED BY <2>1, <5>1
      <4>2. /\ N(i) \in Nodes /\ N(i + 1) \in Nodes /\ N(i) # a /\ N(i + 1) # c
            /\ r.next[N(i)] = N(i + 1) /\ r.prev[N(i + 1)] = N(i)
        BY <1>2, <1>3, <1>6, <2>2, <2>3, <3>1, <3>2
      <4>3. QED BY <1>8, <4>1, <4>2
    <3>3. CASE i = k - 1
      <4>1. i + 1 = k /\ (i + 1) + 1 = k + 1 /\ i + 1 \in 0..Len(Q[h]) /\ i \in 0..Len(Q[h])
        BY <1>2, <3>1, <3>3
      <4>2. M(i) = a /\ M(i + 1) = c
        BY <1>2, <2>1, <3>3, <4>1
      <4>3. QED BY <1>7, <1>8, <4>2
    <3>4. CASE i >= k
      <4>1. /\ i \in 0..Len(Q[h]) /\ i + 1 \in 0..Len(Q[h]) /\ i + 1 \in 0..(Len(Q[h]) + 1)
            /\ (i + 1) + 1 \in 1..(Len(Q[h]) + 1) /\ (i + 1) + 1 \in 0..(Len(Q[h]) + 1)
            /\ i + 1 # k - 1 /\ (i + 1) + 1 # k + 1
        BY <1>2, <3>1, <3>4
      <4>2. M(i) = N(i + 1) /\ M(i + 1) = N((i + 1) + 1)
        BY <1>2, <2>1, <3>1, <3>4, <4>1
      <4>3. /\ N(i + 1) \in Nodes /\ N((i + 1) + 1) \in Nodes
            /\ N(i + 1) # a /\ N((i + 1) + 1) # c
            /\ r.next[N(i + 1)] = N((i + 1) + 1) /\ r.prev[N((i + 1) + 1)] = N(i + 1)
        BY <1>3, <1>6, <2>2, <2>3, <4>1
      <4>4. QED BY <1>8, <4>2, <4>3
    <3>5. QED BY <1>2, <3>1, <3>2, <3>3, <3>4
  <2>5. QED
    BY <2>4 DEF Represents, M
<1>12. [next |-> n, prev |-> p] \in RingType
  BY <1>8 DEF RingType
<1>13. QED
  BY <1>1, <1>5, <1>9, <1>10, <1>11, <1>12 DEF Holds

\* linked_ring_remove of the list node of an empty ring changes nothing.
LEMMA RemoveEmpty ==
  ASSUME NEW r \in RingType, NEW Q \in QueueType, Holds(r, Q),
         NEW h \in Heads, Q[h] = << >>
  PROVE  r.prev[h] = h /\ RingRemove(r, r.prev[h]) = r
<1>1. r.next[h] = h /\ r.prev[h] = h
  <2>1. Represents(r, h, << >>)
    BY DEF Holds
  <2>2. QED BY <2>1 DEF Represents, NodeAt
<1>2. [r.next EXCEPT ![h] = h] = r.next /\ [r.prev EXCEPT ![h] = h] = r.prev
  BY <1>1 DEF RingType
<1>3. r = [next |-> r.next, prev |-> r.prev]
  BY DEF RingType
<1>4. QED BY <1>1, <1>2, <1>3 DEF RingRemove

-----------------------------------------------------------------------------
\* linked_ring_insert(list, elem, 1) makes elem the first element.
LEMMA InsertAfterHolds ==
  ASSUME NEW r \in RingType, NEW Q \in QueueType, Holds(r, Q),
         NEW h \in Heads, NEW e \in Elems,
         \A g \in Heads : \A i \in 1..Len(Q[g]) : Q[g][i] # e
  PROVE  LET r2 == RingInsert(r, h, e, TRUE)
         IN  r2 \in RingType /\ Holds(r2, [Q EXCEPT ![h] = << e >> \o @])
<1> DEFINE s == << e >> \o Q[h]
<1>1. Q[h] \in Seq(Elems) /\ Len(Q[h]) \in Nat
  BY DEF QueueType
<1>2. /\ s \in Seq(Elems) /\ Len(s) = Len(Q[h]) + 1
      /\ \A i \in 1..Len(s) :
           s[i] = IF i <= 0 THEN Q[h][i] ELSE IF i = 0 + 1 THEN e ELSE Q[h][i - 1]
  BY <1>1
<1>3. NodeAt(h, Q[h], 0) = h /\ r.next[h] = NodeAt(h, Q[h], 0 + 1)
  <2>1. NodeAt(h, Q[h], 0) = h
    BY <1>1 DEF NodeAt
  <2>2. QED BY <1>1, <2>1 DEF Holds, Represents
<1>4. RingInsert(r, h, e, TRUE) = RingLink(r, NodeAt(h, Q[h], 0), e, NodeAt(h, Q[h], 0 + 1))
  BY <1>3 DEF RingInsert
<1> HIDE DEF s
<1>5. 0 \in 0..Len(Q[h])
  BY <1>1
<1>6. LET r2 == RingLink(r, NodeAt(h, Q[h], 0), e, NodeAt(h, Q[h], 0 + 1))
      IN  r2 \in RingType /\ Holds(r2, [Q EXCEPT ![h] = s])
  BY <1>2, <1>5, LinkHolds
<1>7. QED
  BY <1>4, <1>6 DEF s

\* linked_ring_insert(list, elem, 0) makes elem the last element.
LEMMA InsertBeforeHolds ==
  ASSUME NEW r \in RingType, NEW Q \in QueueType, Holds(r, Q),
         NEW h \in Heads, NEW e \in Elems,
         \A g \in Heads : \A i \in 1..Len(Q[g]) : Q[g][i] # e
  PROVE  LET r2 == RingInsert(r, h, e, FALSE)
         IN  r2 \in RingType /\ Holds(r2, [Q EXCEPT ![h] = Append(@, e)])
<1> DEFINE s == Append(Q[h], e)
           k == Len(Q[h])
<1>1. Q[h] \in Seq(Elems) /\ k \in Nat
  BY DEF QueueType
<1>2. /\ s \in Seq(Elems) /\ Len(s) = k + 1
      /\ \A i \in 1..Len(s) :
           s[i] = IF i <= k THEN Q[h][i] ELSE IF i = k + 1 THEN e ELSE Q[h][i - 1]
  BY <1>1
<1>3. NodeAt(h, Q[h], k + 1) = h /\ r.prev[h] = NodeAt(h, Q[h], k)
  <2>1. NodeAt(h, Q[h], k + 1) = h
    BY <1>1 DEF NodeAt
  <2>2. QED BY <1>1, <2>1 DEF Holds, Represents
<1>4. RingInsert(r, h, e, FALSE) = RingLink(r, NodeAt(h, Q[h], k), e, NodeAt(h, Q[h], k + 1))
  BY <1>3 DEF RingInsert
<1> HIDE DEF s
<1>5. k \in 0..Len(Q[h])
  BY <1>1
<1>6. LET r2 == RingLink(r, NodeAt(h, Q[h], k), e, NodeAt(h, Q[h], k + 1))
      IN  r2 \in RingType /\ Holds(r2, [Q EXCEPT ![h] = s])
  BY <1>2, <1>5, LinkHolds
<1>7. QED
  BY <1>4, <1>6 DEF s

\* linked_ring_remove takes an element out of its queue.
LEMMA RemoveHolds ==
  ASSUME NEW r \in RingType, NEW Q \in QueueType, Holds(r, Q),
         NEW h \in Heads, NEW k \in 1..Len(Q[h])
  PROVE  LET r2 == RingRemove(r, Q[h][k])
         IN  r2 \in RingType /\ Holds(r2, [Q EXCEPT ![h] = Without(@, k)])
<1> DEFINE s == Without(Q[h], k)
<1>1. Q[h] \in Seq(Elems) /\ Len(Q[h]) \in Nat
  BY DEF QueueType
<1>2. /\ s \in Seq(Elems) /\ Len(s) = Len(Q[h]) - 1
      /\ \A i \in 1..Len(s) : s[i] = IF i < k THEN Q[h][i] ELSE Q[h][i + 1]
  <2> DEFINE u == SubSeq(Q[h], 1, k - 1)
             v == SubSeq(Q[h], k + 1, Len(Q[h]))
  <2>1. u \in Seq(Elems) /\ Len(u) = k - 1 /\ \A i \in 1..(k - 1) : u[i] = Q[h][i]
    BY <1>1
  <2>2. /\ v \in Seq(Elems) /\ Len(v) = Len(Q[h]) - k
        /\ \A i \in 1..(Len(Q[h]) - k) : v[i] = Q[h][k + i]
    BY <1>1
  <2>3. s = u \o v
    BY DEF Without
  <2> HIDE DEF u, v, s
  <2>4. s \in Seq(Elems) /\ Len(s) = Len(Q[h]) - 1
    BY <1>1, <2>1, <2>2, <2>3
  <2>5. ASSUME NEW i \in 1..Len(s)
        PROVE  s[i] = IF i < k THEN Q[h][i] ELSE Q[h][i + 1]
    <3>1. k \in Nat /\ i \in Nat /\ i >= 1 /\ i <= Len(Q[h]) - 1
      BY <1>1, <2>4
    <3>2. CASE i < k
      <4>1. s[i] = u[i]
        BY <1>1, <2>1, <2>2, <2>3, <3>1, <3>2
      <4>2. QED BY <2>1, <3>1, <3>2, <4>1
    <3>3. CASE ~ (i < k)
      <4>1. s[i] = v[i - (k - 1)]
        BY <1>1, <2>1, <2>2, <2>3, <3>1, <3>3
      <4>2. i - (k - 1) \in 1..(Len(Q[h]) - k) /\ k + (i - (k - 1)) = i + 1
        BY <1>1, <3>1, <3>3
      <4>3. QED BY <2>2, <3>3, <4>1, <4>2
    <3>4. QED BY <3>2, <3>3
  <2>6. QED BY <2>4, <2>5
<1> HIDE DEF s
<1>3. QED
  BY <1>2, UnlinkHolds DEF s

-----------------------------------------------------------------------------
\* The inductive invariant.
IInv == TypeOK /\ RingsRepresentQueues

\* What IInv says, in terms of the lemmas.
LEMMA IInvHolds == IInv <=> ring \in RingType /\ q \in QueueType /\ Holds(ring, q)
<1>1. RingsRepresentQueues <=> Holds(ring, q)
  BY DEF RingsRepresentQueues, LinkedOnce, Holds, Once
<1>2. ASSUME ring \in RingType, q \in QueueType, Holds(ring, q), NEW h \in Heads
      PROVE  ring.next[h] # Null /\ ring.prev[h] # Null
  <2>1. Len(q[h]) \in Nat
    BY <1>2 DEF QueueType
  <2>2. /\ ring.next[NodeAt(h, q[h], 0)] = NodeAt(h, q[h], 0 + 1)
        /\ ring.prev[NodeAt(h, q[h], Len(q[h]) + 1)] = NodeAt(h, q[h], Len(q[h]))
    BY <1>2, <2>1 DEF Holds, Represents
  <2>3. /\ 0 \in 0..(Len(q[h]) + 1) /\ 0 + 1 \in 0..(Len(q[h]) + 1)
        /\ Len(q[h]) \in 0..(Len(q[h]) + 1) /\ Len(q[h]) + 1 \in 0..(Len(q[h]) + 1)
    BY <2>1
  <2>4. /\ NodeAt(h, q[h], 0) = h /\ NodeAt(h, q[h], Len(q[h]) + 1) = h
        /\ NodeAt(h, q[h], 0 + 1) \in Nodes /\ NodeAt(h, q[h], Len(q[h])) \in Nodes
    BY <1>2, <2>3, Positions DEF Holds
  <2>5. QED BY <2>2, <2>4, RingNodes DEF Nodes
<1>3. QED
  BY <1>1, <1>2 DEF IInv, TypeOK, RingType, QueueType

\* The rings after linked_ring_init are empty.
LEMMA InitIInv == Init => IInv
<1> SUFFICES ASSUME Init PROVE ring \in RingType /\ q \in QueueType /\ Holds(ring, q)
  BY IInvHolds
<1>1. ring \in RingType /\ q \in QueueType
  BY DEF Init, RingType, QueueType, Nodes
<1>2. \A h \in Heads : q[h] = << >> /\ ring.next[h] = h /\ ring.prev[h] = h
  BY DEF Init, Nodes
<1>3. Holds(ring, q)
  BY <1>2 DEF Holds, Once, Represents, NodeAt
<1>4. QED BY <1>1, <1>3

\* Every operation keeps the rings.
LEMMA NextIInv == IInv /\ [Next]_vars => IInv'
<1> SUFFICES ASSUME IInv, [Next]_vars PROVE IInv'
  OBVIOUS
<1>1. ring \in RingType /\ q \in QueueType /\ Holds(ring, q)
  BY IInvHolds
<1>2. (IInv <=> ring \in RingType /\ q \in QueueType /\ Holds(ring, q))'
  BY IInvHolds, PTL
<1>3. ASSUME NEW e \in Elems, ~ Linked(e)
      PROVE  \A g \in Heads : \A i \in 1..Len(q[g]) : q[g][i] # e
  BY <1>3 DEF Linked
<1>4. ASSUME NEW h \in Heads, NEW e \in Elems, InsertAfter(h, e)
      PROVE  IInv'
  <2>1. q' \in QueueType
    BY <1>1, <1>4 DEF InsertAfter, QueueType
  <2>2. ring' \in RingType /\ Holds(ring', q')
    BY <1>1, <1>3, <1>4, InsertAfterHolds DEF InsertAfter
  <2>3. QED BY <1>2, <2>1, <2>2
<1>5. ASSUME NEW h \in Heads, NEW e \in Elems, InsertBefore(h, e)
      PROVE  IInv'
  <2>1. q' \in QueueType
    BY <1>1, <1>5 DEF InsertBefore, QueueType
  <2>2. ring' \in RingType /\ Holds(ring', q')
    BY <1>1, <1>3, <1>5, InsertBeforeHolds DEF InsertBefore
  <2>3. QED BY <1>2, <2>1, <2>2
<1>6. ASSUME NEW h \in Heads, NEW k \in 1..Len(q[h]), ring' = RingRemove(ring, q[h][k]),
             q' = [q EXCEPT ![h] = Without(@, k)]
      PROVE  IInv'
  <2>1. q' \in QueueType
    <3>1. q[h] \in Seq(Elems)
      BY <1>1 DEF QueueType
    <3>2. Without(q[h], k) \in Seq(Elems)
      BY <3>1 DEF Without
    <3>3. QED BY <1>1, <1>6, <3>2 DEF QueueType
  <2>2. ring' \in RingType /\ Holds(ring', q')
    BY <1>1, <1>6, RemoveHolds
  <2>3. QED BY <1>2, <2>1, <2>2
<1>7. ASSUME NEW h \in Heads, NEW i \in 1..Len(q[h]), Unlink(h, i)
      PROVE  IInv'
  BY <1>6, <1>7 DEF Unlink
<1>8. ASSUME NEW h \in Heads, RemoveLast(h)
      PROVE  IInv'
  <2>1. CASE q[h] = << >>
    <3>1. ring' = ring
      BY <1>1, <1>8, <2>1, RemoveEmpty DEF RemoveLast
    <3>2. q' = q
      BY <1>1, <1>8, <2>1 DEF RemoveLast, QueueType
    <3>3. QED BY <1>1, <1>2, <3>1, <3>2
  <2>2. CASE q[h] # << >>
    <3> DEFINE k == Len(q[h])
    <3>1. k \in 1..Len(q[h])
      BY <1>1, <2>2 DEF QueueType
    <3>2. ring.prev[h] = q[h][k]
      <4>1. NodeAt(h, q[h], k + 1) = h /\ NodeAt(h, q[h], k) = q[h][k]
        BY <3>1 DEF NodeAt
      <4>2. k \in 0..Len(q[h])
        BY <3>1
      <4>3. QED BY <1>1, <4>1, <4>2 DEF Holds, Represents
    <3>3. QED BY <1>6, <1>8, <2>2, <3>1, <3>2 DEF RemoveLast
  <2>3. QED BY <2>1, <2>2
<1>9. CASE UNCHANGED vars
  BY <1>1, <1>2, <1>9 DEF vars
<1>10. QED
  BY <1>4, <1>5, <1>7, <1>8, <1>9 DEF Next

\* The inductive invariant holds.
THEOREM Invariance == Spec => []IInv
<1>1. QED
  BY InitIInv, NextIInv, PTL DEF Spec

\* The pointers of the rings and the queues they mean keep their types, and a
\* list node never points to null.
THEOREM TypeCorrect == Spec => []TypeOK
<1>1. IInv => TypeOK
  BY DEF IInv
<1>2. QED
  BY <1>1, Invariance, PTL

\* As long as callers insert only unlinked elements and remove only linked
\* ones, the pointers are exactly the queues: linked_ring_insert and
\* linked_ring_remove never tear a ring or lose or double an element.
THEOREM RingsCorrect == Spec => []RingsRepresentQueues
<1>1. IInv => RingsRepresentQueues
  BY DEF IInv
<1>2. QED
  BY <1>1, Invariance, PTL
=============================================================================
