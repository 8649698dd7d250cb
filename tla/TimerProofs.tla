---------------------------- MODULE TimerProofs -----------------------------
(***************************************************************************)
(* Proofs about the two timer heaps of heap-inl.h, for any number of       *)
(* timers and any timeouts.                                                *)
(***************************************************************************)
EXTENDS MCTimers, FiniteSetTheorems, WellFoundedInduction, TLAPS

-----------------------------------------------------------------------------
(***************************************************************************)
(* Induction.  A provable property of all numbers is a set of numbers that *)
(* has every number; the least number outside it would be a                *)
(* counterexample.                                                         *)
(***************************************************************************)
Less == {p \in Nat \X Nat : p[1] < p[2]}

\* A set of numbers has a least element.
LEMMA LeastNumber ==
    ASSUME NEW T, T \subseteq Nat, T # {}
    PROVE  \E n \in T : \A m \in T : n <= m
  <1>1. Less = OpToRel(<, Nat)
    BY DEF Less, OpToRel
  <1>2. IsWellFoundedOn(Less, Nat)
    BY Zenon, <1>1, NatLessThanWellFounded
  <1>3. PICK n \in T : \A m \in T : ~(<<m, n>> \in Less)
    BY Zenon, <1>2, WFMin
  <1>4. ASSUME NEW m \in T PROVE n <= m
    <2>1. m \in Nat /\ n \in Nat
      OBVIOUS
    <2>2. m < n => <<m, n>> \in Less
      BY <2>1 DEF Less
    <2> QED BY <1>3, <2>1, <2>2
  <1> QED BY Zenon, <1>4

\* Induction from 1 to n for a set of numbers.
LEMMA Induction ==
    ASSUME NEW S, NEW n \in Nat,
           \A i \in 1..n : (\A j \in 1..i - 1 : j \in S) => i \in S
    PROVE  \A i \in 1..n : i \in S
  <1> SUFFICES ASSUME NEW i \in 1..n, i \notin S PROVE FALSE
    OBVIOUS
  <1> DEFINE T == (1..n) \ S
  <1>1. T \subseteq Nat /\ T # {}
    OBVIOUS
  <1>2. PICK k \in T : \A m \in T : k <= m
    BY Zenon, <1>1, LeastNumber
  <1>3. k \in 1..n /\ k \notin S
    OBVIOUS
  <1>4. \A j \in 1..k - 1 : j \in S
    BY <1>2, <1>3
  <1> QED BY Zenon, <1>3, <1>4

-----------------------------------------------------------------------------
(***************************************************************************)
(* Queues.                                                                 *)
(***************************************************************************)
In(q, x) == \E i \in 1..Len(q) : q[i] = x
Once(q) == \A i, j \in 1..Len(q) : q[i] = q[j] => i = j
InsertAt(q, n, x) == SubSeq(q, 1, n) \o <<x>> \o SubSeq(q, n + 1, Len(q))

LEMMA ConcatIs ==
    ASSUME NEW S, NEW a \in Seq(S), NEW b \in Seq(S)
    PROVE  /\ a \o b \in Seq(S)
           /\ Len(a \o b) = Len(a) + Len(b)
           /\ \A i \in 1..Len(a) + Len(b) :
                 (a \o b)[i] = IF i <= Len(a) THEN a[i] ELSE b[i - Len(a)]
  OBVIOUS

\* u is q with x behind its first n members.
IsInsert(u, q, n, x) ==
    /\ Len(u) = Len(q) + 1
    /\ \A i \in 1..n : u[i] = q[i]
    /\ u[n + 1] = x
    /\ \A i \in n + 1..Len(q) : u[i + 1] = q[i]

LEMMA InsertAtIs ==
    ASSUME NEW S, NEW q \in Seq(S), NEW x \in S, NEW n \in 0..Len(q)
    PROVE  InsertAt(q, n, x) \in Seq(S) /\ IsInsert(InsertAt(q, n, x), q, n, x)
  <1> DEFINE u == InsertAt(q, n, x)
             a == SubSeq(q, 1, n)
             b == SubSeq(q, n + 1, Len(q))
             ax == a \o <<x>>
  <1>0. Len(q) \in Nat /\ n \in Nat
    OBVIOUS
  <1>1. a \in Seq(S) /\ Len(a) = n /\ \A i \in 1..n : a[i] = q[i]
    BY <1>0
  <1>2. /\ b \in Seq(S) /\ Len(b) = Len(q) - n
        /\ \A i \in 1..Len(q) - n : b[i] = q[n + i]
    BY <1>0
  <1> HIDE DEF a, b
  <1>3. /\ ax \in Seq(S) /\ Len(ax) = n + 1
        /\ \A i \in 1..n : ax[i] = q[i]
        /\ ax[n + 1] = x
    BY <1>0, <1>1
  <1> HIDE DEF ax
  <1>4. /\ ax \o b \in Seq(S)
        /\ Len(ax \o b) = Len(ax) + Len(b)
        /\ \A i \in 1..Len(ax) + Len(b) :
              (ax \o b)[i] = IF i <= Len(ax) THEN ax[i] ELSE b[i - Len(ax)]
    BY Zenon, <1>2, <1>3, ConcatIs
  <1>5. u = ax \o b
    BY Zenon DEF ax, a, b, InsertAt
  <1> HIDE DEF u
  <1>6. u \in Seq(S) /\ Len(u) = Len(q) + 1
    <2>1. u \in Seq(S) /\ Len(u) = Len(ax) + Len(b)
      BY Zenon, <1>4, <1>5
    <2> QED BY <1>0, <1>2, <1>3, <2>1
  <1>7. (\A i \in 1..n : u[i] = q[i]) /\ u[n + 1] = x
    BY <1>0, <1>2, <1>3, <1>4, <1>5
  <1>8. ASSUME NEW i \in n + 1..Len(q) PROVE u[i + 1] = q[i]
    <2>1. i + 1 \in 1..Len(ax) + Len(b) /\ ~(i + 1 <= Len(ax))
      BY <1>0, <1>2, <1>3
    <2>2. u[i + 1] = b[(i + 1) - Len(ax)]
      BY <1>4, <1>5, <2>1
    <2>3. (i + 1) - Len(ax) \in 1..Len(q) - n /\ n + ((i + 1) - Len(ax)) = i
      BY <1>0, <1>3
    <2> QED BY Zenon, <1>2, <2>2, <2>3
  <1> QED BY Zenon, <1>6, <1>7, <1>8 DEF u, IsInsert

\* u is q without its k-th member.
IsRemove(u, q, k) ==
    /\ Len(u) = Len(q) - 1
    /\ \A i \in 1..k - 1 : u[i] = q[i]
    /\ \A i \in k..Len(q) - 1 : u[i] = q[i + 1]

LEMMA QueueRemoveIs ==
    ASSUME NEW S, NEW q \in Seq(S), Once(q), NEW k \in 1..Len(q)
    PROVE  QueueRemove(q, q[k]) \in Seq(S) /\ IsRemove(QueueRemove(q, q[k]), q, k)
  <1> DEFINE j == CHOOSE i \in 1..Len(q) : q[i] = q[k]
             u == QueueRemove(q, q[k])
             a == SubSeq(q, 1, k - 1)
             b == SubSeq(q, k + 1, Len(q))
  <1>1. j = k
    BY Zenon DEF Once
  <1>2. u = a \o b
    BY <1>1, Zenon DEF QueueRemove
  <1> HIDE DEF j, u
  <1>3. Len(q) \in Nat /\ k \in Nat
    OBVIOUS
  <1>4. a \in Seq(S) /\ Len(a) = k - 1 /\ \A i \in 1..k - 1 : a[i] = q[i]
    BY <1>3
  <1>5. /\ b \in Seq(S) /\ Len(b) = Len(q) - k
        /\ \A i \in 1..Len(q) - k : b[i] = q[k + i]
    BY <1>3
  <1> HIDE DEF a, b
  <1>6. /\ u \in Seq(S) /\ Len(u) = Len(a) + Len(b)
        /\ \A i \in 1..Len(a) + Len(b) :
              u[i] = IF i <= Len(a) THEN a[i] ELSE b[i - Len(a)]
    BY Zenon, <1>2, <1>4, <1>5, ConcatIs
  <1>7. Len(u) = Len(q) - 1
    BY <1>3, <1>4, <1>5, <1>6
  <1>8. \A i \in 1..k - 1 : u[i] = q[i]
    <2> SUFFICES ASSUME NEW i \in 1..k - 1 PROVE u[i] = q[i]
      OBVIOUS
    <2>1. i \in 1..Len(a) + Len(b) /\ i <= Len(a)
      BY <1>3, <1>4, <1>5
    <2>2. u[i] = a[i]
      BY Zenon, <1>6, <2>1
    <2> QED BY Zenon, <1>4, <2>2
  <1>9. ASSUME NEW i \in k..Len(q) - 1 PROVE u[i] = q[i + 1]
    <2>1. i \in 1..Len(a) + Len(b) /\ ~(i <= Len(a))
      BY <1>3, <1>4, <1>5
    <2>2. i - Len(a) \in 1..Len(q) - k /\ k + (i - Len(a)) = i + 1
      BY <1>3, <1>4
    <2>3. u[i] = b[i - Len(a)]
      BY Zenon, <1>6, <2>1
    <2> QED BY Zenon, <1>5, <2>2, <2>3
  <1> QED BY Zenon, <1>6, <1>7, <1>8, <1>9 DEF u, IsRemove

\* A set of numbers that has, with each number, those before it.
LEMMA Prefix ==
    ASSUME NEW m \in Nat, NEW D, D \subseteq 1..m, \A i \in D : 1..i \subseteq D
    PROVE  Cardinality(D) \in 0..m /\ D = 1..Cardinality(D)
  <1> DEFINE T == {n \in 1..m + 1 : n \notin D}
  <1>1. m + 1 \in T
    OBVIOUS
  <1>2. T \subseteq Nat /\ T # {}
    BY <1>1
  <1>3. PICK n \in T : \A k \in T : n <= k
    BY Zenon, <1>2, LeastNumber
  <1>4. D = 1..n - 1
    <2>1. n \in 1..m + 1 /\ n \notin D
      BY Zenon
    <2>2. \A i \in 1..n - 1 : i \in D
      BY <1>3, <2>1
    <2>3. \A i \in D : i \in 1..n - 1
      <3> SUFFICES ASSUME NEW i \in D PROVE i \in 1..n - 1
        OBVIOUS
      <3>1. i \in 1..m /\ n \notin 1..i
        BY Zenon, <2>1
      <3> QED BY <2>1, <3>1
    <2> QED BY Zenon, <2>2, <2>3
  <1>5. Cardinality(1..n - 1) = n - 1
    BY FS_Interval
  <1> QED BY <1>3, <1>4, <1>5

\* In a queue in the order of the times, QueueInsert puts x behind those that
\* are not due later than x and in front of all others.
LEMMA QueueInsertAt ==
    ASSUME NEW S, NEW q \in Seq(S), NEW x \in S, NEW due \in [S -> Nat],
           \A i, j \in 1..Len(q) : i <= j => due[q[i]] <= due[q[j]]
    PROVE  \E n \in 0..Len(q) :
               /\ QueueInsert(q, due, x) = InsertAt(q, n, x)
               /\ \A i \in 1..Len(q) : i <= n <=> due[q[i]] <= due[x]
  <1> DEFINE D == {i \in DOMAIN q : due[q[i]] <= due[x]}
             n == Cardinality(D)
  <1>1. Len(q) \in Nat /\ DOMAIN q = 1..Len(q)
    OBVIOUS
  <1>2. \A i \in 1..Len(q) : due[q[i]] \in Nat
    OBVIOUS
  <1>3. due[x] \in Nat
    OBVIOUS
  <1>4. D \subseteq 1..Len(q)
    BY Zenon, <1>1
  <1>5. ASSUME NEW i \in D PROVE 1..i \subseteq D
    BY <1>1, <1>2, <1>3
  <1>6. QueueInsert(q, due, x) = InsertAt(q, n, x)
    BY Zenon DEF QueueInsert, InsertAt
  <1>7. \A i \in 1..Len(q) : i \in D <=> due[q[i]] <= due[x]
    BY Zenon, <1>1
  <1> HIDE DEF D
  <1>8. n \in 0..Len(q) /\ D = 1..n
    BY Zenon, <1>1, <1>4, <1>5, Prefix
  <1> HIDE DEF n
  <1>9. \A i \in 1..Len(q) : i <= n <=> i \in D
    BY <1>1, <1>8
  <1> QED BY Zenon, <1>6, <1>7, <1>8, <1>9

-----------------------------------------------------------------------------
(***************************************************************************)
(* The list.  Between two calls next leads from each member of the queue   *)
(* to the one after it.  While heap_insert searches, the queue already has *)
(* the target, at k, and the links still pass over it; while heap_remove   *)
(* searches, the links still pass through the target, after k.  The cursor *)
(* is at c and has not passed the place.                                   *)
(***************************************************************************)
After(q, i) == IF i = Len(q) THEN Null ELSE q[i + 1]

Walked == /\ min = QueueMin(queue, Null)
          /\ \A i \in 1..Len(queue) : next[queue[i]] = After(queue, i)

Inserting(k, c) ==
    /\ queue[k] = target /\ curr = queue[c] /\ min = queue[1]
    /\ \A i \in (1..Len(queue)) \ {k} :
           next[queue[i]] = IF i = k - 1 THEN After(queue, k) ELSE After(queue, i)
    /\ \A i \in 1..k - 1 : ~(timeout[target] < timeout[queue[i]])
    /\ \A i \in k + 1..Len(queue) : timeout[target] < timeout[queue[i]]

Removing(k, c) ==
    /\ ~In(queue, target) /\ curr = queue[c] /\ min = queue[1]
    /\ next[target] = After(queue, k)
    /\ \A i \in 1..Len(queue) :
           next[queue[i]] = IF i = k THEN target ELSE After(queue, i)

InOrder == \A i, j \in 1..Len(queue) : i <= j => timeout[queue[i]] <= timeout[queue[j]]

ListInv ==
    /\ ListTypeOK /\ Once(queue) /\ InOrder
    /\ nelts + (IF pc = "insert" THEN 1 ELSE 0) <= starts
    /\ pc = "idle" => Walked
    /\ pc = "insert" => \E k \in 2..Len(queue) : \E c \in 1..k - 1 : Inserting(k, c)
    /\ pc = "remove" => \E k \in 1..Len(queue) : \E c \in 1..k : Removing(k, c)

LEMMA NodesIn ==
    ASSUME queue \in Seq(Timers)
    PROVE  \A t : t \in Nodes <=> In(queue, t)
  BY DEF Nodes, In

LEMMA MinIs ==
    ASSUME queue \in Seq(Timers), min = QueueMin(queue, Null)
    PROVE  /\ min = Null => queue = <<>>
           /\ min # Null => Len(queue) \in Nat \ {0} /\ min = queue[1]
  BY HeapAssumption DEF QueueMin

\* The members stay, and x is added to them.
LEMMA InsertOnce ==
    ASSUME NEW S, NEW q \in Seq(S), NEW x \in S, NEW n \in 0..Len(q), Once(q), ~In(q, x)
    PROVE  Once(InsertAt(q, n, x)) /\ \A y : In(InsertAt(q, n, x), y) <=> In(q, y) \/ y = x
  <1> PICK u : u = InsertAt(q, n, x)
    OBVIOUS
  <1>1. /\ u \in Seq(S) /\ Len(u) = Len(q) + 1
        /\ \A i \in 1..n : u[i] = q[i]
        /\ u[n + 1] = x
        /\ \A i \in n + 1..Len(q) : u[i + 1] = q[i]
    <2>1. u \in Seq(S) /\ IsInsert(u, q, n, x)
      BY Zenon, InsertAtIs
    <2> QED BY Zenon, <2>1 DEF IsInsert
  <1>2. \A i \in 1..Len(u) : i = n + 1 \/ (i \in 1..n /\ i \in 1..Len(q) /\ u[i] = q[i])
                             \/ (i - 1 \in n + 1..Len(q) /\ i - 1 \in 1..Len(q) /\ u[i] = q[i - 1])
    BY <1>1
  <1>3. Once(u)
    <2> SUFFICES ASSUME NEW i \in 1..Len(u), NEW j \in 1..Len(u), u[i] = u[j]
                 PROVE  i = j
      BY Zenon DEF Once
    <2>1. \A l \in 1..Len(u) : l # n + 1 => u[l] # x
      BY Zenon, <1>2 DEF In
    <2>3. CASE i = n + 1 \/ j = n + 1
      BY Zenon, <1>1, <2>1, <2>3
    <2>2. CASE i # n + 1 /\ j # n + 1
      <3> DEFINE at(k) == IF k <= n THEN k ELSE k - 1
      <3>1. at(i) \in 1..Len(q) /\ u[i] = q[at(i)] /\ at(j) \in 1..Len(q) /\ u[j] = q[at(j)]
        BY <1>1, <1>2, <2>2
      <3>2. at(i) = at(j)
        BY Zenon, <3>1 DEF Once
      <3> QED BY <1>1, <2>2, <3>2
    <2> QED BY Zenon, <2>2, <2>3
  <1>4. ASSUME NEW y PROVE In(u, y) <=> In(q, y) \/ y = x
    <2>1. In(u, y) => In(q, y) \/ y = x
      BY Zenon, <1>1, <1>2 DEF In
    <2>2. In(q, y) => In(u, y)
      <3> SUFFICES ASSUME NEW i \in 1..Len(q), q[i] = y PROVE In(u, y)
        BY Zenon DEF In
      <3>1. CASE i <= n
        BY <1>1, <3>1 DEF In
      <3>2. CASE ~(i <= n)
        <4>1. i \in n + 1..Len(q) /\ i + 1 \in 1..Len(u)
          BY <1>1, <3>2
        <4> QED BY Zenon, <1>1, <4>1 DEF In
      <3> QED BY Zenon, <3>1, <3>2
    <2>3. In(u, x)
      BY <1>1 DEF In
    <2> QED BY Zenon, <2>1, <2>2, <2>3
  <1> QED BY Zenon, <1>3, <1>4

LEMMA ListInsertKeeps ==
    ASSUME ListInv, NEW t \in Timers, NEW due \in ListDues, ListInsert(t, due)
    PROVE  ListInv'
  <1>1. /\ queue \in Seq(Timers) /\ Len(queue) \in Nat /\ pc = "idle" /\ Walked
        /\ timeout \in [Timers -> ListDues \cup {0}] /\ next \in [Timers -> Timers \cup {Null}]
        /\ min \in Timers \cup {Null} /\ Once(queue) /\ InOrder
    BY DEF ListInv, ListTypeOK, ListInsert
  <1>2. ~In(queue, t)
    BY Zenon, <1>1, NodesIn DEF ListInsert
  <1>3. /\ timeout' \in [Timers -> ListDues \cup {0}] /\ timeout'[t] = due
        /\ \A i \in 1..Len(queue) : timeout'[queue[i]] = timeout[queue[i]]
    BY <1>1, <1>2 DEF ListInsert, In
  <1>4. ListDues \cup {0} \subseteq Nat
    BY HeapAssumption
  <1>5. timeout' \in [Timers -> Nat]
    BY <1>3, <1>4
  <1>6. \A i, j \in 1..Len(queue) : i <= j => timeout'[queue[i]] <= timeout'[queue[j]]
    BY Zenon, <1>1, <1>3 DEF InOrder
  <1>7. PICK n \in 0..Len(queue) :
            /\ QueueInsert(queue, timeout', t) = InsertAt(queue, n, t)
            /\ \A i \in 1..Len(queue) : i <= n <=> timeout'[queue[i]] <= timeout'[t]
    BY Zenon, <1>1, <1>5, <1>6, QueueInsertAt
  <1>8. queue' = InsertAt(queue, n, t)
    BY Zenon, <1>7 DEF ListInsert
  <1>9. /\ queue' \in Seq(Timers) /\ Len(queue') = Len(queue) + 1
        /\ \A i \in 1..n : queue'[i] = queue[i]
        /\ queue'[n + 1] = t
        /\ \A i \in n + 1..Len(queue) : queue'[i + 1] = queue[i]
    <2>1. queue' \in Seq(Timers) /\ IsInsert(queue', queue, n, t)
      BY Zenon, <1>1, <1>8, InsertAtIs
    <2> QED BY Zenon, <2>1 DEF IsInsert
  <1>10. Once(queue')
    BY Zenon, <1>1, <1>2, <1>8, InsertOnce
  <1>11. \A i \in 1..Len(queue) : timeout'[queue[i]] \in Nat /\ due \in Nat
    BY <1>1, <1>4, <1>5
  <1>12. \A i \in 1..Len(queue') : i = n + 1 \/ (i \in 1..n /\ i \in 1..Len(queue) /\ queue'[i] = queue[i])
             \/ (i - 1 \in n + 1..Len(queue) /\ i - 1 \in 1..Len(queue) /\ queue'[i] = queue[i - 1])
    BY SMTT(20), <1>1, <1>9
  <1>13. InOrder'
    <2> SUFFICES ASSUME NEW i \in 1..Len(queue'), NEW j \in 1..Len(queue'), i <= j
                 PROVE  timeout'[queue'[i]] <= timeout'[queue'[j]]
      BY Zenon DEF InOrder
    <2> DEFINE at(k) == IF k <= n THEN k ELSE k - 1
    <2>1. /\ i # n + 1 => at(i) \in 1..Len(queue) /\ queue'[i] = queue[at(i)]
          /\ j # n + 1 => at(j) \in 1..Len(queue) /\ queue'[j] = queue[at(j)]
      BY <1>9, <1>12
    <2>2. CASE i # n + 1 /\ j # n + 1
      <3>1. at(i) <= at(j)
        BY <1>9
      <3> QED BY Zenon, <1>6, <2>1, <2>2, <3>1
    <2>3. CASE i = n + 1 /\ j # n + 1
      <3>1. ~(at(j) <= n)
        BY <1>9, <2>3
      <3>2. ~(timeout'[queue[at(j)]] <= timeout'[t])
        BY Zenon, <1>7, <2>1, <2>3, <3>1
      <3> HIDE DEF at
      <3> QED BY <1>3, <1>9, <1>11, <2>1, <2>3, <3>2
    <2>4. CASE i # n + 1 /\ j = n + 1
      <3>1. at(i) <= n
        BY <1>9, <2>4
      <3> QED BY Zenon, <1>7, <1>9, <2>1, <2>4, <3>1
    <2>5. CASE i = n + 1 /\ j = n + 1
      BY <1>3, <1>9, <1>5, <2>5
    <2> QED BY Zenon, <2>2, <2>3, <2>4, <2>5
  <1>14. starts' = starts + 1 /\ starts \in Nat /\ nelts \in Nat /\ nelts <= starts /\ starts' <= MaxStarts
    BY <1>1, HeapAssumption DEF ListInsert, ListInv, ListTypeOK
  <1>15. CASE min = Null \/ ListLessThan(due, min)
    <2>1. /\ next' = [next EXCEPT ![t] = min] /\ min' = t /\ nelts' = nelts + 1
          /\ pc' = "idle" /\ curr' = curr /\ target' = target
      BY Zenon, <1>1, <1>15 DEF ListInsert
    <2>2. curr = Null /\ target = Null
      BY Zenon, <1>1 DEF ListInv, ListTypeOK
    <2>3. n = 0
      <3>1. CASE min = Null
        BY <1>1, <3>1, MinIs DEF Walked
      <3>2. CASE min # Null /\ due < timeout[min]
        <4>1. Len(queue) \in Nat \ {0} /\ min = queue[1]
          BY Zenon, <1>1, <3>2, MinIs DEF Walked
        <4>2. ~(timeout'[queue[1]] <= timeout'[t])
          BY <1>3, <1>11, <3>2, <4>1
        <4> QED BY <1>7, <4>1, <4>2
      <3> QED BY Zenon, <1>15, <3>1, <3>2 DEF ListLessThan
    <2>4. QueueMin(queue', Null) = t
      BY <1>9, <2>3 DEF QueueMin
    <2>5. ASSUME NEW i \in 1..Len(queue') PROVE next'[queue'[i]] = After(queue', i)
      <3>1. CASE i = 1
        <4>1. CASE min = Null
          BY <1>1, <1>9, <2>1, <2>3, <3>1, <4>1, MinIs DEF Walked, After
        <4>2. CASE min # Null
          <5>1. Len(queue) \in Nat \ {0} /\ min = queue[1]
            BY Zenon, <1>1, <4>2, MinIs DEF Walked
          <5> QED BY <1>1, <1>9, <2>1, <2>3, <3>1, <5>1 DEF After
        <4> QED BY Zenon, <4>1, <4>2
      <3>2. CASE i # 1
        <4>1. i - 1 \in 1..Len(queue) /\ queue'[i] = queue[i - 1] /\ queue[i - 1] \in Timers
          BY <1>1, <1>12, <2>3, <3>2
        <4>2. next'[queue[i - 1]] = next[queue[i - 1]]
          BY <1>1, <1>2, <2>1, <4>1 DEF In
        <4>3. next[queue[i - 1]] = After(queue, i - 1)
          BY Zenon, <1>1, <4>1 DEF Walked
        <4>4. After(queue, i - 1) = After(queue', i)
          <5>1. CASE i = Len(queue')
            BY <1>1, <1>9, <5>1 DEF After
          <5>2. CASE i # Len(queue')
            <6>1. i \in 1..Len(queue) /\ i - 1 # Len(queue) /\ (i - 1) + 1 = i
              BY <1>1, <1>9, <5>2
            <6>2. queue'[i + 1] = queue[i]
              BY <1>1, <1>9, <2>3, <6>1
            <6> QED BY Zenon, <5>2, <6>1, <6>2 DEF After
          <5> QED BY Zenon, <5>1, <5>2
        <4> QED BY Zenon, <4>1, <4>2, <4>3, <4>4
      <3> QED BY Zenon, <3>1, <3>2
    <2>6. Walked'
      BY Zenon, <2>1, <2>4, <2>5 DEF Walked
    <2>7. ListTypeOK'
      BY <1>1, <1>3, <1>9, <1>14, <2>1, <2>2, HeapAssumption DEF ListTypeOK
    <2> QED BY <1>10, <1>13, <1>14, <2>1, <2>6, <2>7 DEF ListInv
  <1>16. CASE ~(min = Null \/ ListLessThan(due, min))
    <2>1. /\ next' = next /\ min' = min /\ nelts' = nelts
          /\ pc' = "insert" /\ curr' = min /\ target' = t
      BY Zenon, <1>1, <1>16 DEF ListInsert, Search
    <2>2. Len(queue) \in Nat \ {0} /\ min = queue[1] /\ queue[1] \in Timers
      BY <1>1, <1>16, MinIs DEF Walked
    <2>3. n >= 1
      BY <1>3, <1>7, <1>11, <1>16, <2>2 DEF ListLessThan
    <2>4. n + 1 \in 2..Len(queue') /\ 1 \in 1..(n + 1) - 1 /\ queue'[1] = queue[1]
      BY <1>9, <2>3
    <2>5. ASSUME NEW i \in (1..Len(queue')) \ {n + 1}
          PROVE  next'[queue'[i]] = IF i = (n + 1) - 1 THEN After(queue', n + 1) ELSE After(queue', i)
      <3>1. CASE i <= n
        <4>1. i \in 1..Len(queue) /\ queue'[i] = queue[i]
          BY <1>1, <1>9, <3>1
        <4>2. next'[queue'[i]] = After(queue, i)
          BY Zenon, <1>1, <2>1, <4>1 DEF Walked
        <4>3. CASE i = n
          BY <1>1, <1>9, <4>1, <4>2, <4>3 DEF After
        <4>4. CASE i # n
          <5>1. i # Len(queue) /\ i # Len(queue') /\ i + 1 \in 1..n /\ i # (n + 1) - 1
            BY <1>1, <1>9, <3>1, <4>1, <4>4
          <5> QED BY <1>9, <4>2, <5>1 DEF After
        <4> QED BY Zenon, <4>3, <4>4
      <3>2. CASE ~(i <= n)
        <4>1. i - 1 \in 1..Len(queue) /\ queue'[i] = queue[i - 1] /\ (i - 1) + 1 = i
          BY <1>1, <1>12, <3>2
        <4>2. next'[queue'[i]] = After(queue, i - 1)
          BY Zenon, <1>1, <2>1, <4>1 DEF Walked
        <4>3. After(queue, i - 1) = After(queue', i)
          <5>1. CASE i = Len(queue')
            BY <1>1, <1>9, <5>1 DEF After
          <5>2. CASE i # Len(queue')
            <6>1. i \in n + 1..Len(queue) /\ i - 1 # Len(queue)
              BY <1>1, <1>9, <3>2, <4>1, <5>2
            <6>2. queue'[i + 1] = queue[i]
              BY Zenon, <1>9, <6>1
            <6> QED BY Zenon, <4>1, <5>2, <6>1, <6>2 DEF After
          <5> QED BY Zenon, <5>1, <5>2
        <4>4. i # (n + 1) - 1
          BY <3>2
        <4> QED BY Zenon, <4>2, <4>3, <4>4
      <3> QED BY Zenon, <3>1, <3>2
    <2>6. \A i \in 1..(n + 1) - 1 : ~(timeout'[t] < timeout'[queue'[i]])
      <3> SUFFICES ASSUME NEW i \in 1..(n + 1) - 1
                   PROVE  ~(timeout'[t] < timeout'[queue'[i]])
        OBVIOUS
      <3>1. i \in 1..n /\ i \in 1..Len(queue) /\ i <= n /\ queue'[i] = queue[i]
        BY <1>1, <1>9
      <3>2. timeout'[queue[i]] <= timeout'[t]
        BY Zenon, <1>7, <3>1
      <3> QED BY <1>3, <1>11, <3>1, <3>2
    <2>7. \A i \in (n + 1) + 1..Len(queue') : timeout'[t] < timeout'[queue'[i]]
      <3> SUFFICES ASSUME NEW i \in (n + 1) + 1..Len(queue')
                   PROVE  timeout'[t] < timeout'[queue'[i]]
        OBVIOUS
      <3>1. i - 1 \in 1..Len(queue) /\ queue'[i] = queue[i - 1] /\ ~(i - 1 <= n)
        BY <1>9, <1>12
      <3>2. ~(timeout'[queue[i - 1]] <= timeout'[t])
        BY Zenon, <1>7, <3>1
      <3> QED BY <1>3, <1>11, <3>1, <3>2
    <2>8. Inserting(n + 1, 1)'
      BY <1>9, <2>1, <2>2, <2>4, <2>5, <2>6, <2>7 DEF Inserting
    <2>9. \E k \in 2..Len(queue') : \E c \in 1..k - 1 : Inserting(k, c)'
      BY Zenon, <2>4, <2>8
    <2>10. ListTypeOK'
      BY <1>1, <1>3, <1>9, <1>14, <2>1, <2>2, HeapAssumption DEF ListTypeOK
    <2> QED BY <1>10, <1>13, <1>14, <2>1, <2>9, <2>10 DEF ListInv
  <1> QED BY Zenon, <1>15, <1>16

\* What the invariant says of the types, for citing.
LEMMA ListTypes ==
    ASSUME ListInv
    PROVE  /\ queue \in Seq(Timers) /\ Len(queue) \in Nat
           /\ timeout \in [Timers -> Nat] /\ next \in [Timers -> Timers \cup {Null}]
           /\ Once(queue) /\ InOrder /\ Null \notin Timers
           /\ \A i \in 1..Len(queue) : queue[i] \in Timers
  <1>1. /\ queue \in Seq(Timers) /\ timeout \in [Timers -> ListDues \cup {0}]
        /\ next \in [Timers -> Timers \cup {Null}] /\ Once(queue) /\ InOrder
    BY Zenon DEF ListInv, ListTypeOK
  <1>2. ListDues \cup {0} \subseteq Nat /\ Null \notin Timers
    BY HeapAssumption
  <1>3. timeout \in [Timers -> Nat]
    BY <1>1, <1>2
  <1>4. Len(queue) \in Nat /\ \A i \in 1..Len(queue) : queue[i] \in Timers
    BY <1>1
  <1> QED BY Zenon, <1>1, <1>2, <1>3, <1>4

\* The new node is linked exactly where the queue has it.
LEMMA InsertStepKeeps == ASSUME ListInv, InsertStep PROVE ListInv'
  <1>1. /\ pc = "insert" /\ min' = min /\ timeout' = timeout /\ starts' = starts
        /\ queue' = queue
    BY Zenon DEF InsertStep
  <1>2. PICK k \in 2..Len(queue) : \E c \in 1..k - 1 : Inserting(k, c)
    BY Zenon, <1>1 DEF ListInv
  <1>3. PICK c \in 1..k - 1 : Inserting(k, c)
    BY Zenon, <1>2
  <1>4. /\ k \in 1..Len(queue) /\ c \in 1..Len(queue) /\ c # k /\ k - 1 \in 1..Len(queue)
        /\ k - 1 # k /\ (k - 1) + 1 = k /\ k - 1 # Len(queue) /\ Len(queue) > 0
    BY ListTypes
  <1>5. queue[k] = target /\ curr = queue[c] /\ min = queue[1]
    BY Zenon, <1>3 DEF Inserting
  <1>6. target \in Timers /\ curr \in Timers /\ target # curr
    BY Zenon, <1>4, <1>5, ListTypes DEF Once
  <1>7. nelts \in Nat /\ nelts + 1 <= starts /\ starts <= MaxStarts /\ starts \in Nat /\ MaxStarts \in Nat
    BY <1>1, HeapAssumption DEF ListInv, ListTypeOK
  <1>8. CASE c = k - 1
    <2>1. next[curr] = After(queue, k)
      BY Zenon, <1>3, <1>4, <1>5, <1>8 DEF Inserting
    <2>2. next[curr] = Null \/ ListLessThan(timeout[target], next[curr])
      <3>1. CASE k = Len(queue)
        BY Zenon, <2>1, <3>1 DEF After
      <3>2. CASE k # Len(queue)
        <4>1. k + 1 \in k + 1..Len(queue)
          BY <3>2, ListTypes
        <4>2. timeout[target] < timeout[queue[k + 1]]
          BY Zenon, <1>3, <4>1 DEF Inserting
        <4> QED BY Zenon, <2>1, <3>2, <4>2 DEF After, ListLessThan
      <3> QED BY Zenon, <3>1, <3>2
    <2>3. /\ next' = [next EXCEPT ![target] = next[curr], ![curr] = target]
          /\ nelts' = nelts + 1 /\ pc' = "idle" /\ curr' = Null /\ target' = Null
      BY Zenon, <2>2 DEF InsertStep, Return
    <2>4. ASSUME NEW i \in 1..Len(queue) PROVE next'[queue[i]] = After(queue, i)
      <3>1. CASE i = k
        BY <1>5, <1>6, <2>1, <2>3, <3>1, ListTypes
      <3>2. CASE i = k - 1
        <4>1. next'[curr] = target
          BY <1>6, <2>3, ListTypes
        <4> QED BY Zenon, <1>4, <1>5, <1>8, <3>2, <4>1 DEF After
      <3>3. CASE i # k /\ i # k - 1
        <4>1. queue[i] # target /\ queue[i] # curr /\ queue[i] \in Timers
          BY Zenon, <1>4, <1>5, <1>8, <3>3, ListTypes DEF Once
        <4>2. next'[queue[i]] = next[queue[i]]
          BY <2>3, <4>1, ListTypes
        <4>3. i \in (1..Len(queue)) \ {k}
          BY Zenon, <3>3
        <4> QED BY Zenon, <1>3, <3>3, <4>2, <4>3 DEF Inserting
      <3> QED BY Zenon, <3>1, <3>2, <3>3
    <2>5. min = QueueMin(queue, Null)
      BY <1>4, <1>5, ListTypes DEF QueueMin
    <2>6. Walked'
      BY Zenon, <1>1, <2>4, <2>5 DEF Walked
    <2>7. next' \in [Timers -> Timers \cup {Null}]
      BY Zenon, <1>6, <2>3, ListTypes
    <2>8. ListTypeOK'
      BY <1>1, <1>7, <2>3, <2>7 DEF ListTypeOK, ListInv
    <2>9. Once(queue)' /\ InOrder'
      BY Zenon, <1>1, ListTypes DEF InOrder
    <2>10. nelts' + 0 <= starts'
      BY <1>1, <1>7, <2>3
    <2> QED BY Zenon, <2>3, <2>6, <2>8, <2>9, <2>10 DEF ListInv
  <1>9. CASE c # k - 1
    <2>1. c + 1 \in 1..k - 1 /\ c # Len(queue) /\ c + 1 \in 1..Len(queue)
      BY <1>4, <1>9, ListTypes
    <2>2. next[curr] = queue[c + 1]
      <3>1. c \in (1..Len(queue)) \ {k}
        BY Zenon, <1>4
      <3> QED BY Zenon, <1>3, <1>5, <1>9, <2>1, <3>1 DEF Inserting, After
    <2>3. next[curr] # Null /\ ~ListLessThan(timeout[target], next[curr]) /\ next[curr] \in Timers
      BY <1>3, <2>1, <2>2, ListTypes DEF Inserting, ListLessThan
    <2>4. /\ curr' = queue[c + 1] /\ nelts' = nelts /\ next' = next /\ pc' = "insert"
          /\ target' = target
      BY Zenon, <1>1, <2>2, <2>3 DEF InsertStep
    <2>5. Inserting(k, c + 1)'
      BY Zenon, <1>1, <1>3, <2>4 DEF Inserting, After
    <2>6. \E l \in 2..Len(queue') : \E d \in 1..l - 1 : Inserting(l, d)'
      BY Zenon, <1>1, <2>1, <2>5
    <2>7. ListTypeOK'
      BY <1>1, <1>6, <2>2, <2>3, <2>4 DEF ListTypeOK, ListInv
    <2>8. Once(queue)' /\ InOrder'
      BY Zenon, <1>1, ListTypes DEF InOrder
    <2>9. nelts' + 1 <= starts'
      BY <1>1, <1>7, <2>4
    <2> QED BY Zenon, <2>4, <2>6, <2>7, <2>8, <2>9 DEF ListInv
  <1> QED BY Zenon, <1>8, <1>9

\* Removing a member keeps the others, in their order.
LEMMA RemoveOnce ==
    ASSUME NEW S, NEW q \in Seq(S), Once(q), NEW k \in 1..Len(q)
    PROVE  /\ Once(QueueRemove(q, q[k]))
           /\ \A y : In(QueueRemove(q, q[k]), y) <=> In(q, y) /\ y # q[k]
  <1> DEFINE at(i) == IF i < k THEN i ELSE i + 1
  <1>1. PICK u : u = QueueRemove(q, q[k])
    OBVIOUS
  <1>2. u \in Seq(S) /\ IsRemove(u, q, k)
    BY Zenon, <1>1, QueueRemoveIs
  <1>3. Len(q) \in Nat /\ Len(u) = Len(q) - 1
    BY <1>2 DEF IsRemove
  <1>4. \A i \in 1..Len(u) : at(i) \in 1..Len(q) /\ at(i) # k /\ u[i] = q[at(i)]
    BY <1>2, <1>3 DEF IsRemove
  <1>5. \A i, j \in 1..Len(u) : at(i) = at(j) => i = j
    BY <1>3
  <1>6. ASSUME NEW j \in 1..Len(q), j # k PROVE \E i \in 1..Len(u) : at(i) = j
    <2>1. CASE j < k
      <3>1. j \in 1..Len(u) /\ at(j) = j
        BY <1>3, <2>1
      <3> QED BY Zenon, <3>1
    <2>2. CASE ~(j < k)
      <3>1. j - 1 \in 1..Len(u) /\ at(j - 1) = j
        BY <1>3, <1>6, <2>2
      <3> QED BY Zenon, <3>1
    <2> QED BY Zenon, <2>1, <2>2
  <1> HIDE DEF at
  <1>7. Once(u)
    BY Zenon, <1>4, <1>5 DEF Once
  <1>8. ASSUME NEW y PROVE In(u, y) <=> In(q, y) /\ y # q[k]
    <2>1. In(u, y) => In(q, y) /\ y # q[k]
      BY Zenon, <1>4 DEF In, Once
    <2>2. ASSUME In(q, y), y # q[k] PROVE In(u, y)
      <3>1. PICK j \in 1..Len(q) : q[j] = y
        BY Zenon, <2>2 DEF In
      <3>2. PICK i \in 1..Len(u) : at(i) = j
        BY Zenon, <1>6, <2>2, <3>1
      <3> QED BY Zenon, <1>4, <3>1, <3>2 DEF In
    <2> QED BY Zenon, <2>1, <2>2
  <1> QED BY Zenon, <1>1, <1>7, <1>8

LEMMA ListRemoveKeeps == ASSUME ListInv, NEW t \in Timers, ListRemove(t) PROVE ListInv'
  <1>1. /\ pc = "idle" /\ Walked /\ nelts' = nelts /\ timeout' = timeout /\ starts' = starts
        /\ queue' = QueueRemove(queue, t)
    BY Zenon DEF ListRemove, ListInv
  <1>2. PICK k \in 1..Len(queue) : queue[k] = t
    BY Zenon, NodesIn, ListTypes DEF ListRemove, In
  <1>3. queue' \in Seq(Timers) /\ IsRemove(queue', queue, k)
    BY Zenon, <1>1, <1>2, ListTypes, QueueRemoveIs
  <1>4. Once(queue') /\ \A y : In(queue', y) <=> In(queue, y) /\ y # t
    BY Zenon, <1>1, <1>2, ListTypes, RemoveOnce
  <1>5. Len(queue) \in Nat /\ Len(queue') = Len(queue) - 1
    BY Zenon, <1>3, ListTypes DEF IsRemove
  <1> DEFINE at(i) == IF i < k THEN i ELSE i + 1
  <1>6. \A i \in 1..Len(queue') : at(i) \in 1..Len(queue) /\ at(i) # k /\ queue'[i] = queue[at(i)]
    BY <1>3, <1>5 DEF IsRemove
  <1>7. InOrder'
    <2> SUFFICES ASSUME NEW i \in 1..Len(queue'), NEW j \in 1..Len(queue'), i <= j
                 PROVE  timeout[queue'[i]] <= timeout[queue'[j]]
      BY Zenon, <1>1 DEF InOrder
    <2>1. at(i) <= at(j)
      BY <1>5
    <2> QED BY Zenon, <1>6, <2>1, ListTypes DEF InOrder
  <1>8. nelts \in 0..MaxStarts /\ nelts <= starts /\ starts \in 0..MaxStarts
    BY <1>1, HeapAssumption DEF ListInv, ListTypeOK
  <1>9. Len(queue) > 0 /\ min = queue[1] /\ curr = Null /\ target = Null /\ 1 \in 1..Len(queue)
    <2>1. Len(queue) > 0 /\ 1 \in 1..Len(queue)
      BY <1>5
    <2>2. min = queue[1]
      BY <1>1, <2>1, ListTypes DEF Walked, QueueMin
    <2> QED BY Zenon, <1>1, <2>1, <2>2 DEF ListInv, ListTypeOK
  <1>10. CASE min = t
    <2>1. k = 1
      BY Zenon, <1>2, <1>9, <1>10, ListTypes DEF Once
    <2>2. /\ min' = next[t] /\ next' = [next EXCEPT ![t] = Null]
          /\ pc' = "idle" /\ curr' = Null /\ target' = Null
      BY Zenon, <1>1, <1>9, <1>10 DEF ListRemove
    <2>3. next[t] = After(queue, 1)
      BY Zenon, <1>1, <1>2, <2>1 DEF Walked
    <2>4. min' = QueueMin(queue', Null)
      <3>1. CASE Len(queue) = 1
        <4>1. queue' = <<>>
          BY <1>3, <1>5, <3>1
        <4> QED BY Zenon, <2>2, <2>3, <3>1, <4>1 DEF QueueMin, After
      <3>2. CASE Len(queue) # 1
        <4>1. Len(queue') > 0 /\ 1 \in 1..Len(queue') /\ at(1) = 1 + 1
          BY <1>5, <2>1, <3>2
        <4>2. queue' # <<>> /\ Head(queue') = queue'[1]
          BY <1>3, <4>1
        <4> QED BY <1>6, <2>2, <2>3, <3>2, <4>1, <4>2 DEF QueueMin, After
      <3> QED BY Zenon, <3>1, <3>2
    <2>5. ASSUME NEW i \in 1..Len(queue') PROVE next'[queue'[i]] = After(queue', i)
      <3>0. i + 1 \in 1..Len(queue) /\ queue'[i] = queue[i + 1] /\ i + 1 # k
        BY <1>5, <1>6, <2>1
      <3>1. i + 1 \in 1..Len(queue) /\ queue'[i] = queue[i + 1] /\ queue[i + 1] # t
        BY Zenon, <1>2, <3>0, ListTypes DEF Once
      <3>2. next'[queue'[i]] = After(queue, i + 1)
        <4>1. next'[queue[i + 1]] = next[queue[i + 1]]
          BY <2>2, <3>1, ListTypes
        <4> QED BY Zenon, <1>1, <3>1, <4>1 DEF Walked
      <3>3. After(queue, i + 1) = After(queue', i)
        <4>1. CASE i = Len(queue')
          BY <1>5, <4>1 DEF After
        <4>2. CASE i # Len(queue')
          <5>1. i + 1 # Len(queue) /\ i + 1 \in 1..Len(queue') /\ at(i + 1) = (i + 1) + 1
            BY <1>5, <2>1, <4>2
          <5> QED BY Zenon, <1>6, <4>2, <5>1 DEF After
        <4> QED BY Zenon, <4>1, <4>2
      <3> QED BY Zenon, <3>2, <3>3
    <2>6. Walked'
      BY Zenon, <2>4, <2>5 DEF Walked
    <2>7. next' \in [Timers -> Timers \cup {Null}] /\ min' \in Timers \cup {Null}
      BY <2>2, ListTypes
    <2>8. ListTypeOK'
      BY Zenon, <1>1, <1>3, <1>8, <2>2, <2>7 DEF ListTypeOK, ListInv
    <2>9. nelts' + 0 <= starts'
      BY <1>1, <1>8
    <2> QED BY <1>4, <1>7, <2>2, <2>6, <2>8, <2>9 DEF ListInv
  <1>11. CASE min # t
    <2>1. k # 1 /\ k - 1 \in 1..Len(queue') /\ 1 \in 1..k - 1 /\ at(1) = 1 /\ 1 \in 1..Len(queue')
          /\ (k - 1) + 1 = k
      BY <1>2, <1>5, <1>9, <1>11
    <2>2. /\ min' = min /\ next' = next /\ pc' = "remove" /\ curr' = min /\ target' = t
      BY Zenon, <1>11 DEF ListRemove, Search
    <2>3. queue'[1] = queue[1]
      BY Zenon, <1>6, <2>1
    <2>4. next[t] = After(queue', k - 1)
      <3>1. next[t] = After(queue, k)
        BY Zenon, <1>1, <1>2 DEF Walked
      <3>2. CASE k = Len(queue)
        BY <1>5, <3>1, <3>2 DEF After
      <3>3. CASE k # Len(queue)
        <4>1. k - 1 # Len(queue') /\ k \in 1..Len(queue') /\ at(k) = k + 1
          BY <1>5, <3>3
        <4> QED BY Zenon, <1>6, <2>1, <3>1, <3>3, <4>1 DEF After
      <3> QED BY Zenon, <3>2, <3>3
    <2>5. ASSUME NEW i \in 1..Len(queue')
          PROVE  next[queue'[i]] = IF i = k - 1 THEN t ELSE After(queue', i)
      <3>1. next[queue'[i]] = After(queue, at(i))
        BY Zenon, <1>1, <1>6 DEF Walked
      <3>2. CASE i = k - 1
        <4>1. at(i) = k - 1 /\ k - 1 # Len(queue)
          BY <1>5, <3>2
        <4> QED BY <1>2, <2>1, <3>1, <3>2, <4>1 DEF After
      <3>3. CASE i # k - 1
        <4>1. CASE i = Len(queue')
          <5>1. at(i) = Len(queue)
            BY <1>5, <3>3, <4>1
          <5> QED BY Zenon, <3>1, <3>3, <4>1, <5>1 DEF After
        <4>2. CASE i # Len(queue')
          <5>1. at(i) # Len(queue) /\ i + 1 \in 1..Len(queue') /\ at(i + 1) = at(i) + 1
            BY <1>5, <3>3, <4>2
          <5> QED BY Zenon, <1>6, <3>1, <3>3, <4>2, <5>1 DEF After
        <4> QED BY Zenon, <4>1, <4>2
      <3> QED BY Zenon, <3>2, <3>3
    <2>6. Removing(k - 1, 1)'
      BY Zenon, <1>4, <1>9, <2>2, <2>3, <2>4, <2>5 DEF Removing
    <2>7. \E l \in 1..Len(queue') : \E d \in 1..l : Removing(l, d)'
      BY Zenon, <2>1, <2>6
    <2>8. min \in Timers
      BY Zenon, <1>9, ListTypes
    <2>9. ListTypeOK'
      BY <1>1, <1>3, <1>8, <2>2, <2>8 DEF ListTypeOK, ListInv
    <2>10. nelts' + 0 <= starts'
      BY <1>1, <1>8
    <2> QED BY <1>4, <1>7, <2>2, <2>7, <2>9, <2>10 DEF ListInv
  <1> QED BY Zenon, <1>10, <1>11

\* The search of heap_remove finds the node, which the links still pass.
LEMMA RemoveStepKeeps == ASSUME ListInv, RemoveStep PROVE ListInv'
  <1>1. /\ pc = "remove" /\ min' = min /\ nelts' = nelts /\ timeout' = timeout
        /\ starts' = starts /\ queue' = queue
    BY Zenon DEF RemoveStep
  <1>2. PICK k \in 1..Len(queue) : \E c \in 1..k : Removing(k, c)
    BY Zenon, <1>1 DEF ListInv
  <1>3. PICK c \in 1..k : Removing(k, c)
    BY Zenon, <1>2
  <1>4. c \in 1..Len(queue) /\ 1 \in 1..Len(queue) /\ Len(queue) > 0
    BY ListTypes
  <1>5. curr = queue[c] /\ min = queue[1] /\ ~In(queue, target)
    BY Zenon, <1>3 DEF Removing
  <1>6. target \in Timers /\ curr \in Timers /\ target # curr
    BY Zenon, <1>1, <1>4, <1>5, ListTypes DEF In, ListInv, ListTypeOK
  <1>7. nelts <= starts
    BY <1>1, HeapAssumption DEF ListInv, ListTypeOK
  <1>8. Once(queue)' /\ InOrder'
    BY Zenon, <1>1, ListTypes DEF InOrder
  <1>9. nelts' + 0 <= starts'
    BY <1>1, <1>7 DEF ListInv, ListTypeOK
  <1>10. CASE c = k
    <2>1. next[curr] = target /\ target # Null
      BY Zenon, <1>3, <1>4, <1>5, <1>6, <1>10, ListTypes DEF Removing
    <2>2. /\ next' = [next EXCEPT ![curr] = next[target], ![target] = Null]
          /\ pc' = "idle" /\ curr' = Null /\ target' = Null
      BY Zenon, <2>1 DEF RemoveStep, Return
    <2>3. ASSUME NEW i \in 1..Len(queue) PROVE next'[queue[i]] = After(queue, i)
      <3>1. CASE i = k
        <4>1. next'[curr] = next[target]
          BY <1>6, <2>2, ListTypes
        <4> QED BY Zenon, <1>3, <1>5, <1>10, <3>1, <4>1 DEF Removing
      <3>2. CASE i # k
        <4>1. queue[i] # target /\ queue[i] # curr /\ queue[i] \in Timers
          BY Zenon, <1>4, <1>5, <1>10, <3>2, ListTypes DEF Once, In
        <4>2. next'[queue[i]] = next[queue[i]]
          BY <2>2, <4>1, ListTypes
        <4> QED BY Zenon, <1>3, <3>2, <4>2 DEF Removing
      <3> QED BY Zenon, <3>1, <3>2
    <2>4. min = QueueMin(queue, Null)
      BY <1>4, <1>5, ListTypes DEF QueueMin
    <2>5. Walked'
      BY Zenon, <1>1, <2>3, <2>4 DEF Walked
    <2>6. next' \in [Timers -> Timers \cup {Null}]
      BY SMTT(20), <1>6, <2>2, ListTypes
    <2>7. ListTypeOK'
      BY Zenon, <1>1, <2>2, <2>6 DEF ListTypeOK, ListInv
    <2> QED BY Zenon, <1>8, <1>9, <2>2, <2>5, <2>7 DEF ListInv
  <1>11. CASE c # k
    <2>1. c + 1 \in 1..k /\ c + 1 \in 1..Len(queue) /\ c # Len(queue)
      BY <1>11, ListTypes
    <2>2. next[curr] = queue[c + 1]
      BY Zenon, <1>3, <1>4, <1>5, <1>11, <2>1 DEF Removing, After
    <2>3. next[curr] # Null /\ next[curr] # target /\ next[curr] \in Timers
      BY Zenon, <1>5, <2>1, <2>2, ListTypes DEF In
    <2>4. curr' = queue[c + 1] /\ next' = next /\ pc' = "remove" /\ target' = target
      BY Zenon, <1>1, <2>2, <2>3 DEF RemoveStep
    <2>5. Removing(k, c + 1)'
      BY Zenon, <1>1, <1>3, <2>4 DEF Removing, After, In
    <2>6. \E l \in 1..Len(queue') : \E d \in 1..l : Removing(l, d)'
      BY Zenon, <1>1, <2>1, <2>5
    <2>7. ListTypeOK'
      BY Zenon, <1>1, <1>6, <2>2, <2>3, <2>4 DEF ListTypeOK, ListInv
    <2> QED BY Zenon, <1>8, <1>9, <2>4, <2>6, <2>7 DEF ListInv
  <1> QED BY Zenon, <1>10, <1>11

LEMMA ListStays ==
    ASSUME ListInv, UNCHANGED <<timeout, pc, queue, listVars>>
    PROVE  ListInv'
  <1>1. /\ timeout' = timeout /\ pc' = pc /\ queue' = queue /\ min' = min /\ nelts' = nelts
        /\ next' = next /\ starts' = starts /\ curr' = curr /\ target' = target
    BY Zenon DEF listVars
  <1>2. ListTypeOK' = ListTypeOK /\ InOrder' = InOrder /\ Walked' = Walked
    BY Zenon, <1>1 DEF ListTypeOK, InOrder, Walked, After
  <1>3. \A k, c : Inserting(k, c)' = Inserting(k, c) /\ Removing(k, c)' = Removing(k, c)
    BY <1>1 DEF Inserting, Removing, After, In
  <1> QED BY Zenon, <1>1, <1>2, <1>3 DEF ListInv

LEMMA ListStarts == ASSUME ListInit PROVE ListInv
  <1>1. queue = <<>> /\ Len(queue) = 0
    BY DEF ListInit
  <1>2. \A i \in 1..Len(queue) : FALSE
    BY <1>1
  <1>3. Once(queue) /\ InOrder
    BY Zenon, <1>2 DEF Once, InOrder
  <1>4. Walked
    BY Zenon, <1>1, <1>2 DEF Walked, QueueMin, ListInit
  <1>5. ListTypeOK
    BY <1>1, HeapAssumption DEF ListTypeOK, ListInit
  <1>6. nelts + 0 <= starts
    BY DEF ListInit
  <1> QED BY Zenon, <1>3, <1>4, <1>5, <1>6 DEF ListInv, ListInit

LEMMA ListExact == ASSUME ListInv PROVE ListTypeOK /\ ListIsQueue
  <1>1. DOMAIN queue = 1..Len(queue)
    BY ListTypes
  <1> QED BY Zenon, <1>1 DEF ListInv, ListIsQueue, Walked, After

\* In the build with memory constraints (heap-inl.h, timer.c) the list that starts at
\* heap->min is, between two calls, exactly the active timers in firing order, timers of
\* the same timeout in the order they were started; for every set of timers and timeouts.
THEOREM ListAlwaysInOrder == SpecBoth => []ListInOrder
  <1> DEFINE Inv == kind = "list" => ListInv
  <1>1. InitBoth => Inv
    BY Zenon, ListStarts DEF InitBoth
  <1>2. ASSUME Inv, [NextBoth]_<<kind, vars>> PROVE Inv'
    <2> SUFFICES ASSUME kind' = "list" PROVE ListInv'
      BY Zenon
    <2>1. CASE UNCHANGED <<kind, vars>>
      BY Zenon, <1>2, <2>1, ListStays DEF vars
    <2>2. CASE NextBoth
      <3>1. kind = "list" /\ ListNext /\ ListInv
        BY Zenon, <1>2, <2>2 DEF NextBoth
      <3> QED BY Zenon, <3>1, ListInsertKeeps, ListRemoveKeeps, InsertStepKeeps, RemoveStepKeeps
              DEF ListNext
    <2> QED BY Zenon, <1>2, <2>1, <2>2
  <1>3. Inv => ListInOrder
    BY Zenon, ListExact DEF ListInOrder
  <1> QED BY <1>1, <1>2, <1>3, PTL DEF SpecBoth

-----------------------------------------------------------------------------
(***************************************************************************)
(* The binary heap.  The tree is an array: the children of place i are the *)
(* places 2i and 2i + 1, and each step is an update of the array.          *)
(***************************************************************************)
\* The arithmetic of the places in a binary tree.
LEMMA Half ==
    ASSUME NEW i \in Nat
    PROVE  /\ i \div 2 \in Nat /\ (2 * i) \div 2 = i /\ (2 * i + 1) \div 2 = i
           /\ (i % 2 = 1) = (i = 2 * (i \div 2) + 1)
           /\ i = 2 * (i \div 2) \/ i = 2 * (i \div 2) + 1
           /\ i >= 1 => i \div 2 < i
           /\ i >= 2 => i \div 2 >= 1
  OBVIOUS

HeapType == [min : Timers \cup {Null}, nelts : Nat,
             left : [Timers -> Timers \cup {Null}], right : [Timers -> Timers \cup {Null}],
             parent : [Timers -> Timers \cup {Null}]]

\* a holds n nodes, in the places from 1 to n, and NULL in the others.
IsArray(a, n) ==
    /\ a \in [Nat -> Timers \cup {Null}] /\ n \in Nat
    /\ \A i \in Nat : a[i] \in Timers <=> i \in 1..n
    /\ \A i, j \in 1..n : a[i] = a[j] => i = j

\* The links of h are those of the tree with the nodes of a.
Down(h, a, n) ==
    /\ h.min = a[1]
    /\ \A i \in 1..n : h.left[a[i]] = a[2 * i] /\ h.right[a[i]] = a[2 * i + 1]

Up(h, a, n) == \A i \in 1..n : h.parent[a[i]] = a[i \div 2]

Out(h, a, n) ==
    \A t \in Timers : (\A i \in 1..n : a[i] # t) =>
        h.left[t] = Null /\ h.right[t] = Null /\ h.parent[t] = Null

Shape(h, a) ==
    /\ h \in HeapType /\ IsArray(a, h.nelts)
    /\ Down(h, a, h.nelts) /\ Up(h, a, h.nelts) /\ Out(h, a, h.nelts)

-----------------------------------------------------------------------------
\* What SetChild and HeapNodeSwap leave in each link.
IsSetChild(g, h, up, old, new) ==
    /\ g \in HeapType /\ g.nelts = h.nelts /\ g.parent = h.parent
    /\ g.min = IF up = Null THEN new ELSE h.min
    /\ \A t \in Timers :
         /\ g.left[t] = IF t = up /\ h.left[t] = old THEN new ELSE h.left[t]
         /\ g.right[t] = IF t = up /\ h.left[t] # old THEN new ELSE h.right[t]

LEMMA SetChildIs ==
    ASSUME NEW h \in HeapType, NEW up \in Timers \cup {Null}, NEW old,
           NEW new \in Timers \cup {Null}
    PROVE  IsSetChild(SetChild(h, up, old, new), h, up, old, new)
  <1>1. Null \notin Timers
    BY HeapAssumption
  <1>2. CASE up = Null
    BY <1>1, <1>2 DEF SetChild, IsSetChild, HeapType
  <1>3. CASE up # Null /\ h.left[up] = old
    BY <1>1, <1>3 DEF SetChild, IsSetChild, HeapType
  <1>4. CASE up # Null /\ h.left[up] # old
    BY <1>1, <1>4 DEF SetChild, IsSetChild, HeapType
  <1> QED BY Zenon, <1>2, <1>3, <1>4

IsSwap(g, h, p, c) ==
    /\ g \in HeapType /\ g.nelts = h.nelts
    /\ g.min = IF h.parent[p] = Null THEN c ELSE h.min
    /\ \A t \in Timers :
         /\ g.left[t] = IF t = p THEN h.left[c]
                        ELSE IF t = c THEN (IF h.left[p] = c THEN p ELSE h.left[p])
                        ELSE IF t = h.parent[p] /\ h.left[t] = p THEN c ELSE h.left[t]
         /\ g.right[t] = IF t = p THEN h.right[c]
                         ELSE IF t = c THEN (IF h.left[p] = c THEN h.right[p] ELSE p)
                         ELSE IF t = h.parent[p] /\ h.left[t] # p THEN c ELSE h.right[t]
         /\ g.parent[t] = IF t = p \/ t = (IF h.left[p] = c THEN h.right[p] ELSE h.left[p]) THEN c
                          ELSE IF t = c THEN h.parent[p]
                          ELSE IF t = h.left[c] \/ t = h.right[c] THEN p ELSE h.parent[t]

LEMMA SwapIs ==
    ASSUME NEW h \in HeapType, NEW p \in Timers, NEW c \in Timers, p # c,
           h.parent[p] # p, h.parent[p] # c
    PROVE  IsSwap(HeapNodeSwap(h, p, c), h, p, c)
  <1> DEFINE onleft == h.left[p] = c
             sibling == IF onleft THEN h.right[p] ELSE h.left[p]
             up == h.parent[p]
             swapped == [h EXCEPT
                !.left = [@ EXCEPT ![p] = h.left[c], ![c] = IF onleft THEN p ELSE h.left[p]],
                !.right = [@ EXCEPT ![p] = h.right[c], ![c] = IF onleft THEN h.right[p] ELSE p],
                !.parent = [n \in Timers |-> IF n \in {p, sibling} THEN c ELSE IF n = c THEN up
                                         ELSE IF n \in {h.left[c], h.right[c]} THEN p ELSE @[n]]]
  <1>1. up \in Timers \cup {Null} /\ c \in Timers \cup {Null}
    BY Zenon DEF HeapType
  <1>2. /\ swapped \in HeapType /\ swapped.nelts = h.nelts /\ swapped.min = h.min
        /\ \A t \in Timers :
             /\ swapped.left[t] = IF t = p THEN h.left[c]
                        ELSE IF t = c THEN (IF onleft THEN p ELSE h.left[p]) ELSE h.left[t]
             /\ swapped.right[t] = IF t = p THEN h.right[c]
                         ELSE IF t = c THEN (IF onleft THEN h.right[p] ELSE p) ELSE h.right[t]
             /\ swapped.parent[t] = IF t = p \/ t = sibling THEN c
                          ELSE IF t = c THEN up
                          ELSE IF t = h.left[c] \/ t = h.right[c] THEN p ELSE h.parent[t]
    BY Zenon DEF HeapType
  <1>3. HeapNodeSwap(h, p, c) = SetChild(swapped, up, p, c)
    BY Zenon DEF HeapNodeSwap
  <1> HIDE DEF swapped
  <1>4. IsSetChild(HeapNodeSwap(h, p, c), swapped, up, p, c)
    <2>1. IsSetChild(SetChild(swapped, up, p, c), swapped, up, p, c)
      BY Zenon, <1>1, <1>2, SetChildIs
    <2> QED BY Zenon, <1>3, <2>1
  <1> QED BY <1>2, <1>4 DEF IsSwap, IsSetChild

\* The tree after a node has changed places with its parent.
Exchange(a, c) ==
    [i \in Nat |-> IF i = c THEN a[c \div 2] ELSE IF i = c \div 2 THEN a[c] ELSE a[i]]

ArrayOK(a, n) ==
    /\ Null \notin Timers /\ \A i \in Nat : a[i] \in Timers \cup {Null}
    /\ \A i \in 1..n : a[i] \in Timers /\ a[i] # Null /\ i \in Nat
    /\ \A i \in Nat : i \in 1..n \/ a[i] = Null
    /\ \A i \in 1..n, j \in Nat : a[i] = a[j] => i = j
    /\ a[0] = Null

LEMMA ArrayFacts == ASSUME NEW a, NEW n, IsArray(a, n) PROVE ArrayOK(a, n)
  <1>1. Null \notin Timers /\ n \in Nat
    BY HeapAssumption DEF IsArray
  <1>2. \A i \in 1..n : i \in Nat
    BY <1>1
  <1>3. 0 \in Nat /\ 0 \notin 1..n
    BY <1>1
  <1>4. \A i \in Nat : a[i] \in Timers \cup {Null}
    BY DEF IsArray
  <1>5. \A i \in Nat : i \in 1..n \/ a[i] = Null
    BY <1>4 DEF IsArray
  <1>6. \A i \in 1..n : a[i] \in Timers /\ a[i] # Null
    BY <1>1, <1>2 DEF IsArray
  <1>7. \A i \in 1..n, j \in Nat : a[i] = a[j] => i = j
    BY Zenon, <1>5, <1>6 DEF IsArray
  <1> QED BY Zenon, <1>1, <1>2, <1>3, <1>4, <1>5, <1>6, <1>7 DEF ArrayOK

IsExchange(b, a, n, c) ==
    /\ IsArray(b, n)
    /\ b[c] = a[c \div 2] /\ b[c \div 2] = a[c]
    /\ \A i \in Nat : i # c /\ i # c \div 2 => b[i] = a[i]
    /\ {b[i] : i \in 1..n} = {a[i] : i \in 1..n}

LEMMA ExchangeIs ==
    ASSUME NEW a, NEW n, IsArray(a, n), NEW c \in 2..n
    PROVE  IsExchange(Exchange(a, c), a, n, c)
  <1> DEFINE p == c \div 2
             b == Exchange(a, c)
             to(i) == IF i = c THEN p ELSE IF i = p THEN c ELSE i
  <1>1. n \in Nat /\ c \in Nat /\ c \in 1..n /\ p \in Nat /\ p \in 1..n /\ p # c
    BY Half DEF IsArray
  <1>2. \A i \in Nat : b[i] = a[to(i)] /\ to(i) \in Nat /\ to(to(i)) = i
                       /\ (i \in 1..n <=> to(i) \in 1..n)
    BY <1>1 DEF Exchange
  <1>3. \A i \in Nat : i # c /\ i # p => b[i] = a[i]
    BY <1>1 DEF Exchange
  <1>4. b[c] = a[p] /\ b[p] = a[c]
    BY <1>1 DEF Exchange
  <1> HIDE DEF to
  <1>5. b \in [Nat -> Timers \cup {Null}]
    BY <1>1 DEF IsArray, Exchange
  <1>6. \A i \in Nat : b[i] \in Timers <=> i \in 1..n
    BY Zenon, <1>2 DEF IsArray
  <1>7. \A i \in 1..n : i \in Nat
    BY <1>1
  <1>8. \A i, j \in 1..n : b[i] = b[j] => i = j
    BY <1>2, <1>7 DEF IsArray
  <1>9. \A i \in 1..n : (\E j \in 1..n : b[i] = a[j]) /\ (\E j \in 1..n : a[i] = b[j])
    BY Zenon, <1>2, <1>7
  <1>10. {b[i] : i \in 1..n} = {a[i] : i \in 1..n}
    <2>1. ASSUME NEW x \in {b[i] : i \in 1..n} PROVE x \in {a[i] : i \in 1..n}
      BY Zenon, <1>9
    <2>2. ASSUME NEW x \in {a[i] : i \in 1..n} PROVE x \in {b[i] : i \in 1..n}
      BY Zenon, <1>9
    <2> QED BY Zenon, <2>1, <2>2
  <1> QED BY Zenon, <1>1, <1>3, <1>4, <1>5, <1>6, <1>8, <1>10 DEF IsArray, IsExchange

LEMMA SwapShape ==
    ASSUME NEW h, NEW a, Shape(h, a), NEW c \in 2..h.nelts
    PROVE  /\ Shape(HeapNodeSwap(h, a[c \div 2], a[c]), Exchange(a, c))
           /\ HeapNodeSwap(h, a[c \div 2], a[c]).nelts = h.nelts
  <1> DEFINE p == c \div 2
             P == a[p]
             C == a[c]
             n == h.nelts
  <1>1. h \in HeapType /\ IsArray(a, n) /\ Down(h, a, n) /\ Up(h, a, n) /\ Out(h, a, n)
    BY Zenon DEF Shape
  <1>a. ArrayOK(a, n)
    BY <1>1, ArrayFacts
  <1>2. /\ n \in Nat /\ c \in Nat /\ c \in 1..n /\ p \in Nat /\ p \in 1..n /\ p # c
        /\ p \div 2 \in Nat /\ p \div 2 # p /\ p \div 2 # c
        /\ 2 * p \in Nat /\ 2 * p + 1 \in Nat /\ 2 * c \in Nat /\ 2 * c + 1 \in Nat
        /\ 2 * p # 2 * p + 1 /\ (c = 2 * p \/ c = 2 * p + 1)
        /\ 2 * c # c /\ 2 * c + 1 # c /\ 2 * c # p /\ 2 * c + 1 # p
        /\ 2 * p # p /\ 2 * p + 1 # p
    BY <1>1, Half DEF IsArray
  <1>3. P \in Timers /\ C \in Timers /\ P # C
    BY Zenon, <1>2, <1>a DEF ArrayOK
  <1>4. /\ h.parent[P] = a[p \div 2] /\ h.left[P] = a[2 * p] /\ h.right[P] = a[2 * p + 1]
        /\ h.left[C] = a[2 * c] /\ h.right[C] = a[2 * c + 1] /\ h.min = a[1]
    BY Zenon, <1>1, <1>2 DEF Down, Up
  <1>5. h.parent[P] # P /\ h.parent[P] # C
    BY <1>2, <1>4, <1>a DEF ArrayOK
  <1>6. PICK g : g = HeapNodeSwap(h, P, C)
    OBVIOUS
  <1>7. IsSwap(g, h, P, C)
    BY Zenon, <1>1, <1>3, <1>5, <1>6, SwapIs
  <1>8. PICK b : b = Exchange(a, c)
    OBVIOUS
  <1>9. /\ IsArray(b, n) /\ b[c] = P /\ b[p] = C
        /\ \A i \in Nat : i # c /\ i # p => b[i] = a[i]
        /\ {b[i] : i \in 1..n} = {a[i] : i \in 1..n}
    <2>1. IsExchange(b, a, n, c)
      BY Zenon, <1>1, <1>8, ExchangeIs
    <2> QED BY Zenon, <2>1 DEF IsExchange
  <1>10. (h.left[P] = C) <=> (c = 2 * p)
    BY <1>2, <1>4, <1>a DEF ArrayOK
  <1>11. g.min = b[1]
    <2>1. CASE p = 1
      <3>1. p \div 2 = 0
        BY <2>1
      <3> QED BY <1>4, <1>7, <1>9, <2>1, <3>1, <1>a DEF IsSwap, ArrayOK
    <2>2. CASE p # 1
      <3>1. p \div 2 \in 1..n /\ 1 \in Nat /\ c # 1
        BY <1>2, <2>2, Half
      <3>2. h.parent[P] # Null
        BY Zenon, <1>4, <3>1, <1>a DEF ArrayOK
      <3> QED BY Zenon, <1>4, <1>7, <1>9, <2>2, <3>1, <3>2 DEF IsSwap
    <2> QED BY Zenon, <2>1, <2>2
  <1>12. ASSUME NEW i \in 1..n
         PROVE  g.left[b[i]] = b[2 * i] /\ g.right[b[i]] = b[2 * i + 1]
    <2>1. CASE i = c
      BY <1>2, <1>3, <1>4, <1>7, <1>9, <2>1 DEF IsSwap
    <2>2. CASE i = p
      <3>1. g.left[C] = IF c = 2 * p THEN P ELSE a[2 * p]
        BY Zenon, <1>3, <1>4, <1>7, <1>10 DEF IsSwap
      <3>2. g.right[C] = IF c = 2 * p THEN a[2 * p + 1] ELSE P
        BY Zenon, <1>3, <1>4, <1>7, <1>10 DEF IsSwap
      <3> QED BY Zenon, <1>2, <1>9, <2>2, <3>1, <3>2
    <2>3. CASE i # c /\ i # p
      <3>1. /\ i \in Nat /\ 2 * i \in Nat /\ 2 * i + 1 \in Nat /\ 2 * i # c /\ 2 * i + 1 # c
        BY <1>2, <2>3, Half
      <3>2. b[i] = a[i] /\ a[i] \in Timers /\ a[i] # P /\ a[i] # C
        BY Zenon, <1>2, <1>9, <2>3, <3>1, <1>a DEF ArrayOK
      <3>3. h.left[a[i]] = a[2 * i] /\ h.right[a[i]] = a[2 * i + 1]
        BY Zenon, <1>1 DEF Down
      <3>4. CASE i = p \div 2
        <4>1. p = 2 * i \/ p = 2 * i + 1
          BY <1>2, <3>4, Half
        <4>2. 2 * i # 2 * i + 1
          BY <3>1
        <4>3. (h.left[a[i]] = P) <=> (p = 2 * i)
          BY Zenon, <1>2, <3>1, <3>3, <1>a DEF ArrayOK
        <4>4. /\ g.left[a[i]] = IF p = 2 * i THEN C ELSE a[2 * i]
              /\ g.right[a[i]] = IF p = 2 * i THEN a[2 * i + 1] ELSE C
          BY Zenon, <1>4, <1>7, <3>2, <3>3, <3>4, <4>3 DEF IsSwap
        <4> QED BY Zenon, <1>9, <3>1, <3>2, <4>1, <4>2, <4>4
      <3>5. CASE i # p \div 2
        <4>1. 2 * i # p /\ 2 * i + 1 # p
          BY SMTT(20), <1>2, <3>5, Half
        <4>2. a[i] # h.parent[P]
          BY <1>2, <1>4, <3>5, <1>a DEF ArrayOK
        <4>3. g.left[a[i]] = h.left[a[i]] /\ g.right[a[i]] = h.right[a[i]]
          BY Zenon, <1>7, <3>2, <4>2 DEF IsSwap
        <4>4. b[2 * i] = a[2 * i] /\ b[2 * i + 1] = a[2 * i + 1]
          BY Zenon, <1>9, <3>1, <4>1
        <4> QED BY Zenon, <3>2, <3>3, <4>3, <4>4
      <3> QED BY Zenon, <3>4, <3>5
    <2> QED BY Zenon, <2>1, <2>2, <2>3
  <1>13. ASSUME NEW i \in 1..n PROVE g.parent[b[i]] = b[i \div 2]
    <2>1. CASE i = c
      BY Zenon, <1>3, <1>7, <1>9, <2>1 DEF IsSwap
    <2>2. CASE i = p
      <3>1. C # h.right[P] \/ h.left[P] # C
        BY <1>2, <1>4, <1>a DEF ArrayOK
      <3>2. C # (IF h.left[P] = C THEN h.right[P] ELSE h.left[P])
        BY Zenon, <3>1
      <3>3. g.parent[C] = a[p \div 2]
        BY Zenon, <1>3, <1>4, <1>7, <3>2 DEF IsSwap
      <3> QED BY Zenon, <1>2, <1>9, <2>2, <3>3
    <2>3. CASE i # c /\ i # p
      <3>1. i \in Nat /\ i \div 2 \in Nat
        BY <1>2, Half
      <3>2. b[i] = a[i] /\ a[i] \in Timers /\ a[i] # P /\ a[i] # C
        BY Zenon, <1>2, <1>9, <2>3, <3>1, <1>a DEF ArrayOK
      <3>3. (a[i] = (IF h.left[P] = C THEN h.right[P] ELSE h.left[P])) <=> (i \div 2 = p)
        <4>1. (i \div 2 = p) <=> (i = 2 * p \/ i = 2 * p + 1)
          BY <1>2, <3>1, Half
        <4>2. \A j \in Nat : a[i] = a[j] <=> i = j
          BY Zenon, <1>a DEF ArrayOK
        <4> QED BY Zenon, <1>2, <1>4, <1>10, <2>3, <4>1, <4>2
      <3>4. (a[i] = h.left[C] \/ a[i] = h.right[C]) <=> (i \div 2 = c)
        <4>1. (i \div 2 = c) <=> (i = 2 * c \/ i = 2 * c + 1)
          BY <1>2, <3>1, Half
        <4>2. \A j \in Nat : a[i] = a[j] <=> i = j
          BY Zenon, <1>a DEF ArrayOK
        <4> QED BY Zenon, <1>2, <1>4, <4>1, <4>2
      <3>5. g.parent[a[i]] = IF i \div 2 = p THEN C ELSE IF i \div 2 = c THEN P ELSE a[i \div 2]
        <4>1. h.parent[a[i]] = a[i \div 2]
          BY Zenon, <1>1 DEF Up
        <4> QED BY Zenon, <1>7, <3>2, <3>3, <3>4, <4>1 DEF IsSwap
      <3> QED BY Zenon, <1>2, <1>9, <3>1, <3>2, <3>5
    <2> QED BY Zenon, <2>1, <2>2, <2>3
  <1>14. ASSUME NEW t \in Timers, \A i \in 1..n : b[i] # t
         PROVE  g.left[t] = Null /\ g.right[t] = Null /\ g.parent[t] = Null
    <2>1. \A i \in 1..n : a[i] # t
      <3>1. \A i \in 1..n : \E j \in 1..n : a[i] = b[j]
        BY <1>9
      <3> QED BY Zenon, <1>14, <3>1
    <2>2. \A i \in Nat : a[i] # t
      BY Zenon, <2>1, <1>a DEF ArrayOK
    <2>3. h.left[t] = Null /\ h.right[t] = Null /\ h.parent[t] = Null
      BY Zenon, <1>1, <2>1 DEF Out
    <2>4. /\ t # P /\ t # C /\ t # h.left[P] /\ t # h.right[P] /\ t # h.left[C] /\ t # h.right[C]
          /\ t # h.parent[P]
      BY <1>2, <1>4, <2>2
    <2> QED BY <1>7, <2>3, <2>4 DEF IsSwap
  <1>15. g \in HeapType /\ g.nelts = n
    BY Zenon, <1>7 DEF IsSwap
  <1>16. Shape(g, b)
    BY <1>9, <1>11, <1>12, <1>13, <1>14, <1>15 DEF Shape, Down, Up, Out
  <1> QED BY Zenon, <1>6, <1>8, <1>15, <1>16


\* The places are as many as the nodes, and no more than the timers.
LEMMA ArraySize ==
    ASSUME NEW a, NEW n, IsArray(a, n)
    PROVE  /\ Cardinality({a[i] : i \in 1..n}) = n
           /\ n <= Cardinality(Timers) /\ Cardinality(Timers) \in Nat
  <1> DEFINE f == [i \in 1..n |-> a[i]]
             S == {a[i] : i \in 1..n}
  <1>1. n \in Nat /\ \A i \in 1..n : a[i] \in Timers
    BY ArrayFacts DEF ArrayOK, IsArray
  <1>2. f \in Injection(1..n, S) /\ f \in Surjection(1..n, S)
    BY DEF Injection, Surjection, IsArray, IsInjective
  <1>3. ExistsBijection(1..n, S)
    BY <1>2 DEF ExistsBijection, Bijection
  <1>4. Cardinality(S) = n
    BY <1>1, <1>3, FS_CountingElements
  <1>5. S \in SUBSET Timers
    BY <1>1
  <1>6. Cardinality(S) <= Cardinality(Timers)
    BY Zenon, <1>5, FS_Subset, HeapAssumption
  <1>7. Cardinality(Timers) \in Nat
    BY Zenon, FS_CardinalityType, HeapAssumption
  <1> QED BY Zenon, <1>4, <1>6, <1>7

\* The walk from the root along the bits of n ends at place n.
LEMMA NodeAtIs ==
    ASSUME NEW h, NEW a, NEW m, IsArray(a, m), Down(h, a, m)
    PROVE  \A i \in 1..Cardinality(Timers) : NodeAt(h)[i] = a[i]
  <1> DEFINE N == Cardinality(Timers)
             g == NodeAt(h)
             f == [i \in 1..N |-> a[i]]
             S == {i \in 1..N : g[i] = a[i]}
  <1>1. N \in Nat /\ m \in Nat
    BY Zenon, ArraySize DEF IsArray
  <1>a. ArrayOK(a, m)
    BY Zenon, ArrayFacts
  <1>2. ASSUME NEW i \in 1..N, i # 1
        PROVE  /\ i \div 2 \in 1..i - 1 /\ i \div 2 \in 1..N /\ i \div 2 \in Nat /\ i \in Nat
               /\ i % 2 = 1 => i = 2 * (i \div 2) + 1
               /\ i % 2 # 1 => i = 2 * (i \div 2)
               /\ i \in 1..m => i \div 2 \in 1..m
    BY <1>1, <1>2, Half
  <1>3. ASSUME NEW i \in 1..N, i # 1
        PROVE  a[i] = IF a[i \div 2] = Null THEN Null
                      ELSE IF i % 2 = 1 THEN h.right[a[i \div 2]] ELSE h.left[a[i \div 2]]
    <2>1. CASE i \div 2 \in 1..m
      BY Zenon, <1>a, <1>2, <1>3, <2>1 DEF ArrayOK, Down
    <2>2. CASE i \div 2 \notin 1..m
      BY Zenon, <1>a, <1>2, <1>3, <2>2 DEF ArrayOK
    <2> QED BY Zenon, <2>1, <2>2
  <1>4. f = [i \in 1..N |-> IF i = 1 THEN h.min
                ELSE IF f[i \div 2] = Null THEN Null
                ELSE IF i % 2 = 1 THEN h.right[f[i \div 2]] ELSE h.left[f[i \div 2]]]
    <2>1. ASSUME NEW i \in 1..N
          PROVE  f[i] = IF i = 1 THEN h.min
                        ELSE IF f[i \div 2] = Null THEN Null
                        ELSE IF i % 2 = 1 THEN h.right[f[i \div 2]] ELSE h.left[f[i \div 2]]
      <3>1. CASE i = 1
        BY Zenon, <3>1 DEF Down
      <3>2. CASE i # 1
        <4>1. f[i] = a[i] /\ f[i \div 2] = a[i \div 2]
          BY Zenon, <1>2, <3>2
        <4> HIDE DEF f
        <4> QED BY Zenon, <1>3, <3>2, <4>1
      <3> QED BY Zenon, <3>1, <3>2
    <2> QED BY Zenon, <2>1
  <1>5. g = [i \in 1..N |-> IF i = 1 THEN h.min
                ELSE IF g[i \div 2] = Null THEN Null
                ELSE IF i % 2 = 1 THEN h.right[g[i \div 2]] ELSE h.left[g[i \div 2]]]
    <2> HIDE DEF f
    <2> QED BY Zenon, <1>4 DEF NodeAt
  <1> HIDE DEF g
  <1>6. ASSUME NEW i \in 1..N, \A j \in 1..i - 1 : j \in S PROVE i \in S
    <2>1. g[i] = IF i = 1 THEN h.min
                 ELSE IF g[i \div 2] = Null THEN Null
                 ELSE IF i % 2 = 1 THEN h.right[g[i \div 2]] ELSE h.left[g[i \div 2]]
      BY Zenon, <1>5
    <2>2. CASE i = 1
      BY Zenon, <2>1, <2>2 DEF Down
    <2>3. CASE i # 1
      <3>1. g[i \div 2] = a[i \div 2]
        BY Zenon, <1>2, <1>6, <2>3
      <3> QED BY <1>3, <2>1, <2>3, <3>1
    <2> QED BY Zenon, <2>2, <2>3
  <1>7. \A i \in 1..N : i \in S
    <2> HIDE DEF S
    <2> QED BY Zenon, <1>1, <1>6, Induction
  <1> QED BY Zenon, <1>7 DEF g

\* What SetPlace leaves in each link.
IsSetPlace(g, h, a, m, n, x) ==
    /\ g \in HeapType /\ g.nelts = h.nelts /\ g.parent = h.parent
    /\ g.min = IF n = 1 THEN x ELSE a[1]
    /\ \A i \in 1..m : /\ g.left[a[i]] = IF 2 * i = n THEN x ELSE a[2 * i]
                       /\ g.right[a[i]] = IF 2 * i + 1 = n THEN x ELSE a[2 * i + 1]
    /\ \A t \in Timers : (\A i \in 1..m : a[i] # t) =>
                             g.left[t] = h.left[t] /\ g.right[t] = h.right[t]

LEMMA SetPlaceIs ==
    ASSUME NEW h \in HeapType, NEW a, NEW m, IsArray(a, m), Down(h, a, m),
           NEW n \in 1..m + 1, NEW x \in Timers \cup {Null}
    PROVE  IsSetPlace(SetPlace(h, n, x), h, a, m, n, x)
  <1> DEFINE p == n \div 2
             g == SetPlace(h, n, x)
  <1>1. m \in Nat /\ n \in Nat /\ Null \notin Timers
    BY HeapAssumption DEF IsArray
  <1>a. ArrayOK(a, m)
    BY Zenon, ArrayFacts
  <1>2. \A i \in 1..m : i \in Nat /\ 2 * i # 1 /\ 2 * i + 1 # 1 /\ 2 * i \in Nat /\ 2 * i + 1 \in Nat
    BY <1>1
  <1>3. CASE n = 1
    <2>1. g = [h EXCEPT !.min = x]
      BY <1>3 DEF SetPlace
    <2>2. /\ g \in HeapType /\ g.nelts = h.nelts /\ g.parent = h.parent /\ g.min = x
          /\ g.left = h.left /\ g.right = h.right
      BY <2>1 DEF HeapType
    <2> QED BY Zenon, <1>2, <1>3, <2>2 DEF IsSetPlace, Down
  <1>4. CASE n # 1
    <2>1. p \in 1..m /\ p \in 1..Cardinality(Timers) /\ p \in Nat
      <3>1. m <= Cardinality(Timers) /\ Cardinality(Timers) \in Nat
        BY Zenon, ArraySize
      <3>2. p \in Nat /\ p < n /\ p >= 1
        BY <1>1, <1>4, Half
      <3> QED BY <1>1, <3>1, <3>2
    <2>2. NodeAt(h)[p] = a[p] /\ a[p] \in Timers
      <3>1. \A i \in 1..Cardinality(Timers) : NodeAt(h)[i] = a[i]
        BY Zenon, NodeAtIs
      <3> QED BY Zenon, <1>a, <2>1, <3>1 DEF ArrayOK
    <2>3. \A i \in 1..m : (a[i] = a[p]) <=> (i = p)
      BY Zenon, <1>a, <2>1 DEF ArrayOK
    <2>4. CASE n % 2 = 1
      <3>1. n = 2 * p + 1 /\ \A i \in 1..m : 2 * i # n /\ ((2 * i + 1 = n) <=> (i = p))
        BY <1>1, <2>1, <2>4, Half
      <3>2. g = [h EXCEPT !.right[a[p]] = x]
        BY <1>4, <2>2, <2>4 DEF SetPlace
      <3>3. /\ g \in HeapType /\ g.nelts = h.nelts /\ g.parent = h.parent /\ g.min = h.min
            /\ g.left = h.left
            /\ \A t \in Timers : g.right[t] = IF t = a[p] THEN x ELSE h.right[t]
        BY <2>2, <3>2 DEF HeapType
      <3> HIDE DEF g, p
      <3>4. ASSUME NEW i \in 1..m
            PROVE  /\ g.left[a[i]] = IF 2 * i = n THEN x ELSE a[2 * i]
                   /\ g.right[a[i]] = IF 2 * i + 1 = n THEN x ELSE a[2 * i + 1]
        <4>1. h.left[a[i]] = a[2 * i] /\ h.right[a[i]] = a[2 * i + 1] /\ a[i] \in Timers
          BY Zenon, <1>a DEF Down, ArrayOK
        <4> QED BY <2>3, <3>1, <3>3, <4>1
      <3>5. \A t \in Timers : (\A i \in 1..m : a[i] # t) =>
                g.left[t] = h.left[t] /\ g.right[t] = h.right[t]
        BY Zenon, <2>1, <3>3
      <3>6. g.min = IF n = 1 THEN x ELSE a[1]
        BY Zenon, <1>4, <3>3 DEF Down
      <3> QED BY <3>3, <3>4, <3>5, <3>6 DEF IsSetPlace, g
    <2>5. CASE n % 2 # 1
      <3>1. n = 2 * p /\ \A i \in 1..m : 2 * i + 1 # n /\ ((2 * i = n) <=> (i = p))
        BY <1>1, <2>1, <2>5, Half
      <3>2. g = [h EXCEPT !.left[a[p]] = x]
        BY <1>4, <2>2, <2>5 DEF SetPlace
      <3>3. /\ g \in HeapType /\ g.nelts = h.nelts /\ g.parent = h.parent /\ g.min = h.min
            /\ g.right = h.right
            /\ \A t \in Timers : g.left[t] = IF t = a[p] THEN x ELSE h.left[t]
        BY <2>2, <3>2 DEF HeapType
      <3> HIDE DEF g, p
      <3>4. ASSUME NEW i \in 1..m
            PROVE  /\ g.left[a[i]] = IF 2 * i = n THEN x ELSE a[2 * i]
                   /\ g.right[a[i]] = IF 2 * i + 1 = n THEN x ELSE a[2 * i + 1]
        <4>1. h.left[a[i]] = a[2 * i] /\ h.right[a[i]] = a[2 * i + 1] /\ a[i] \in Timers
          BY Zenon, <1>a DEF Down, ArrayOK
        <4> QED BY <2>3, <3>1, <3>3, <4>1
      <3>5. \A t \in Timers : (\A i \in 1..m : a[i] # t) =>
                g.left[t] = h.left[t] /\ g.right[t] = h.right[t]
        BY Zenon, <2>1, <3>3
      <3>6. g.min = IF n = 1 THEN x ELSE a[1]
        BY Zenon, <1>4, <3>3 DEF Down
      <3> QED BY Zenon, <3>3, <3>4, <3>5, <3>6 DEF IsSetPlace, g
    <2> QED BY Zenon, <2>4, <2>5
  <1> QED BY Zenon, <1>3, <1>4


\* heap_insert, before the node moves up.
Inserted(h, t) ==
    LET n == h.nelts + 1
    IN  SetPlace([h EXCEPT !.nelts = n,
                           !.parent[t] = IF n = 1 THEN Null ELSE NodeAt(h)[n \div 2]], n, t)

LEMMA InsertShape ==
    ASSUME NEW h, NEW a, Shape(h, a), NEW t \in Timers, \A i \in 1..h.nelts : a[i] # t
    PROVE  /\ Shape(Inserted(h, t), [a EXCEPT ![h.nelts + 1] = t])
           /\ Inserted(h, t).nelts = h.nelts + 1
  <1> DEFINE m == h.nelts
             n == m + 1
             up == IF n = 1 THEN Null ELSE NodeAt(h)[n \div 2]
  <1>1. h \in HeapType /\ IsArray(a, m) /\ Down(h, a, m) /\ Up(h, a, m) /\ Out(h, a, m)
    BY Zenon DEF Shape
  <1>a. ArrayOK(a, m)
    BY <1>1, ArrayFacts
  <1>2. m \in Nat /\ n \in Nat /\ n \in 1..m + 1 /\ n \div 2 \in Nat /\ 1 \in Nat /\ 2 * n \in Nat
        /\ 2 * n + 1 \in Nat
    BY <1>1, Half DEF IsArray
  <1>3. up = a[n \div 2] /\ up \in Timers \cup {Null}
    <2>1. CASE n = 1
      <3>1. n \div 2 = 0
        BY <2>1
      <3> QED BY <1>a, <2>1, <3>1 DEF ArrayOK
    <2>2. CASE n # 1
      <3>1. m <= Cardinality(Timers) /\ Cardinality(Timers) \in Nat
        BY Zenon, <1>1, ArraySize
      <3>2. n \div 2 \in Nat /\ n \div 2 < n /\ n \div 2 >= 1
        BY <1>2, <2>2, Half
      <3>3. n \div 2 \in 1..Cardinality(Timers)
        BY <1>2, <3>1, <3>2
      <3>4. \A i \in 1..Cardinality(Timers) : NodeAt(h)[i] = a[i]
        BY Zenon, <1>1, NodeAtIs
      <3> QED BY Zenon, <1>a, <1>2, <2>2, <3>3, <3>4 DEF ArrayOK
    <2> QED BY <2>1, <2>2
  <1> HIDE DEF up
  <1>4. PICK l : l = [h EXCEPT !.nelts = n, !.parent[t] = up]
    OBVIOUS
  <1>5. /\ l \in HeapType /\ l.nelts = n /\ l.min = h.min /\ l.left = h.left /\ l.right = h.right
        /\ \A s \in Timers : l.parent[s] = IF s = t THEN a[n \div 2] ELSE h.parent[s]
    BY Zenon, <1>1, <1>2, <1>3, <1>4 DEF HeapType
  <1>6. Down(l, a, m)
    BY Zenon, <1>1, <1>5 DEF Down
  <1>7. PICK g : g = SetPlace(l, n, t)
    OBVIOUS
  <1>8. Inserted(h, t) = g
    BY Zenon, <1>4, <1>7 DEF Inserted, up
  <1>9. t \in Timers \cup {Null}
    OBVIOUS
  <1>10. IsSetPlace(g, l, a, m, n, t)
    BY Zenon, <1>1, <1>2, <1>5, <1>6, <1>7, <1>9, SetPlaceIs
  <1>11. PICK b : b = [a EXCEPT ![n] = t]
    BY Zenon
  <1>12. b[n] = t /\ (\A i \in Nat : b[i] = IF i = n THEN t ELSE a[i]) /\ b \in [Nat -> Timers \cup {Null}]
    BY <1>1, <1>2, <1>11 DEF IsArray
  <1>13. \A i \in 1..n : i \in Nat /\ (i = n \/ (i # n /\ i \in 1..m))
    BY <1>2
  <1>14. IsArray(b, n)
    <2>1. \A i \in Nat : i \in 1..n <=> i \in 1..m \/ i = n
      BY <1>2
    <2>2. \A i \in Nat : b[i] \in Timers <=> i \in 1..n
      BY Zenon, <1>1, <1>12, <2>1 DEF IsArray
    <2>3. \A i, j \in 1..n : b[i] = b[j] => i = j
      BY Zenon, <1>1, <1>12, <1>13 DEF IsArray
    <2> QED BY Zenon, <1>2, <1>12, <2>2, <2>3 DEF IsArray
  <1>15. g.min = b[1]
    BY <1>2, <1>10, <1>12 DEF IsSetPlace
  <1>16. h.left[t] = Null /\ h.right[t] = Null
    BY Zenon, <1>1 DEF Out
  <1>17. ASSUME NEW i \in 1..n PROVE g.left[b[i]] = b[2 * i] /\ g.right[b[i]] = b[2 * i + 1]
    <2>1. CASE i \in 1..m /\ i # n
      <3>1. i \in Nat /\ 2 * i \in Nat /\ 2 * i + 1 \in Nat
        BY <1>2
      <3> QED BY <1>10, <1>12, <2>1, <3>1 DEF IsSetPlace
    <2>2. CASE i = n
      <3>1. 2 * n \notin 1..m /\ 2 * n + 1 \notin 1..m /\ 2 * n # n /\ 2 * n + 1 # n
        BY <1>2
      <3>2. b[2 * n] = Null /\ b[2 * n + 1] = Null
        BY Zenon, <1>a, <1>2, <1>12, <3>1 DEF ArrayOK
      <3>3. g.left[t] = Null /\ g.right[t] = Null
        BY Zenon, <1>5, <1>10, <1>16 DEF IsSetPlace
      <3> QED BY Zenon, <1>12, <2>2, <3>2, <3>3
    <2> QED BY Zenon, <1>13, <2>1, <2>2
  <1>18. ASSUME NEW i \in 1..n PROVE g.parent[b[i]] = b[i \div 2]
    <2>1. i \in Nat /\ i \div 2 \in Nat /\ i \div 2 # n
      BY <1>2, Half
    <2>2. g.parent = l.parent
      BY Zenon, <1>10 DEF IsSetPlace
    <2>3. CASE i \in 1..m /\ i # n
      <3>1. a[i] \in Timers /\ a[i] # t /\ h.parent[a[i]] = a[i \div 2]
        BY Zenon, <1>a, <1>1, <2>3 DEF ArrayOK, Up
      <3> QED BY Zenon, <1>5, <1>12, <2>1, <2>2, <2>3, <3>1
    <2>4. CASE i = n
      BY Zenon, <1>5, <1>12, <2>1, <2>2, <2>4
    <2> QED BY Zenon, <1>13, <2>3, <2>4
  <1>19. ASSUME NEW s \in Timers, \A i \in 1..n : b[i] # s
         PROVE  g.left[s] = Null /\ g.right[s] = Null /\ g.parent[s] = Null
    <2>1. n \in 1..n /\ \A i \in 1..m : i \in 1..n /\ i \in Nat /\ i # n
      BY <1>2
    <2>2. s # t /\ \A i \in 1..m : a[i] # s
      BY Zenon, <1>12, <1>19, <2>1
    <2>3. h.left[s] = Null /\ h.right[s] = Null /\ h.parent[s] = Null
      BY Zenon, <1>1, <2>2 DEF Out
    <2> QED BY <1>5, <1>10, <2>2, <2>3 DEF IsSetPlace
  <1>20. g \in HeapType /\ g.nelts = n
    BY Zenon, <1>5, <1>10 DEF IsSetPlace
  <1>21. Shape(g, b)
    BY Zenon, <1>14, <1>15, <1>17, <1>18, <1>19, <1>20 DEF Shape, Down, Up, Out
  <1> QED BY <1>8, <1>11, <1>20, <1>21


\* heap_remove, up to where the last node takes the place of the removed one.
Unlinked(h) == [SetPlace(h, h.nelts, Null) EXCEPT !.nelts = @ - 1]

IsUnlinked(u, h, a) ==
    LET m == h.nelts IN
    /\ u \in HeapType /\ u.nelts = m - 1 /\ u.parent = h.parent
    /\ u.min = IF m = 1 THEN Null ELSE a[1]
    /\ \A i \in 1..m : /\ u.left[a[i]] = IF 2 * i = m THEN Null ELSE a[2 * i]
                       /\ u.right[a[i]] = IF 2 * i + 1 = m THEN Null ELSE a[2 * i + 1]
    /\ \A t \in Timers : (\A i \in 1..m : a[i] # t) => u.left[t] = Null /\ u.right[t] = Null

LEMMA UnlinkedIs ==
    ASSUME NEW h, NEW a, Shape(h, a), h.nelts # 0
    PROVE  /\ IsUnlinked(Unlinked(h), h, a)
           /\ NodeAt(h)[h.nelts] = a[h.nelts]
  <1> DEFINE m == h.nelts
  <1>1. h \in HeapType /\ IsArray(a, m) /\ Down(h, a, m) /\ Out(h, a, m)
    BY Zenon DEF Shape
  <1>2. m \in Nat /\ m \in 1..m + 1 /\ Null \in Timers \cup {Null} /\ m - 1 \in Nat
    BY <1>1 DEF IsArray
  <1>3. PICK g : g = SetPlace(h, m, Null)
    OBVIOUS
  <1>4. IsSetPlace(g, h, a, m, m, Null)
    BY <1>1, <1>2, <1>3, SetPlaceIs
  <1>5. PICK u : u = [g EXCEPT !.nelts = @ - 1]
    BY Zenon
  <1>6. g \in HeapType /\ g.nelts = m /\ g.parent = h.parent
    BY Zenon, <1>4 DEF IsSetPlace
  <1>7. /\ u \in HeapType /\ u.nelts = m - 1 /\ u.parent = h.parent
        /\ u.min = g.min /\ u.left = g.left /\ u.right = g.right
    BY <1>2, <1>5, <1>6 DEF HeapType
  <1>8. ASSUME NEW t \in Timers, \A i \in 1..m : a[i] # t PROVE u.left[t] = Null /\ u.right[t] = Null
    BY Zenon, <1>1, <1>4, <1>7, <1>8 DEF Out, IsSetPlace
  <1>9. IsUnlinked(u, h, a)
    BY Zenon, <1>4, <1>7, <1>8 DEF IsUnlinked, IsSetPlace
  <1>10. Unlinked(h) = u
    BY Zenon, <1>3, <1>5 DEF Unlinked
  <1>11. NodeAt(h)[m] = a[m]
    <2>1. m <= Cardinality(Timers) /\ Cardinality(Timers) \in Nat
      BY Zenon, <1>1, ArraySize
    <2>2. m \in 1..Cardinality(Timers)
      BY SMTT(20), <1>2, <2>1
    <2>3. \A i \in 1..Cardinality(Timers) : NodeAt(h)[i] = a[i]
      BY SMTT(20), <1>1, NodeAtIs
    <2> QED BY Zenon, <2>2, <2>3
  <1> QED BY Zenon, <1>9, <1>10, <1>11

\* What Replace leaves in each link.
IsReplace(g, h, p, c) ==
    /\ g \in HeapType /\ g.nelts = h.nelts
    /\ g.min = IF h.parent[p] = Null THEN c ELSE h.min
    /\ \A t \in Timers :
         /\ g.left[t] = IF t = p THEN Null ELSE IF t = c THEN h.left[p]
                        ELSE IF t = h.parent[p] /\ h.left[t] = p THEN c ELSE h.left[t]
         /\ g.right[t] = IF t = p THEN Null ELSE IF t = c THEN h.right[p]
                         ELSE IF t = h.parent[p] /\ h.left[t] # p THEN c ELSE h.right[t]
         /\ g.parent[t] = IF t = c THEN h.parent[p] ELSE IF t = p THEN Null
                          ELSE IF t = h.left[p] \/ t = h.right[p] THEN c ELSE h.parent[t]

LEMMA ReplaceIs ==
    ASSUME NEW h \in HeapType, NEW p \in Timers, NEW c \in Timers, p # c,
           h.parent[p] # p, h.parent[p] # c
    PROVE  IsReplace(Replace(h, p, c), h, p, c)
  <1> DEFINE links == [h EXCEPT
            !.left = [@ EXCEPT ![c] = h.left[p], ![p] = Null],
            !.right = [@ EXCEPT ![c] = h.right[p], ![p] = Null],
            !.parent = [n \in Timers |-> IF n = c THEN h.parent[p]
                            ELSE IF n = p THEN Null
                            ELSE IF n \in {h.left[p], h.right[p]} THEN c ELSE @[n]]]
  <1>1. h.parent[p] \in Timers \cup {Null} /\ c \in Timers \cup {Null}
    BY Zenon DEF HeapType
  <1>2. /\ links \in HeapType /\ links.nelts = h.nelts /\ links.min = h.min
        /\ \A t \in Timers :
             /\ links.left[t] = IF t = p THEN Null ELSE IF t = c THEN h.left[p] ELSE h.left[t]
             /\ links.right[t] = IF t = p THEN Null ELSE IF t = c THEN h.right[p] ELSE h.right[t]
             /\ links.parent[t] = IF t = c THEN h.parent[p] ELSE IF t = p THEN Null
                          ELSE IF t = h.left[p] \/ t = h.right[p] THEN c ELSE h.parent[t]
    BY Zenon DEF HeapType
  <1>3. Replace(h, p, c) = SetChild(links, h.parent[p], p, c)
    BY Zenon DEF Replace
  <1> HIDE DEF links
  <1>4. IsSetChild(Replace(h, p, c), links, h.parent[p], p, c)
    <2>1. IsSetChild(SetChild(links, h.parent[p], p, c), links, h.parent[p], p, c)
      BY Zenon, <1>1, <1>2, SetChildIs
    <2> QED BY Zenon, <1>3, <2>1
  <1> QED BY <1>2, <1>4 DEF IsReplace, IsSetChild

\* The last node is the one that is removed.
LEMMA RemoveLastShape ==
    ASSUME NEW h, NEW a, Shape(h, a), h.nelts # 0
    PROVE  LET g == [Unlinked(h) EXCEPT !.parent[a[h.nelts]] = Null]
           IN  Shape(g, [a EXCEPT ![h.nelts] = Null]) /\ g.nelts = h.nelts - 1
  <1> DEFINE m == h.nelts
             n == m - 1
  <1>1. h \in HeapType /\ IsArray(a, m) /\ Down(h, a, m) /\ Up(h, a, m) /\ Out(h, a, m)
    BY Zenon DEF Shape
  <1>a. ArrayOK(a, m)
    BY Zenon, <1>1, ArrayFacts
  <1>2. m \in Nat /\ n \in Nat /\ m \in 1..m /\ Null \in Timers \cup {Null} /\ 1 \in Nat
        /\ \A i \in 1..n : i \in 1..m /\ i # m /\ i \in Nat /\ i \div 2 \in Nat /\ i \div 2 # m
                           /\ 2 * i \in Nat /\ 2 * i + 1 \in Nat
    BY <1>1, Half DEF IsArray
  <1>3. PICK u : u = Unlinked(h)
    OBVIOUS
  <1>4. IsUnlinked(u, h, a)
    BY Zenon, <1>3, UnlinkedIs
  <1>5. PICK g : g = [u EXCEPT !.parent[a[m]] = Null]
    BY Zenon
  <1>6. /\ u \in HeapType /\ u.nelts = n /\ u.parent = h.parent
        /\ u.min = IF m = 1 THEN Null ELSE a[1]
    BY Zenon, <1>4 DEF IsUnlinked
  <1>7. /\ g \in HeapType /\ g.nelts = n /\ g.min = u.min /\ g.left = u.left /\ g.right = u.right
        /\ \A t \in Timers : g.parent[t] = IF t = a[m] THEN Null ELSE h.parent[t]
    BY <1>a, <1>2, <1>5, <1>6 DEF HeapType, ArrayOK
  <1>8. PICK b : b = [a EXCEPT ![m] = Null]
    BY Zenon
  <1>9. b[m] = Null /\ (\A i \in Nat : b[i] = IF i = m THEN Null ELSE a[i]) /\ b \in [Nat -> Timers \cup {Null}]
    BY <1>1, <1>2, <1>8 DEF IsArray
  <1>10. IsArray(b, n)
    <2>1. \A i \in Nat : i \in 1..n <=> i \in 1..m /\ i # m
      BY <1>2
    <2>2. \A i \in Nat : b[i] \in Timers <=> i \in 1..n
      BY Zenon, <1>a, <1>1, <1>9, <2>1 DEF IsArray, ArrayOK
    <2>3. \A i, j \in 1..n : b[i] = b[j] => i = j
      BY Zenon, <1>1, <1>2, <1>9 DEF IsArray
    <2> QED BY Zenon, <1>2, <1>9, <2>2, <2>3 DEF IsArray
  <1>11. g.min = b[1]
    BY Zenon, <1>2, <1>6, <1>7, <1>9
  <1>12. ASSUME NEW i \in 1..n PROVE g.left[b[i]] = b[2 * i] /\ g.right[b[i]] = b[2 * i + 1]
    <2>1. /\ g.left[a[i]] = IF 2 * i = m THEN Null ELSE a[2 * i]
          /\ g.right[a[i]] = IF 2 * i + 1 = m THEN Null ELSE a[2 * i + 1]
      BY <1>2, <1>4, <1>7 DEF IsUnlinked
    <2>2. /\ b[i] = a[i]
          /\ b[2 * i] = IF 2 * i = m THEN Null ELSE a[2 * i]
          /\ b[2 * i + 1] = IF 2 * i + 1 = m THEN Null ELSE a[2 * i + 1]
      BY Zenon, <1>2, <1>9
    <2> QED BY Zenon, <2>1, <2>2
  <1>13. ASSUME NEW i \in 1..n PROVE g.parent[b[i]] = b[i \div 2]
    <2>1. a[i] \in Timers /\ a[i] # a[m] /\ h.parent[a[i]] = a[i \div 2]
      BY Zenon, <1>a, <1>1, <1>2 DEF ArrayOK, Up
    <2> QED BY <1>2, <1>7, <1>9, <2>1
  <1>14. ASSUME NEW s \in Timers, \A i \in 1..n : b[i] # s
         PROVE  g.left[s] = Null /\ g.right[s] = Null /\ g.parent[s] = Null
    <2>1. CASE s = a[m]
      <3>1. 2 * m \in Nat /\ 2 * m + 1 \in Nat /\ 2 * m \notin 1..m /\ 2 * m + 1 \notin 1..m
        BY <1>2
      <3>2. a[2 * m] = Null /\ a[2 * m + 1] = Null
        BY Zenon, <1>a, <3>1 DEF ArrayOK
      <3> QED BY <1>2, <1>4, <1>7, <2>1, <3>2 DEF IsUnlinked
    <2>2. CASE s # a[m]
      <3>1. \A i \in 1..m : i = m \/ i \in 1..n
        BY <1>2
      <3>2. \A i \in 1..m : a[i] # s
        BY Zenon, <1>2, <1>9, <1>14, <2>2, <3>1
      <3>3. h.parent[s] = Null
        BY Zenon, <1>1, <3>2 DEF Out
      <3> QED BY Zenon, <1>4, <1>7, <2>2, <3>2, <3>3 DEF IsUnlinked
    <2> QED BY Zenon, <2>1, <2>2
  <1>15. Shape(g, b)
    BY Zenon, <1>7, <1>10, <1>11, <1>12, <1>13, <1>14 DEF Shape, Down, Up, Out
  <1> QED BY Zenon, <1>3, <1>5, <1>7, <1>8, <1>15

\* The last node takes the place of another one.
LEMMA ReplaceShape ==
    ASSUME NEW h, NEW a, Shape(h, a), NEW k \in 1..h.nelts, k # h.nelts
    PROVE  LET g == Replace(Unlinked(h), a[k], a[h.nelts])
           IN  Shape(g, [a EXCEPT ![h.nelts] = Null, ![k] = a[h.nelts]]) /\ g.nelts = h.nelts - 1
  <1> DEFINE m == h.nelts
             n == m - 1
             P == a[k]
             C == a[m]
  <1>1. h \in HeapType /\ IsArray(a, m) /\ Down(h, a, m) /\ Up(h, a, m) /\ Out(h, a, m)
    BY Zenon DEF Shape
  <1>a. ArrayOK(a, m)
    BY Zenon, <1>1, ArrayFacts
  <1>2. m \in Nat /\ n \in Nat /\ m \in 1..m /\ Null \in Timers \cup {Null} /\ 1 \in Nat /\ m # 0
        /\ m # 1 /\ k \in Nat /\ k \in 1..n /\ k \div 2 \in Nat /\ k \div 2 # k /\ k \div 2 # m
        /\ 2 * k \in Nat /\ 2 * k + 1 \in Nat /\ 2 * k # k /\ 2 * k + 1 # k
        /\ \A i \in 1..n : i \in 1..m /\ i # m /\ i \in Nat /\ i \div 2 \in Nat /\ i \div 2 # m
                           /\ 2 * i \in Nat /\ 2 * i + 1 \in Nat /\ 2 * i # 2 * i + 1
    BY <1>1, Half DEF IsArray
  <1>3. PICK u : u = Unlinked(h)
    OBVIOUS
  <1>4. IsUnlinked(u, h, a)
    BY Zenon, <1>2, <1>3, UnlinkedIs
  <1>5. /\ u \in HeapType /\ u.nelts = n /\ u.parent = h.parent /\ u.min = a[1]
    BY Zenon, <1>2, <1>4 DEF IsUnlinked
  <1>6. P \in Timers /\ C \in Timers /\ P # C
    BY Zenon, <1>a, <1>2 DEF ArrayOK
  <1>7. u.parent[P] = a[k \div 2]
    BY Zenon, <1>1, <1>5 DEF Up
  <1>8. u.parent[P] # P /\ u.parent[P] # C
    BY Zenon, <1>a, <1>2, <1>7 DEF ArrayOK
  <1>9. PICK g : g = Replace(u, P, C)
    OBVIOUS
  <1>10. IsReplace(g, u, P, C)
    BY Zenon, <1>5, <1>6, <1>8, <1>9, ReplaceIs
  <1>11. PICK b : b = [a EXCEPT ![m] = Null, ![k] = C]
    BY Zenon
  <1>12. /\ b[m] = Null /\ b[k] = C /\ b \in [Nat -> Timers \cup {Null}]
         /\ \A i \in Nat : b[i] = IF i = m THEN Null ELSE IF i = k THEN C ELSE a[i]
    BY <1>1, <1>2, <1>6, <1>11 DEF IsArray
  <1>13. IsArray(b, n)
    <2>1. \A i \in Nat : i \in 1..n <=> i \in 1..m /\ i # m
      BY <1>2
    <2>2. \A i \in Nat : b[i] \in Timers <=> i \in 1..n
      BY Zenon, <1>a, <1>1, <1>2, <1>6, <1>12, <2>1 DEF IsArray, ArrayOK
    <2>3. \A i, j \in 1..n : b[i] = b[j] => i = j
      <3>1. \A i \in 1..n : a[i] # C
        BY Zenon, <1>1, <1>2 DEF IsArray
      <3>2. \A i \in 1..n : b[i] = IF i = k THEN C ELSE a[i]
        BY Zenon, <1>2, <1>12
      <3>3. \A i, j \in 1..n : a[i] = a[j] => i = j
        BY Zenon, <1>1, <1>2 DEF IsArray
      <3> QED BY Zenon, <3>1, <3>2, <3>3
    <2> QED BY Zenon, <1>2, <1>12, <2>2, <2>3 DEF IsArray
  <1>14. g.min = b[1]
    <2>1. CASE k = 1
      <3>1. k \div 2 = 0
        BY <2>1
      <3> QED BY <1>a, <1>7, <1>10, <1>12, <2>1, <3>1 DEF IsReplace, ArrayOK
    <2>2. CASE k # 1
      <3>1. k \div 2 \in 1..m
        BY <1>2, <2>2, Half
      <3>2. u.parent[P] # Null
        BY Zenon, <1>a, <1>7, <3>1 DEF ArrayOK
      <3> QED BY Zenon, <1>2, <1>5, <1>10, <1>12, <2>2, <3>2 DEF IsReplace
    <2> QED BY Zenon, <2>1, <2>2
  <1>15. \A i \in 1..n : /\ u.left[a[i]] = IF 2 * i = m THEN Null ELSE a[2 * i]
                         /\ u.right[a[i]] = IF 2 * i + 1 = m THEN Null ELSE a[2 * i + 1]
    BY Zenon, <1>2, <1>4 DEF IsUnlinked
  <1>16. ASSUME NEW i \in 1..n PROVE g.left[b[i]] = b[2 * i] /\ g.right[b[i]] = b[2 * i + 1]
    <2>1. CASE i = k
      <3>1. g.left[C] = u.left[P] /\ g.right[C] = u.right[P]
        BY Zenon, <1>6, <1>10 DEF IsReplace
      <3> QED BY <1>2, <1>12, <1>15, <2>1, <3>1
    <2>2. CASE i # k
      <3>1. b[i] = a[i] /\ a[i] \in Timers /\ a[i] # P /\ a[i] # C
        BY Zenon, <1>a, <1>2, <1>12, <2>2 DEF ArrayOK
      <3>2. CASE i = k \div 2
        <4>1. k = 2 * i \/ k = 2 * i + 1
          BY <1>2, <3>2, Half
        <4>2. (u.left[a[i]] = P) <=> (k = 2 * i)
          <5>1. P # Null /\ k # m /\ 2 * i \in Nat /\ \A j \in Nat : a[j] = P <=> k = j
            BY Zenon, <1>a, <1>2 DEF ArrayOK
          <5>2. u.left[a[i]] = IF 2 * i = m THEN Null ELSE a[2 * i]
            BY Zenon, <1>15
          <5> QED BY Zenon, <5>1, <5>2
        <4>3. /\ g.left[a[i]] = IF k = 2 * i THEN C ELSE u.left[a[i]]
              /\ g.right[a[i]] = IF k = 2 * i THEN u.right[a[i]] ELSE C
          BY Zenon, <1>7, <1>10, <3>1, <3>2, <4>2 DEF IsReplace
        <4> QED BY SMTT(20), <1>2, <1>12, <1>15, <3>1, <4>1, <4>3
      <3>3. CASE i # k \div 2
        <4>1. 2 * i # k /\ 2 * i + 1 # k
          BY <1>2, <3>3, Half
        <4>2. a[i] # u.parent[P]
          BY Zenon, <1>a, <1>2, <1>7, <3>3 DEF ArrayOK
        <4>3. g.left[a[i]] = u.left[a[i]] /\ g.right[a[i]] = u.right[a[i]]
          BY Zenon, <1>10, <3>1, <4>2 DEF IsReplace
        <4> QED BY Zenon, <1>2, <1>12, <1>15, <3>1, <4>1, <4>3
      <3> QED BY Zenon, <3>2, <3>3
    <2> QED BY Zenon, <2>1, <2>2
  <1>17. ASSUME NEW i \in 1..n PROVE g.parent[b[i]] = b[i \div 2]
    <2>1. CASE i = k
      BY Zenon, <1>2, <1>6, <1>7, <1>10, <1>12, <2>1 DEF IsReplace
    <2>2. CASE i # k
      <3>1. b[i] = a[i] /\ a[i] \in Timers /\ a[i] # P /\ a[i] # C
        BY Zenon, <1>a, <1>2, <1>12, <2>2 DEF ArrayOK
      <3>2. (a[i] = u.left[P] \/ a[i] = u.right[P]) <=> (i \div 2 = k)
        <4>1. (i \div 2 = k) <=> (i = 2 * k \/ i = 2 * k + 1)
          BY <1>2, Half
        <4>2. (\A j \in Nat : a[i] = a[j] <=> i = j) /\ a[i] # Null /\ i # m
          BY Zenon, <1>a, <1>2 DEF ArrayOK
        <4> QED BY Zenon, <1>2, <1>15, <4>1, <4>2
      <3>3. g.parent[a[i]] = IF i \div 2 = k THEN C ELSE a[i \div 2]
        <4>1. u.parent[a[i]] = a[i \div 2]
          BY Zenon, <1>1, <1>2, <1>5 DEF Up
        <4>2. g.parent[a[i]] = IF a[i] = u.left[P] \/ a[i] = u.right[P] THEN C ELSE u.parent[a[i]]
          BY Zenon, <1>10, <3>1 DEF IsReplace
        <4> QED BY Zenon, <3>2, <4>1, <4>2
      <3> QED BY SMTT(20), <1>2, <1>12, <3>1, <3>3
    <2> QED BY Zenon, <2>1, <2>2
  <1>18. ASSUME NEW s \in Timers, \A i \in 1..n : b[i] # s
         PROVE  g.left[s] = Null /\ g.right[s] = Null /\ g.parent[s] = Null
    <2>1. s # C
      BY Zenon, <1>2, <1>12, <1>18
    <2>2. CASE s = P
      BY Zenon, <1>10, <2>1, <2>2 DEF IsReplace
    <2>3. CASE s # P
      <3>1. \A i \in 1..m : i = m \/ i \in 1..n
        BY <1>2
      <3>2. \A i \in 1..m : a[i] # s
        BY Zenon, <1>2, <1>12, <1>18, <2>1, <2>3, <3>1
      <3>3. h.parent[s] = Null /\ u.left[s] = Null /\ u.right[s] = Null
        BY Zenon, <1>1, <1>4, <3>2 DEF Out, IsUnlinked
      <3>4. \A i \in Nat : a[i] # s
        BY Zenon, <1>a, <3>2 DEF ArrayOK
      <3>5. s # u.left[P] /\ s # u.right[P] /\ s # u.parent[P]
        BY <1>a, <1>2, <1>7, <1>15, <3>4 DEF ArrayOK
      <3> QED BY SMTT(20), <1>5, <1>10, <2>1, <2>3, <3>3, <3>5 DEF IsReplace
    <2> QED BY Zenon, <2>2, <2>3
  <1>19. g \in HeapType /\ g.nelts = n
    BY Zenon, <1>5, <1>10 DEF IsReplace
  <1>20. Shape(g, b)
    BY Zenon, <1>13, <1>14, <1>16, <1>17, <1>18, <1>19 DEF Shape, Down, Up, Out
  <1> QED BY Zenon, <1>3, <1>9, <1>11, <1>19, <1>20


-----------------------------------------------------------------------------
(***************************************************************************)
(* The order.  While a node moves, its place and its neighbours' are the   *)
(* only ones out of order, and its children are below its parent.          *)
(***************************************************************************)
LessType == timeout \in [Timers -> Nat] /\ start_id \in [Timers -> Nat]

LEMMA LessTrans ==
    ASSUME LessType, NEW x \in Timers, NEW y \in Timers, NEW z \in Timers,
           LessThan(x, y), LessThan(y, z)
    PROVE  LessThan(x, z)
  BY DEF LessType, LessThan

LEMMA LessAsym ==
    ASSUME LessType, NEW x \in Timers, NEW y \in Timers, LessThan(x, y)
    PROVE  ~LessThan(y, x) /\ x # y
  BY DEF LessType, LessThan

LEMMA LessTotal ==
    ASSUME LessType, NEW x \in Timers, NEW y \in Timers, start_id[x] # start_id[y], ~LessThan(x, y)
    PROVE  LessThan(y, x)
  BY DEF LessType, LessThan

Ordered(a, n, S) == \A i \in 2..n : i \notin S => LessThan(a[i \div 2], a[i])

Below(a, n, k) == k >= 2 => \A i \in 2..n : i \div 2 = k => LessThan(a[k \div 2], a[i])

\* What a place is to the places p and c, where c is below p.
LEMMA Places ==
    ASSUME NEW n \in Nat, NEW c \in 2..n
    PROVE  /\ c \in Nat /\ c \in 1..n /\ c \div 2 \in Nat /\ c \div 2 \in 1..n /\ c \div 2 # c
           /\ c \div 2 >= 2 => c \div 2 \in 2..n
           /\ (c \div 2) \div 2 \in Nat /\ (c \div 2) \div 2 # c \div 2 /\ (c \div 2) \div 2 # c
           /\ c >= 2
           /\ \A i \in 2..n : /\ i \in Nat /\ i \in 1..n /\ i \div 2 \in Nat /\ i \div 2 \in 1..n
                              /\ i \div 2 # i
                              /\ i \div 2 = c => i # c \div 2 /\ i # c
                              /\ i \div 2 = c \div 2 => i # c \div 2
                              /\ i = c \div 2 => i \div 2 # c
  <1>1. c \in Nat /\ c >= 2 /\ c <= n
    OBVIOUS
  <1>2. c \div 2 \in Nat /\ c \div 2 < c /\ c \div 2 >= 1
    BY <1>1, Half
  <1>3. (c \div 2) \div 2 \in Nat /\ (c \div 2) \div 2 < c \div 2
    BY <1>2, Half
  <1>4. ASSUME NEW i \in 2..n
        PROVE  /\ i \in Nat /\ i \in 1..n /\ i \div 2 \in Nat /\ i \div 2 \in 1..n
               /\ i \div 2 # i
               /\ i \div 2 = c => i # c \div 2 /\ i # c
               /\ i \div 2 = c \div 2 => i # c \div 2
               /\ i = c \div 2 => i \div 2 # c
    <2>1. i \in Nat /\ i >= 2 /\ i <= n
      OBVIOUS
    <2>2. i \div 2 \in Nat /\ i \div 2 < i /\ i \div 2 >= 1
      BY <2>1, Half
    <2> QED BY <1>1, <1>2, <2>1, <2>2
  <1> QED BY <1>1, <1>2, <1>3, <1>4

LEMMA UpOrder ==
    ASSUME LessType, NEW a, NEW n, IsArray(a, n), NEW k \in 2..n,
           Ordered(a, n, {k}), Below(a, n, k), LessThan(a[k], a[k \div 2])
    PROVE  LET b == Exchange(a, k) IN Ordered(b, n, {k \div 2}) /\ Below(b, n, k \div 2)
  <1> DEFINE p == k \div 2
  <1>1. n \in Nat /\ ArrayOK(a, n)
    BY Zenon, ArrayFacts DEF IsArray
  <1>2. PICK b : b = Exchange(a, k)
    OBVIOUS
  <1>3. b[k] = a[p] /\ b[p] = a[k] /\ \A i \in Nat : i # k /\ i # p => b[i] = a[i]
    <2>1. IsExchange(b, a, n, k)
      BY Zenon, <1>2, ExchangeIs
    <2> QED BY Zenon, <2>1 DEF IsExchange
  <1>4. /\ k \in Nat /\ k \in 1..n /\ p \in Nat /\ p \in 1..n /\ p # k
        /\ p >= 2 => p \in 2..n
        /\ p \div 2 \in Nat /\ p \div 2 # p /\ p \div 2 # k /\ k >= 2
        /\ \A i \in 2..n : /\ i \in Nat /\ i \in 1..n /\ i \div 2 \in Nat /\ i \div 2 \in 1..n
                           /\ i \div 2 # i
                           /\ i \div 2 = k => i # p /\ i # k
                           /\ i \div 2 = p => i # p
                           /\ i = p => i \div 2 # k
    BY Zenon, <1>1, Places
  <1> HIDE DEF p
  <1>5. \A i \in 1..n : a[i] \in Timers
    BY Zenon, <1>1 DEF ArrayOK
  <1>6. \A i \in 2..n : i # k => LessThan(a[i \div 2], a[i])
    BY Zenon DEF Ordered
  <1>7. \A i \in 2..n : i \div 2 = k => LessThan(a[p], a[i])
    BY Zenon, <1>4 DEF Below, p
  <1>8. LessThan(a[k], a[p])
    BY Zenon DEF p
  <1>9. ASSUME NEW i \in 2..n, i # p PROVE LessThan(b[i \div 2], b[i])
    <2>1. CASE i = k
      <3>1. i \div 2 = p
        BY Zenon, <2>1 DEF p
      <3> QED BY Zenon, <1>3, <1>8, <2>1, <3>1
    <2>2. CASE i # k /\ i \div 2 = k
      BY Zenon, <1>3, <1>4, <1>7, <1>9, <2>2
    <2>3. CASE i # k /\ i \div 2 = p
      <3>1. LessThan(a[p], a[i])
        BY Zenon, <1>6, <2>3
      <3>2. LessThan(a[k], a[i])
        BY Zenon, <1>4, <1>5, <1>8, <3>1, LessTrans
      <3> QED BY Zenon, <1>3, <1>4, <1>9, <2>3, <3>2
    <2>4. CASE i # k /\ i \div 2 # k /\ i \div 2 # p
      BY Zenon, <1>3, <1>4, <1>6, <1>9, <2>4
    <2> QED BY Zenon, <2>1, <2>2, <2>3, <2>4
  <1>10. ASSUME p >= 2, NEW i \in 2..n, i \div 2 = p PROVE LessThan(b[p \div 2], b[i])
    <2>1. LessThan(a[p \div 2], a[p]) /\ b[p \div 2] = a[p \div 2] /\ p \div 2 \in 1..n
      BY Zenon, <1>3, <1>4, <1>6, <1>10
    <2>2. CASE i = k
      BY Zenon, <1>3, <2>1, <2>2
    <2>3. CASE i # k
      <3>1. LessThan(a[p], a[i])
        BY Zenon, <1>6, <1>10, <2>3
      <3>2. LessThan(a[p \div 2], a[i])
        BY Zenon, <1>4, <1>5, <2>1, <3>1, LessTrans
      <3> QED BY Zenon, <1>3, <1>4, <1>10, <2>1, <2>3, <3>2
    <2> QED BY Zenon, <2>2, <2>3
  <1> QED BY <1>2, <1>9, <1>10 DEF Ordered, Below, p

LEMMA DownOrder ==
    ASSUME LessType, NEW a, NEW n, IsArray(a, n), NEW c \in 2..n, NEW k, k = c \div 2,
           Ordered(a, n, {k, 2 * k, 2 * k + 1}), Below(a, n, k),
           \A i \in 2..n : i \div 2 = k /\ i # c => LessThan(a[c], a[i])
    PROVE  LET b == Exchange(a, c) IN Ordered(b, n, {c, 2 * c, 2 * c + 1}) /\ Below(b, n, c)
  <1>1. n \in Nat /\ ArrayOK(a, n)
    BY Zenon, ArrayFacts DEF IsArray
  <1>2. PICK b : b = Exchange(a, c)
    OBVIOUS
  <1>3. b[c] = a[k] /\ b[k] = a[c] /\ \A i \in Nat : i # c /\ i # k => b[i] = a[i]
    <2>1. IsExchange(b, a, n, c)
      BY Zenon, <1>2, ExchangeIs
    <2> QED BY Zenon, <2>1 DEF IsExchange
  <1>4. /\ c \in Nat /\ c \in 1..n /\ k \in Nat /\ k \in 1..n /\ k # c
        /\ k >= 2 => k \in 2..n
        /\ k \div 2 \in Nat /\ k \div 2 # k /\ k \div 2 # c /\ c >= 2
        /\ \A i \in 2..n : /\ i \in Nat /\ i \in 1..n /\ i \div 2 \in Nat /\ i \div 2 \in 1..n
                           /\ i \div 2 # i
                           /\ i \div 2 = c => i # k /\ i # c
                           /\ i \div 2 = k => i # k
                           /\ i = k => i \div 2 # c
    <2>1. k = c \div 2
      OBVIOUS
    <2> QED BY Zenon, <1>1, <2>1, Places
  <1>5. \A i \in 2..n : (i \div 2 = k <=> i = 2 * k \/ i = 2 * k + 1)
                        /\ (i \div 2 = c <=> i = 2 * c \/ i = 2 * c + 1)
    BY <1>4, Half
  <1>6. \A i \in 2..n : i # k /\ i \div 2 # k => LessThan(a[i \div 2], a[i])
    BY Zenon, <1>5 DEF Ordered
  <1>7. ASSUME NEW i \in 2..n, i # c, i \div 2 # c PROVE LessThan(b[i \div 2], b[i])
    <2>1. CASE i = k
      <3>1. k >= 2
        BY <2>1
      <3>2. LessThan(a[k \div 2], a[c])
        BY Zenon, <3>1 DEF Below
      <3> QED BY Zenon, <1>3, <1>4, <2>1, <3>2
    <2>2. CASE i # k /\ i \div 2 = k
      BY Zenon, <1>3, <1>4, <1>7, <2>2
    <2>3. CASE i # k /\ i \div 2 # k
      BY Zenon, <1>3, <1>4, <1>6, <1>7, <2>3
    <2> QED BY Zenon, <2>1, <2>2, <2>3
  <1>8. ASSUME NEW i \in 2..n, i \div 2 = c PROVE LessThan(b[c \div 2], b[i])
    <2>1. LessThan(a[c], a[i])
      BY Zenon, <1>4, <1>6, <1>8
    <2> QED BY Zenon, <1>3, <1>4, <1>8, <2>1
  <1>9. Ordered(b, n, {c, 2 * c, 2 * c + 1})
    BY Zenon, <1>5, <1>7 DEF Ordered
  <1> QED BY Zenon, <1>2, <1>8, <1>9 DEF Below


\* The tree is the one with the nodes of a, and is in order but for the moving node.
Tree(a) ==
    LET n == heap.nelts IN
    /\ Shape(heap, a) /\ Nodes = {a[i] : i \in 1..n}
    /\ pc = "idle" => Ordered(a, n, {})
    /\ pc = "up" => \E k \in 1..n : cur = a[k] /\ Ordered(a, n, {k}) /\ Below(a, n, k)
    /\ pc = "down" => \E k \in 1..n : /\ cur = a[k] /\ Ordered(a, n, {k, 2 * k, 2 * k + 1})
                                      /\ Below(a, n, k)

\* The queue is in order, timers with the same timeout as they were started.
Firing ==
    /\ queue \in Seq(Timers) /\ Once(queue)
    /\ \A i, j \in 1..Len(queue) : i < j => LessThan(queue[i], queue[j])
    /\ \A i \in 1..Len(queue) : start_id[queue[i]] < timer_counter
    /\ \A i, j \in 1..Len(queue) : i # j => start_id[queue[i]] # start_id[queue[j]]

HeapInv ==
    /\ timeout \in [Timers -> Dues \cup {0}] /\ start_id \in [Timers -> 0..MaxStarts]
    /\ timer_counter \in 0..MaxStarts
    /\ pc \in {"idle", "up", "down"} /\ (pc = "idle" => cur = Null)
    /\ Firing
    /\ \E a : Tree(a)

LEMMA HeapTypes ==
    ASSUME HeapInv
    PROVE  LessType /\ Null \notin Timers /\ MaxStarts \in Nat /\ Dues \cup {0} \subseteq Nat
  <1>1. Null \notin Timers /\ MaxStarts \in Nat /\ Dues \cup {0} \subseteq Nat
    BY HeapAssumption
  <1>2. timeout \in [Timers -> Dues \cup {0}] /\ start_id \in [Timers -> 0..MaxStarts]
    BY Zenon DEF HeapInv
  <1> QED BY <1>1, <1>2 DEF LessType

LEMMA InNodes ==
    ASSUME NEW q \in Seq(Timers)
    PROVE  \A t : t \in {q[i] : i \in DOMAIN q} <=> In(q, t)
  BY DEF In

\* Two nodes were not started at the same time.
LEMMA Distinct ==
    ASSUME HeapInv, NEW x \in Nodes, NEW y \in Nodes, x # y
    PROVE  x \in Timers /\ y \in Timers /\ start_id[x] # start_id[y]
  <1>1. queue \in Seq(Timers) /\ \A i \in 1..Len(queue) : queue[i] \in Timers
    BY DEF HeapInv, Firing
  <1>2. In(queue, x) /\ In(queue, y)
    BY Zenon, <1>1, InNodes DEF Nodes
  <1> QED BY Zenon, <1>1, <1>2 DEF In, HeapInv, Firing

\* One node is less than another, or the other way round.
LEMMA NodesTotal ==
    ASSUME HeapInv, NEW x \in Nodes, NEW y \in Nodes, x # y, ~LessThan(x, y)
    PROVE  LessThan(y, x)
  BY Zenon, Distinct, LessTotal, HeapTypes

\* timer_less_than for given timeouts and starts.
Lt(due, id, x, y) == due[x] < due[y] \/ (due[x] = due[y] /\ id[x] < id[y])

LEMMA FiringSame ==
    ASSUME Firing, UNCHANGED <<timeout, start_id, timer_counter, queue>>
    PROVE  Firing'
  BY Zenon DEF Firing, LessThan

\* A timer that starts is put where it is due.
LEMMA FiringInsert ==
    ASSUME HeapInv, NEW t \in Timers, NEW due \in Dues, t \notin Nodes,
           timeout' = [timeout EXCEPT ![t] = due],
           start_id' = [start_id EXCEPT ![t] = timer_counter],
           timer_counter' = timer_counter + 1,
           queue' = QueueInsert(queue, timeout', t)
    PROVE  Firing' /\ Nodes' = Nodes \cup {t}
  <1>1. /\ queue \in Seq(Timers) /\ Once(queue) /\ Len(queue) \in Nat
        /\ \A i \in 1..Len(queue) : queue[i] \in Timers
    BY DEF HeapInv, Firing
  <1>2. /\ \A i, j \in 1..Len(queue) : i < j => LessThan(queue[i], queue[j])
        /\ \A i \in 1..Len(queue) : start_id[queue[i]] < timer_counter
        /\ \A i, j \in 1..Len(queue) : i # j => start_id[queue[i]] # start_id[queue[j]]
    BY Zenon DEF HeapInv, Firing
  <1>3. ~In(queue, t)
    BY Zenon, <1>1, InNodes DEF Nodes
  <1>4. LessType /\ timer_counter \in Nat /\ due \in Nat
    BY HeapTypes DEF HeapInv
  <1>5. /\ timeout' \in [Timers -> Nat] /\ start_id' \in [Timers -> Nat]
        /\ timeout'[t] = due /\ start_id'[t] = timer_counter
        /\ \A x \in Timers : x # t => timeout'[x] = timeout[x] /\ start_id'[x] = start_id[x]
    BY <1>4 DEF LessType
  <1>6. \A i \in 1..Len(queue) : /\ timeout'[queue[i]] = timeout[queue[i]]
                                 /\ start_id'[queue[i]] = start_id[queue[i]]
    BY Zenon, <1>1, <1>3, <1>5 DEF In
  <1>7. \A i, j \in 1..Len(queue) : i <= j => timeout'[queue[i]] <= timeout'[queue[j]]
    <2> SUFFICES ASSUME NEW i \in 1..Len(queue), NEW j \in 1..Len(queue), i <= j
                 PROVE  timeout'[queue[i]] <= timeout'[queue[j]]
      BY Zenon
    <2>1. timeout[queue[i]] \in Nat /\ timeout[queue[j]] \in Nat
      BY SMTT(20), <1>1, <1>4 DEF LessType
    <2>2. CASE i = j
      BY <1>6, <2>1, <2>2
    <2>3. CASE i # j
      <3>1. i < j
        BY <2>3
      <3>2. LessThan(queue[i], queue[j])
        BY Zenon, <1>2, <3>1
      <3>3. timeout[queue[i]] <= timeout[queue[j]]
        BY <2>1, <3>2 DEF LessThan
      <3> QED BY Zenon, <1>6, <3>3
    <2> QED BY Zenon, <2>2, <2>3
  <1>8. PICK n \in 0..Len(queue) :
            /\ queue' = InsertAt(queue, n, t)
            /\ \A i \in 1..Len(queue) : i <= n <=> timeout'[queue[i]] <= timeout'[t]
    BY Zenon, <1>1, <1>5, <1>7, QueueInsertAt
  <1>9. queue' \in Seq(Timers) /\ IsInsert(queue', queue, n, t)
    BY <1>1, <1>8, InsertAtIs
  <1>10. Once(queue') /\ \A y : In(queue', y) <=> In(queue, y) \/ y = t
    <2>1. /\ Once(InsertAt(queue, n, t))
          /\ \A y : In(InsertAt(queue, n, t), y) <=> In(queue, y) \/ y = t
      BY SMTT(20), <1>1, <1>3, InsertOnce
    <2> QED BY Zenon, <1>8, <2>1
  <1> DEFINE at(i) == IF i <= n THEN i ELSE i - 1
  <1>11. Len(queue') = Len(queue) + 1 /\ n \in Nat /\ queue'[n + 1] = t
    BY <1>9 DEF IsInsert
  <1>12. \A i \in 1..Len(queue') : i # n + 1 => at(i) \in 1..Len(queue) /\ queue'[i] = queue[at(i)]
    <2> SUFFICES ASSUME NEW i \in 1..Len(queue'), i # n + 1
                 PROVE  at(i) \in 1..Len(queue) /\ queue'[i] = queue[at(i)]
      BY Zenon
    <2>1. CASE i <= n
      <3>1. i \in 1..n /\ at(i) = i /\ i \in 1..Len(queue)
        BY SMTT(20), <1>1, <1>11, <2>1
      <3> QED BY Zenon, <1>9, <3>1 DEF IsInsert
    <2>2. CASE ~(i <= n)
      <3>1. i - 1 \in n + 1..Len(queue) /\ at(i) = i - 1 /\ i - 1 \in 1..Len(queue) /\ (i - 1) + 1 = i
        BY <1>1, <1>11, <2>2
      <3>2. queue'[(i - 1) + 1] = queue[i - 1]
        BY Zenon, <1>9, <3>1 DEF IsInsert
      <3> QED BY SMTT(20), <3>1, <3>2
    <2> QED BY <2>1, <2>2
  <1>13. ASSUME NEW i \in 1..Len(queue'), NEW j \in 1..Len(queue'), i < j
         PROVE  Lt(timeout', start_id', queue'[i], queue'[j])
    <2>1. CASE i # n + 1 /\ j # n + 1
      <3>1. at(i) < at(j) /\ at(i) \in 1..Len(queue) /\ at(j) \in 1..Len(queue)
        BY <1>11, <1>12, <1>13, <2>1
      <3>2. LessThan(queue[at(i)], queue[at(j)])
        BY Zenon, <1>2, <3>1
      <3>3. queue'[i] = queue[at(i)] /\ queue'[j] = queue[at(j)]
        BY Zenon, <1>12, <2>1
      <3> HIDE DEF at
      <3>4. /\ timeout'[queue'[i]] = timeout[queue[at(i)]] /\ start_id'[queue'[i]] = start_id[queue[at(i)]]
            /\ timeout'[queue'[j]] = timeout[queue[at(j)]] /\ start_id'[queue'[j]] = start_id[queue[at(j)]]
        BY <1>6, <3>1, <3>3
      <3> QED BY SMTT(20), <3>2, <3>4 DEF LessThan, Lt
    <2>2. CASE j = n + 1
      <3>1. i # n + 1 /\ at(i) = i /\ i <= n /\ i \in 1..Len(queue)
        BY <1>11, <1>13, <2>2
      <3>2. timeout'[queue[i]] <= timeout'[t] /\ start_id[queue[i]] < timer_counter
        BY Zenon, <1>2, <1>8, <3>1
      <3>3. start_id'[queue[i]] < start_id'[t] /\ queue[i] \in Timers
        BY Zenon, <1>1, <1>5, <1>6, <3>1, <3>2
      <3>4. timeout'[queue[i]] < timeout'[t]
            \/ (timeout'[queue[i]] = timeout'[t] /\ start_id'[queue[i]] < start_id'[t])
        BY <1>5, <3>2, <3>3
      <3>5. queue'[i] = queue[i] /\ queue'[j] = t
        BY Zenon, <1>11, <1>12, <2>2, <3>1
      <3> QED BY Zenon, <3>4, <3>5 DEF Lt
    <2>3. CASE i = n + 1
      <3>1. j # n + 1 /\ at(j) = j - 1 /\ ~(j - 1 <= n)
        BY <1>11, <1>13, <2>3
      <3>2. j - 1 \in 1..Len(queue) /\ queue'[j] = queue[j - 1]
        BY Zenon, <1>12, <3>1
      <3>3. ~(timeout'[queue[j - 1]] <= timeout'[t]) /\ queue[j - 1] \in Timers
        BY SMTT(20), <1>1, <1>8, <3>1, <3>2
      <3>4. timeout'[t] < timeout'[queue[j - 1]]
        BY <1>5, <3>3
      <3> QED BY SMTT(20), <1>11, <2>3, <3>2, <3>4 DEF Lt
    <2> QED BY SMTT(20), <1>11, <2>1, <2>2, <2>3
  <1>14. ASSUME NEW i \in 1..Len(queue') PROVE start_id'[queue'[i]] < timer_counter'
    <2>1. CASE i = n + 1
      BY SMTT(20), <1>4, <1>5, <1>11, <2>1
    <2>2. CASE i # n + 1
      <3>1. start_id'[queue'[i]] < timer_counter
        <4>1. at(i) \in 1..Len(queue) /\ queue'[i] = queue[at(i)]
          BY Zenon, <1>12, <2>2
        <4> HIDE DEF at
        <4>2. start_id'[queue'[i]] = start_id[queue[at(i)]]
          BY <1>6, <4>1
        <4> QED BY Zenon, <1>2, <4>1, <4>2
      <3>2. start_id'[queue'[i]] \in Nat
        BY SMTT(20), <1>5, <1>9
      <3> QED BY <1>4, <3>1, <3>2
    <2> QED BY Zenon, <2>1, <2>2
  <1>15. ASSUME NEW i \in 1..Len(queue'), NEW j \in 1..Len(queue'), i # j
         PROVE  start_id'[queue'[i]] # start_id'[queue'[j]]
    <2>0. \A l \in 1..Len(queue') : l # n + 1 => start_id'[queue'[l]] # timer_counter
      <3> SUFFICES ASSUME NEW l \in 1..Len(queue'), l # n + 1
                   PROVE  start_id'[queue'[l]] # timer_counter
        BY Zenon
      <3>1. start_id'[queue'[l]] < timer_counter
        <4>1. at(l) \in 1..Len(queue) /\ queue'[l] = queue[at(l)]
          BY Zenon, <1>12
        <4> HIDE DEF at
        <4>2. start_id'[queue'[l]] = start_id[queue[at(l)]]
          BY <1>6, <4>1
        <4> QED BY Zenon, <1>2, <4>1, <4>2
      <3> QED BY <1>4, <3>1
    <2>1. CASE i # n + 1 /\ j # n + 1
      <3>1. at(i) # at(j)
        BY <1>11, <1>15, <2>1
      <3>2. /\ at(i) \in 1..Len(queue) /\ queue'[i] = queue[at(i)]
            /\ at(j) \in 1..Len(queue) /\ queue'[j] = queue[at(j)]
        BY Zenon, <1>12, <2>1
      <3> HIDE DEF at
      <3>3. start_id'[queue'[i]] = start_id[queue[at(i)]] /\ start_id'[queue'[j]] = start_id[queue[at(j)]]
        BY SMTT(20), <1>6, <3>2
      <3> QED BY Zenon, <1>2, <3>1, <3>2, <3>3
    <2>2. CASE i = n + 1
      <3>1. j # n + 1
        BY Zenon, <1>15, <2>2
      <3>2. start_id'[queue'[i]] = timer_counter
        BY Zenon, <1>5, <1>11, <2>2
      <3> QED BY Zenon, <2>0, <3>1, <3>2
    <2>3. CASE j = n + 1
      <3>1. i # n + 1
        BY Zenon, <1>15, <2>3
      <3>2. start_id'[queue'[j]] = timer_counter
        BY Zenon, <1>5, <1>11, <2>3
      <3> QED BY Zenon, <2>0, <3>1, <3>2
    <2> QED BY SMTT(20), <2>1, <2>2, <2>3
  <1>16. Firing'
    BY Zenon, <1>9, <1>10, <1>13, <1>14, <1>15 DEF Firing, LessThan, Lt
  <1>17. \A x : x \in Nodes' <=> In(queue', x)
    BY Zenon, <1>9, InNodes DEF Nodes
  <1>18. \A x : x \in Nodes <=> In(queue, x)
    BY <1>1, InNodes DEF Nodes
  <1>19. Nodes' = Nodes \cup {t}
    BY Zenon, <1>10, <1>17, <1>18
  <1> QED BY Zenon, <1>16, <1>19

LEMMA FiringRemove ==
    ASSUME HeapInv, NEW t \in Nodes, queue' = QueueRemove(queue, t),
           UNCHANGED <<timeout, start_id, timer_counter>>
    PROVE  Firing' /\ Nodes' = Nodes \ {t}
  <1>1. /\ queue \in Seq(Timers) /\ Once(queue) /\ Len(queue) \in Nat
    BY DEF HeapInv, Firing
  <1>2. PICK k \in 1..Len(queue) : queue[k] = t
    BY Zenon, <1>1, InNodes DEF Nodes, In
  <1>3. queue' \in Seq(Timers) /\ IsRemove(queue', queue, k)
    BY Zenon, <1>1, <1>2, QueueRemoveIs
  <1>4. Once(queue') /\ \A y : In(queue', y) <=> In(queue, y) /\ y # t
    BY Zenon, <1>1, <1>2, RemoveOnce
  <1> DEFINE at(i) == IF i < k THEN i ELSE i + 1
  <1>5. Len(queue') = Len(queue) - 1
    BY <1>3 DEF IsRemove
  <1>6. \A i \in 1..Len(queue') : at(i) \in 1..Len(queue) /\ queue'[i] = queue[at(i)]
    BY <1>1, <1>3, <1>5 DEF IsRemove
  <1>7. \A i, j \in 1..Len(queue') : (i < j => at(i) < at(j)) /\ (i # j => at(i) # at(j))
    BY <1>1, <1>5
  <1> HIDE DEF at
  <1>8. /\ \A i, j \in 1..Len(queue) : i < j => LessThan(queue[i], queue[j])
        /\ \A i \in 1..Len(queue) : start_id[queue[i]] < timer_counter
        /\ \A i, j \in 1..Len(queue) : i # j => start_id[queue[i]] # start_id[queue[j]]
    BY Zenon DEF HeapInv, Firing
  <1>9. ASSUME NEW i \in 1..Len(queue'), NEW j \in 1..Len(queue')
        PROVE  /\ i < j => Lt(timeout', start_id', queue'[i], queue'[j])
               /\ start_id'[queue'[i]] < timer_counter'
               /\ i # j => start_id'[queue'[i]] # start_id'[queue'[j]]
    <2>1. /\ at(i) \in 1..Len(queue) /\ at(j) \in 1..Len(queue)
          /\ queue'[i] = queue[at(i)] /\ queue'[j] = queue[at(j)]
          /\ i < j => at(i) < at(j)
          /\ i # j => at(i) # at(j)
      BY Zenon, <1>6, <1>7
    <2>2. i < j => LessThan(queue[at(i)], queue[at(j)])
      BY Zenon, <1>8, <2>1
    <2>3. start_id[queue[at(i)]] < timer_counter
      BY Zenon, <1>8, <2>1
    <2>4. i # j => start_id[queue[at(i)]] # start_id[queue[at(j)]]
      BY Zenon, <1>8, <2>1
    <2> QED BY Zenon, <2>1, <2>2, <2>3, <2>4 DEF Lt, LessThan
  <1>11. Firing'
    <2>1. \A i, j \in 1..Len(queue') : i < j => Lt(timeout', start_id', queue'[i], queue'[j])
      BY Zenon, <1>9
    <2>2. /\ \A i \in 1..Len(queue') : start_id'[queue'[i]] < timer_counter'
          /\ \A i, j \in 1..Len(queue') : i # j => start_id'[queue'[i]] # start_id'[queue'[j]]
      BY Zenon, <1>9
    <2> QED BY Zenon, <1>3, <1>4, <2>1, <2>2 DEF Firing, Lt, LessThan
  <1>12. \A x : x \in Nodes' <=> In(queue', x)
    BY Zenon, <1>3, InNodes DEF Nodes
  <1>13. \A x : x \in Nodes <=> In(queue, x)
    BY Zenon, <1>1, InNodes DEF Nodes
  <1>14. Nodes' = Nodes \ {t}
    BY <1>4, <1>12, <1>13
  <1> QED BY Zenon, <1>11, <1>14


\* A tree in which no node moves is in order.
LEMMA UpKeeps == ASSUME HeapInv, HeapUp PROVE HeapInv'
  <1> DEFINE n == heap.nelts
  <1>1. pc = "up" /\ UNCHANGED <<timeout, start_id, timer_counter, queue>>
    BY Zenon DEF HeapUp
  <1>2. PICK a : Tree(a)
    BY Zenon DEF HeapInv
  <1>3. /\ Shape(heap, a) /\ Nodes = {a[i] : i \in 1..n}
        /\ IsArray(a, n) /\ Up(heap, a, n)
    BY Zenon, <1>2 DEF Tree, Shape
  <1>4. PICK k \in 1..n : cur = a[k] /\ Ordered(a, n, {k}) /\ Below(a, n, k)
    BY Zenon, <1>1, <1>2 DEF Tree
  <1>5. LessType /\ Null \notin Timers
    BY Zenon, HeapTypes
  <1>a. ArrayOK(a, n)
    BY Zenon, <1>3, ArrayFacts
  <1>6. heap.parent[cur] = a[k \div 2] /\ n \in Nat
    BY Zenon, <1>3, <1>4 DEF Up, IsArray
  <1>7. Nodes' = Nodes /\ Firing'
    BY Zenon, <1>1, FiringSame DEF HeapInv, Nodes
  <1>8. SUFFICES /\ \E b : Tree(b)'
                 /\ pc' \in {"idle", "up"} /\ (pc' = "idle" => cur' = Null)
    BY Zenon, <1>1, <1>7 DEF HeapInv
  <1>9. CASE heap.parent[cur] # Null /\ LessThan(cur, heap.parent[cur])
    <2>1. heap' = HeapNodeSwap(heap, heap.parent[cur], cur) /\ pc' = pc /\ cur' = cur
      BY <1>9 DEF HeapUp
    <2>2. k \in 2..n
      <3>1. k # 1
        <4> SUFFICES ASSUME k = 1 PROVE FALSE
          OBVIOUS
        <4>1. k \div 2 = 0
          OBVIOUS
        <4> QED BY SMTT(20), <1>a, <1>6, <1>9, <4>1 DEF ArrayOK
      <3> QED BY SMTT(20), <1>6, <3>1
    <2>3. PICK b : b = Exchange(a, k)
      OBVIOUS
    <2>4. IsExchange(b, a, n, k)
      BY Zenon, <1>3, <2>2, <2>3, ExchangeIs
    <2>5. Shape(heap', b) /\ heap'.nelts = n
      <3>1. heap' = HeapNodeSwap(heap, a[k \div 2], a[k])
        BY Zenon, <1>4, <1>6, <2>1
      <3> QED BY Zenon, <1>3, <2>2, <2>3, <3>1, SwapShape
    <2>7. Ordered(b, n, {k \div 2}) /\ Below(b, n, k \div 2)
      BY Zenon, <1>3, <1>4, <1>5, <1>6, <1>9, <2>2, <2>3, UpOrder
    <2>8. Ordered(b, n, {k \div 2})' /\ Below(b, n, k \div 2)'
      BY Zenon, <1>1, <2>5, <2>7 DEF Ordered, Below, LessThan
    <2>9. k \div 2 \in 1..n /\ cur' = b[k \div 2] /\ Nodes' = {b[i] : i \in 1..n}
      <3>1. k \div 2 \in 1..n
        BY <1>6, <2>2, Places
      <3> QED BY Zenon, <1>3, <1>4, <1>7, <2>1, <2>4, <3>1 DEF IsExchange
    <2>10. Tree(b)'
      <3>1. pc' # "idle" /\ pc' # "down"
        BY <1>1, <2>1
      <3>2. \E l \in 1..heap'.nelts : cur' = b[l] /\ Ordered(b, heap.nelts, {l})' /\ Below(b, heap.nelts, l)'
        BY Zenon, <2>5, <2>8, <2>9
      <3>3. Nodes' = {b[i] : i \in 1..heap'.nelts}
        BY <2>5, <2>9
      <3> QED BY Zenon, <2>5, <3>1, <3>2, <3>3 DEF Tree
    <2> QED BY Zenon, <1>1, <2>1, <2>10
  <1>10. CASE ~(heap.parent[cur] # Null /\ LessThan(cur, heap.parent[cur]))
    <2>1. heap' = heap /\ pc' = "idle" /\ cur' = Null
      BY Zenon, <1>10 DEF HeapUp
    <2>2. ASSUME NEW i \in 2..n PROVE LessThan(a[i \div 2], a[i])
      <3>1. CASE i # k
        BY <1>4, <3>1 DEF Ordered
      <3>2. CASE i = k
        <4>1. k \div 2 \in 1..n /\ k \div 2 # k /\ k \in Nat /\ k \div 2 \in Nat
          BY <1>6, <3>2, Places
        <4>2. a[k \div 2] \in Nodes /\ a[k] \in Nodes /\ a[k \div 2] # a[k] /\ a[k \div 2] # Null
          BY Zenon, <1>a, <1>3, <4>1 DEF ArrayOK
        <4>3. ~LessThan(a[k], a[k \div 2])
          BY Zenon, <1>4, <1>6, <1>10, <4>2
        <4> QED BY Zenon, <3>2, <4>2, <4>3, NodesTotal
      <3> QED BY <3>1, <3>2
    <2>3. Ordered(a, n, {})'
      BY Zenon, <1>1, <2>1, <2>2 DEF Ordered, LessThan
    <2>4. Tree(a)'
      BY Zenon, <1>1, <1>3, <1>7, <2>1, <2>3 DEF Tree, Ordered, Below
    <2> QED BY <2>1, <2>4
  <1> QED BY Zenon, <1>9, <1>10


LEMMA DownKeeps == ASSUME HeapInv, HeapDown PROVE HeapInv'
  <1> DEFINE n == heap.nelts
  <1>1. pc = "down" /\ cur' = cur /\ UNCHANGED <<timeout, start_id, timer_counter, queue>>
    BY Zenon DEF HeapDown
  <1>2. PICK a : Tree(a)
    BY Zenon DEF HeapInv
  <1>3. /\ Shape(heap, a) /\ Nodes = {a[i] : i \in 1..n}
        /\ IsArray(a, n) /\ Down(heap, a, n)
    BY Zenon, <1>2 DEF Tree, Shape
  <1>4. PICK k \in 1..n : cur = a[k] /\ Ordered(a, n, {k, 2 * k, 2 * k + 1}) /\ Below(a, n, k)
    BY Zenon, <1>1, <1>2 DEF Tree
  <1>5. LessType /\ Null \notin Timers
    BY Zenon, HeapTypes
  <1>a. ArrayOK(a, n)
    BY Zenon, <1>3, ArrayFacts
  <1>6. heap.left[cur] = a[2 * k] /\ heap.right[cur] = a[2 * k + 1] /\ n \in Nat
    BY <1>3, <1>4 DEF Down, IsArray
  <1>7. Nodes' = Nodes /\ Firing'
    BY Zenon, <1>1, FiringSame DEF HeapInv, Nodes
  <1>8. SUFFICES (\E b : Tree(b)') /\ pc' \in {"up", "down"}
    <2>1. pc' # "idle"
      BY SMTT(20), <1>8
    <2> QED BY <1>1, <1>7, <1>8, <2>1 DEF HeapInv
  <1>9. /\ 2 * k \in Nat /\ 2 * k + 1 \in Nat /\ k \in Nat /\ 2 * k # k /\ 2 * k + 1 # k /\ 2 * k # 2 * k + 1
        /\ (2 * k) \div 2 = k /\ (2 * k + 1) \div 2 = k
        /\ (2 * k \in 1..n <=> 2 * k \in 2..n) /\ (2 * k + 1 \in 1..n <=> 2 * k + 1 \in 2..n)
        /\ \A i \in 2..n : (i \div 2 = k <=> i = 2 * k \/ i = 2 * k + 1) /\ i \in 1..n /\ i \in Nat
    BY <1>6, Half
  <1>10. \A i \in 1..n : a[i] \in Nodes /\ a[i] \in Timers /\ a[i] # Null /\ \A j \in Nat : a[i] = a[j] => i = j
    BY Zenon, <1>a, <1>3 DEF ArrayOK
  <1>11. \A i \in Nat : i \in 1..n <=> a[i] # Null
    BY Zenon, <1>a DEF ArrayOK
  <1>12. CASE Smallest = cur
    <2>1. heap' = heap /\ pc' = "up"
      BY Zenon, <1>12 DEF HeapDown
    <2>2. ASSUME NEW i \in 2..n, i # k PROVE LessThan(a[i \div 2], a[i])
      <3>1. CASE i \div 2 # k
        BY Zenon, <1>4, <1>9, <2>2, <3>1 DEF Ordered
      <3>2. CASE i \div 2 = k
        <4>1. a[i] # a[k] /\ a[i] # Null
          BY Zenon, <1>9, <1>10, <2>2
        <4>2. ~LessThan(a[i], cur)
          <5>1. CASE i = 2 * k
            <6> SUFFICES ASSUME LessThan(a[i], cur) PROVE FALSE
              OBVIOUS
            <6>1. Smallest = a[2 * k] \/ (heap.right[cur] # Null /\ Smallest = a[2 * k + 1])
              BY Zenon, <1>6, <4>1, <5>1 DEF Smallest
            <6>2. a[2 * k + 1] # Null => a[2 * k + 1] # a[k]
              BY Zenon, <1>9, <1>10, <1>11
            <6> QED BY Zenon, <1>4, <1>6, <1>12, <4>1, <5>1, <6>1, <6>2
          <5>2. CASE i = 2 * k + 1
            <6> SUFFICES ASSUME LessThan(a[i], cur) PROVE FALSE
              OBVIOUS
            <6>1. Smallest = a[2 * k + 1] \/ (heap.left[cur] # Null /\ Smallest = a[2 * k])
              BY Zenon, <1>6, <4>1, <5>2 DEF Smallest
            <6>2. a[2 * k] # Null => a[2 * k] # a[k]
              BY Zenon, <1>9, <1>10, <1>11
            <6> QED BY Zenon, <1>4, <1>6, <1>12, <4>1, <5>2, <6>1, <6>2
          <5> QED BY Zenon, <1>9, <3>2, <5>1, <5>2
        <4> QED BY Zenon, <1>4, <1>9, <1>10, <3>2, <4>1, <4>2, NodesTotal
      <3> QED BY Zenon, <3>1, <3>2
    <2>3. Ordered(a, n, {k})' /\ Below(a, n, k)'
      BY Zenon, <1>1, <1>4, <2>1, <2>2 DEF Ordered, Below, LessThan
    <2>4. Tree(a)'
      <3>1. pc' # "idle" /\ pc' # "down"
        BY <2>1
      <3>2. \E l \in 1..heap'.nelts : cur' = a[l] /\ Ordered(a, heap.nelts, {l})' /\ Below(a, heap.nelts, l)'
        BY Zenon, <1>1, <1>4, <2>1, <2>3
      <3>3. Nodes' = {a[i] : i \in 1..heap'.nelts} /\ Shape(heap', a)
        BY Zenon, <1>3, <1>7, <2>1
      <3> QED BY Zenon, <3>1, <3>2, <3>3 DEF Tree
    <2> QED BY Zenon, <2>1, <2>4
  <1>13. CASE Smallest # cur
    <2>1. heap' = HeapNodeSwap(heap, cur, Smallest) /\ pc' = "down"
      BY Zenon, <1>1, <1>13 DEF HeapDown
    <2>2. PICK c \in {2 * k, 2 * k + 1} :
              /\ Smallest = a[c] /\ a[c] # Null
              /\ \A i \in {2 * k, 2 * k + 1} : i # c /\ a[i] # Null => LessThan(a[c], a[i])
      <3> DEFINE l == a[2 * k]
                 r == a[2 * k + 1]
      <3>0. /\ l # Null => l \in Nodes /\ l \in Timers /\ l # cur
            /\ r # Null => r \in Nodes /\ r \in Timers /\ r # cur
            /\ l # Null => l # r
            /\ cur \in Nodes /\ cur \in Timers
        BY Zenon, <1>4, <1>9, <1>10, <1>11
      <3>1. CASE r # Null /\ (l # Null /\ LessThan(l, cur)) /\ LessThan(r, l)
        <4>1. Smallest = r
          BY Zenon, <1>6, <3>1 DEF Smallest
        <4> QED BY Zenon, <3>1, <4>1
      <3>2. CASE r # Null /\ ~(l # Null /\ LessThan(l, cur)) /\ LessThan(r, cur)
        <4>1. Smallest = r
          BY Zenon, <1>6, <3>2 DEF Smallest
        <4>2. l # Null => LessThan(cur, l)
          BY Zenon, <3>0, <3>2, NodesTotal
        <4>3. l # Null => LessThan(r, l)
          BY Zenon, <1>5, <3>0, <3>2, <4>2, LessTrans
        <4> QED BY Zenon, <3>2, <4>1, <4>3
      <3>3. CASE l # Null /\ LessThan(l, cur) /\ ~(r # Null /\ LessThan(r, l))
        <4>1. Smallest = l
          BY Zenon, <1>6, <3>3 DEF Smallest
        <4>2. r # Null => LessThan(l, r)
          BY Zenon, <3>0, <3>3, NodesTotal
        <4> QED BY Zenon, <3>3, <4>1, <4>2
      <3>4. CASE ~(l # Null /\ LessThan(l, cur)) /\ ~(r # Null /\ LessThan(r, cur))
        BY Zenon, <1>6, <1>13, <3>4 DEF Smallest
      <3> QED BY Zenon, <3>1, <3>2, <3>3, <3>4
    <2>3. c \in 2..n /\ c \div 2 = k
      BY Zenon, <1>9, <1>11, <2>2
    <2>4. PICK b : b = Exchange(a, c)
      OBVIOUS
    <2>5. IsExchange(b, a, n, c)
      BY Zenon, <1>3, <2>3, <2>4, ExchangeIs
    <2>6. Shape(heap', b) /\ heap'.nelts = n
      BY Zenon, <1>3, <1>4, <2>1, <2>2, <2>3, <2>4, SwapShape
    <2>7. Ordered(b, n, {c, 2 * c, 2 * c + 1}) /\ Below(b, n, c)
      <3>1. \A i \in 2..n : i \div 2 = k /\ i # c => LessThan(a[c], a[i])
        BY <1>9, <1>10, <2>2
      <3>2. k = c \div 2
        BY Zenon, <2>3
      <3> QED BY Zenon, <1>3, <1>4, <1>5, <2>3, <2>4, <3>1, <3>2, DownOrder
    <2>8. Ordered(b, n, {c, 2 * c, 2 * c + 1})' /\ Below(b, n, c)'
      BY Zenon, <1>1, <2>6, <2>7 DEF Ordered, Below, LessThan
    <2>9. c \in 1..n /\ cur' = b[c] /\ Nodes' = {b[i] : i \in 1..n}
      BY Zenon, <1>1, <1>3, <1>4, <1>7, <1>9, <2>3, <2>5 DEF IsExchange
    <2>10. Tree(b)'
      <3>1. pc' # "idle" /\ pc' # "up"
        BY <2>1
      <3>2. \E i \in 1..heap'.nelts :
                /\ cur' = b[i] /\ Ordered(b, heap.nelts, {i, 2 * i, 2 * i + 1})'
                /\ Below(b, heap.nelts, i)'
        BY Zenon, <2>6, <2>8, <2>9
      <3>3. Nodes' = {b[i] : i \in 1..heap'.nelts}
        BY <2>6, <2>9
      <3> QED BY Zenon, <2>6, <3>1, <3>2, <3>3 DEF Tree
    <2> QED BY Zenon, <2>1, <2>10
  <1> QED BY Zenon, <1>12, <1>13


LEMMA InsertKeeps ==
    ASSUME HeapInv, NEW t \in Timers, NEW due \in Dues, HeapInsert(t, due)
    PROVE  HeapInv'
  <1> DEFINE n == heap.nelts
  <1>1. /\ pc = "idle" /\ t \notin Nodes /\ timer_counter < MaxStarts
        /\ timeout' = [timeout EXCEPT ![t] = due]
        /\ start_id' = [start_id EXCEPT ![t] = timer_counter]
        /\ timer_counter' = timer_counter + 1
        /\ queue' = QueueInsert(queue, timeout', t)
        /\ pc' = "up" /\ cur' = t
        /\ heap' = Inserted(heap, t)
    BY Zenon DEF HeapInsert, Inserted
  <1>2. PICK a : Tree(a)
    BY Zenon DEF HeapInv
  <1>3. /\ Shape(heap, a) /\ Nodes = {a[i] : i \in 1..n} /\ IsArray(a, n) /\ Ordered(a, n, {})
    BY Zenon, <1>1, <1>2 DEF Tree, Shape
  <1>a. ArrayOK(a, n) /\ n \in Nat
    BY Zenon, <1>3, ArrayFacts DEF IsArray
  <1>4. Firing' /\ Nodes' = Nodes \cup {t}
    BY Zenon, <1>1, FiringInsert
  <1>5. \A i \in 1..n : a[i] # t /\ a[i] \in Timers
    BY Zenon, <1>a, <1>1, <1>3 DEF ArrayOK
  <1>6. PICK b : b = [a EXCEPT ![n + 1] = t]
    BY Zenon
  <1>7. Shape(heap', b) /\ heap'.nelts = n + 1
    BY Zenon, <1>1, <1>3, <1>5, <1>6, InsertShape
  <1>8. b[n + 1] = t /\ \A i \in 1..n : b[i] = a[i]
    BY SMTT(20), <1>a, <1>3, <1>6 DEF IsArray
  <1>9. Nodes' = {b[i] : i \in 1..n + 1}
    <2>1. 1..n + 1 = (1..n) \cup {n + 1}
      BY <1>a
    <2> QED BY <1>3, <1>4, <1>8, <2>1
  <1>10. /\ timeout \in [Timers -> Dues \cup {0}] /\ start_id \in [Timers -> 0..MaxStarts]
         /\ timer_counter \in 0..MaxStarts /\ MaxStarts \in Nat
    BY Zenon, HeapTypes DEF HeapInv
  <1>11. /\ timeout' \in [Timers -> Dues \cup {0}] /\ start_id' \in [Timers -> 0..MaxStarts]
         /\ timer_counter' \in 0..MaxStarts
         /\ \A x \in Timers : x # t => timeout'[x] = timeout[x] /\ start_id'[x] = start_id[x]
    BY <1>1, <1>10
  <1>12. ASSUME NEW i \in 2..n + 1, i # n + 1
         PROVE  Lt(timeout', start_id', b[i \div 2], b[i])
    <2>1. i \in 2..n /\ i \in 1..n /\ i \div 2 \in 1..n
      BY <1>a, <1>12, Half
    <2>2. LessThan(a[i \div 2], a[i])
      BY Zenon, <1>3, <2>1 DEF Ordered
    <2>3. a[i] \in Timers /\ a[i] # t /\ a[i \div 2] \in Timers /\ a[i \div 2] # t
      BY Zenon, <1>5, <2>1
    <2>4. /\ timeout'[a[i]] = timeout[a[i]] /\ start_id'[a[i]] = start_id[a[i]]
          /\ timeout'[a[i \div 2]] = timeout[a[i \div 2]] /\ start_id'[a[i \div 2]] = start_id[a[i \div 2]]
      BY Zenon, <1>11, <2>3
    <2> QED BY Zenon, <1>8, <2>1, <2>2, <2>4 DEF Lt, LessThan
  <1>13. \A i \in 2..n + 1 : i \div 2 # n + 1
    BY <1>a, Half
  <1>14. n + 1 \in 1..n + 1
    BY <1>a
  <1>15. Tree(b)'
    <2>1. pc' # "idle" /\ pc' # "down"
      BY <1>1
    <2>2. PICK l : l = n + 1
      BY SMTT(20)
    <2>3. Ordered(b, heap.nelts, {l})' /\ Below(b, heap.nelts, l)'
      BY SMTT(20), <1>7, <1>12, <1>13, <2>2 DEF Ordered, Below, LessThan, Lt
    <2>4. \E i \in 1..heap'.nelts : cur' = b[i] /\ Ordered(b, heap.nelts, {i})' /\ Below(b, heap.nelts, i)'
      BY Zenon, <1>1, <1>7, <1>8, <1>14, <2>2, <2>3
    <2>5. Nodes' = {b[i] : i \in 1..heap'.nelts}
      BY <1>7, <1>9
    <2> QED BY Zenon, <1>7, <2>1, <2>4, <2>5 DEF Tree
  <1>16. pc' \in {"idle", "up", "down"} /\ pc' # "idle"
    BY <1>1
  <1> QED BY <1>4, <1>11, <1>15, <1>16 DEF HeapInv

LEMMA RemoveKeeps == ASSUME HeapInv, NEW t \in Timers, HeapRemove(t) PROVE HeapInv'
  <1> DEFINE n == heap.nelts
  <1>1. /\ pc = "idle" /\ t \in Nodes /\ queue' = QueueRemove(queue, t)
        /\ UNCHANGED <<timeout, start_id, timer_counter>>
        /\ IF NodeAt(heap)[n] = t
           THEN heap' = [Unlinked(heap) EXCEPT !.parent[t] = Null] /\ UNCHANGED <<pc, cur>>
           ELSE /\ heap' = Replace(Unlinked(heap), t, NodeAt(heap)[n])
                /\ pc' = "down" /\ cur' = NodeAt(heap)[n]
    BY Zenon DEF HeapRemove, Unlinked
  <1>2. PICK a : Tree(a)
    BY Zenon DEF HeapInv
  <1>3. /\ Shape(heap, a) /\ Nodes = {a[i] : i \in 1..n} /\ IsArray(a, n) /\ Ordered(a, n, {})
    BY Zenon, <1>1, <1>2 DEF Tree, Shape
  <1>a. ArrayOK(a, n) /\ n \in Nat
    BY Zenon, <1>3, ArrayFacts DEF IsArray
  <1>4. Firing' /\ Nodes' = Nodes \ {t}
    BY <1>1, FiringRemove
  <1>5. PICK k \in 1..n : a[k] = t
    BY <1>1, <1>3
  <1>6. n # 0 /\ n \in 1..n /\ n - 1 \in Nat /\ 1..n - 1 = (1..n) \ {n} /\ k \in Nat
    BY <1>a
  <1>7. NodeAt(heap)[n] = a[n]
    BY Zenon, <1>3, <1>6, UnlinkedIs
  <1>8. LessType
    BY Zenon, HeapTypes
  <1>9. SUFFICES (\E b : Tree(b)') /\ pc' \in {"idle", "down"} /\ (pc' = "idle" => cur' = Null)
    BY <1>1, <1>4, <1>9 DEF HeapInv
  <1>10. CASE k = n
    <2>1. heap' = [Unlinked(heap) EXCEPT !.parent[a[n]] = Null] /\ pc' = pc /\ cur' = cur
      BY SMTT(20), <1>1, <1>5, <1>7, <1>10
    <2>2. PICK b : b = [a EXCEPT ![n] = Null]
      BY Zenon
    <2>3. Shape(heap', b) /\ heap'.nelts = n - 1
      BY Zenon, <1>3, <1>6, <2>1, <2>2, RemoveLastShape
    <2>4. \A i \in 1..n - 1 : b[i] = a[i]
      BY SMTT(20), <1>a, <1>3, <2>2 DEF IsArray
    <2>5. Nodes' = {b[i] : i \in 1..n - 1}
      <3>1. \A i \in 1..n - 1 : a[i] # t
        BY SMTT(20), <1>a, <1>5, <1>6, <1>10 DEF ArrayOK
      <3> QED BY SMTT(20), <1>3, <1>4, <1>5, <1>6, <1>10, <2>4, <3>1
    <2>6. \A i \in 2..n - 1 : i \in 2..n /\ i \in 1..n - 1 /\ i \div 2 \in 1..n - 1
      BY <1>6, Half
    <2>7. \A i \in 2..n - 1 : LessThan(b[i \div 2], b[i])
      BY Zenon, <1>3, <2>4, <2>6 DEF Ordered
    <2>8. Ordered(b, heap.nelts, {})'
      BY Zenon, <1>1, <2>3, <2>7 DEF Ordered, LessThan
    <2>9. Tree(b)'
      <3>1. pc' # "up" /\ pc' # "down"
        BY <1>1, <2>1
      <3>2. Nodes' = {b[i] : i \in 1..heap'.nelts}
        BY Zenon, <2>3, <2>5
      <3> QED BY Zenon, <2>3, <2>8, <3>1, <3>2 DEF Tree
    <2>10. cur = Null
      BY Zenon, <1>1 DEF HeapInv
    <2> QED BY <1>1, <2>1, <2>9, <2>10
  <1>11. CASE k # n
    <2>0. a[n] # a[k]
      BY <1>3, <1>6, <1>11 DEF IsArray
    <2>1. heap' = Replace(Unlinked(heap), a[k], a[n]) /\ pc' = "down" /\ cur' = a[n]
      BY <1>1, <1>5, <1>7, <2>0
    <2>2. PICK b : b = [a EXCEPT ![n] = Null, ![k] = a[n]]
      BY Zenon
    <2>3. Shape(heap', b) /\ heap'.nelts = n - 1
      BY Zenon, <1>3, <1>11, <2>1, <2>2, ReplaceShape
    <2>4. b[k] = a[n] /\ \A i \in 1..n - 1 : i # k => b[i] = a[i]
      BY SMTT(20), <1>a, <1>3, <1>6, <1>11, <2>2 DEF IsArray
    <2>5. Nodes' = {b[i] : i \in 1..n - 1}
      <3>1. \A i \in 1..n : a[i] # t <=> i # k
        BY <1>a, <1>5, <1>6 DEF ArrayOK
      <3>2. ASSUME NEW x \in Nodes' PROVE \E i \in 1..n - 1 : b[i] = x
        <4>1. PICK i \in 1..n : a[i] = x
          BY <1>3, <1>4
        <4>2. i # k
          BY <1>4, <3>1, <4>1
        <4>3. CASE i = n
          <5>1. k \in 1..n - 1
            BY <1>6, <1>11
          <5> QED BY Zenon, <2>4, <4>1, <4>3, <5>1
        <4>4. CASE i # n
          <5>1. i \in 1..n - 1
            BY <1>6, <4>4
          <5> QED BY Zenon, <2>4, <4>1, <4>2, <5>1
        <4> QED BY Zenon, <4>3, <4>4
      <3>3. ASSUME NEW i \in 1..n - 1 PROVE b[i] \in Nodes'
        <4>1. i \in 1..n /\ i # n
          BY SMTT(20), <1>6
        <4>2. CASE i = k
          BY SMTT(20), <1>3, <1>4, <1>6, <1>11, <2>4, <3>1, <4>2
        <4>3. CASE i # k
          BY SMTT(20), <1>3, <1>4, <2>4, <3>1, <4>1, <4>3
        <4> QED BY Zenon, <4>2, <4>3
      <3> QED BY <3>2, <3>3
    <2>6. \A i \in 2..n - 1 : i \in 2..n /\ i \in 1..n - 1 /\ i \in 1..n /\ i \div 2 \in 1..n - 1
                              /\ (i \div 2 = k <=> i = 2 * k \/ i = 2 * k + 1) /\ (i \div 2 = k => i # k)
      BY <1>6, Half
    <2>7. \A i \in 2..n - 1 : i # k /\ i # 2 * k /\ i # 2 * k + 1 => LessThan(b[i \div 2], b[i])
      BY Zenon, <1>3, <2>4, <2>6 DEF Ordered
    <2>8. ASSUME k >= 2, NEW i \in 2..n - 1, i \div 2 = k PROVE LessThan(b[k \div 2], b[i])
      <3>1. /\ k \in 2..n /\ k \in 1..n /\ k \div 2 \in 1..n - 1 /\ k \div 2 \in 1..n /\ k \div 2 # k
        BY <1>6, <1>11, <2>8, Half
      <3>2. LessThan(a[k \div 2], a[k]) /\ LessThan(a[k], a[i])
        BY Zenon, <1>3, <2>6, <2>8, <3>1 DEF Ordered
      <3>3. a[k \div 2] \in Timers /\ a[k] \in Timers /\ a[i] \in Timers
        BY Zenon, <1>a, <2>6, <3>1 DEF ArrayOK
      <3>4. LessThan(a[k \div 2], a[i])
        BY Zenon, <1>8, <3>2, <3>3, LessTrans
      <3> QED BY Zenon, <2>4, <2>6, <2>8, <3>1, <3>4
    <2>9. Ordered(b, heap.nelts, {k, 2 * k, 2 * k + 1})' /\ Below(b, heap.nelts, k)'
      <3>1. Ordered(b, n - 1, {k, 2 * k, 2 * k + 1}) /\ Below(b, n - 1, k)
        BY Zenon, <2>7, <2>8 DEF Ordered, Below
      <3>2. PICK l : l = n - 1
        OBVIOUS
      <3>3. Ordered(b, l, {k, 2 * k, 2 * k + 1})' /\ Below(b, l, k)'
        BY Zenon, <1>1, <3>1, <3>2 DEF Ordered, Below, LessThan
      <3> QED BY Zenon, <2>3, <3>2, <3>3 DEF Ordered, Below
    <2>10. Tree(b)'
      <3>1. pc' # "idle" /\ pc' # "up"
        BY SMTT(20), <2>1
      <3>2. k \in 1..heap'.nelts /\ cur' = b[k]
        BY SMTT(20), <1>6, <1>11, <2>1, <2>3, <2>4
      <3>3. Nodes' = {b[i] : i \in 1..heap'.nelts}
        BY Zenon, <2>3, <2>5
      <3> QED BY Zenon, <2>3, <2>9, <3>1, <3>2, <3>3 DEF Tree
    <2>11. pc' # "idle"
      BY <2>1
    <2> QED BY Zenon, <2>1, <2>10, <2>11
  <1> QED BY <1>10, <1>11


LEMMA HeapStarts == ASSUME Init PROVE HeapInv
  <1>1. /\ heap = [min |-> Null, nelts |-> 0, left |-> [t \in Timers |-> Null],
                   right |-> [t \in Timers |-> Null], parent |-> [t \in Timers |-> Null]]
        /\ timeout = [t \in Timers |-> 0] /\ start_id = [t \in Timers |-> 0]
        /\ timer_counter = 0 /\ pc = "idle" /\ cur = Null /\ queue = <<>>
    BY Zenon DEF Init
  <1>2. heap \in HeapType /\ heap.nelts = 0 /\ heap.min = Null
        /\ \A t \in Timers : heap.left[t] = Null /\ heap.right[t] = Null /\ heap.parent[t] = Null
    BY <1>1 DEF HeapType
  <1>3. PICK a : a = [i \in Nat |-> Null]
    BY Zenon
  <1>4. \A i \in 1..0 : FALSE
    OBVIOUS
  <1>5. IsArray(a, 0)
    <2>1. \A i \in Nat : a[i] \notin Timers /\ i \notin 1..0
      BY <1>3, <1>4, HeapAssumption
    <2>2. a \in [Nat -> Timers \cup {Null}] /\ 0 \in Nat
      BY <1>3
    <2> QED BY Zenon, <1>4, <2>1, <2>2 DEF IsArray
  <1>6. Shape(heap, a)
    <2>1. a[1] = Null
      BY <1>3
    <2> QED BY Zenon, <1>2, <1>4, <1>5, <2>1 DEF Shape, Down, Up, Out
  <1>7. queue \in Seq(Timers) /\ 1..Len(queue) = {} /\ Nodes = {}
    BY <1>1 DEF Nodes
  <1>8. Firing
    BY Zenon, <1>7 DEF Firing, Once
  <1>9. Tree(a)
    <2>1. \A i \in 2..0 : FALSE
      OBVIOUS
    <2>2. Ordered(a, 0, {})
      BY Zenon, <2>1 DEF Ordered
    <2>3. Nodes = {a[i] : i \in 1..0}
      BY <1>4, <1>7
    <2>4. pc # "up" /\ pc # "down"
      BY <1>1
    <2> QED BY Zenon, <1>2, <1>6, <2>2, <2>3, <2>4 DEF Tree
  <1>10. /\ timeout \in [Timers -> Dues \cup {0}] /\ start_id \in [Timers -> 0..MaxStarts]
         /\ timer_counter \in 0..MaxStarts /\ pc \in {"idle", "up", "down"}
    BY <1>1, HeapAssumption
  <1> QED BY Zenon, <1>1, <1>8, <1>9, <1>10 DEF HeapInv

LEMMA HeapStays ==
    ASSUME HeapInv, UNCHANGED <<timeout, pc, queue, heapVars>>
    PROVE  HeapInv'
  <1>1. /\ timeout' = timeout /\ start_id' = start_id /\ timer_counter' = timer_counter
        /\ pc' = pc /\ cur' = cur /\ queue' = queue /\ heap' = heap
    BY Zenon DEF heapVars
  <1>2. Firing'
    BY Zenon, <1>1, FiringSame DEF HeapInv
  <1>3. PICK a : Tree(a)
    BY Zenon DEF HeapInv
  <1>4. \A S : Ordered(a, heap.nelts, S)' <=> Ordered(a, heap.nelts, S)
    BY Zenon, <1>1 DEF Ordered, LessThan
  <1>5. \A k : Below(a, heap.nelts, k)' <=> Below(a, heap.nelts, k)
    BY <1>1 DEF Below, LessThan
  <1>6. Nodes' = Nodes
    BY Zenon, <1>1 DEF Nodes
  <1>7. Tree(a)'
    BY Zenon, <1>1, <1>3, <1>4, <1>5, <1>6 DEF Tree
  <1> QED BY Zenon, <1>1, <1>2, <1>7 DEF HeapInv

\* In a tree in order every node is after the root.
LEMMA RootFirst ==
    ASSUME LessType, NEW a, NEW n, IsArray(a, n), Ordered(a, n, {})
    PROVE  \A i \in 1..n : i = 1 \/ LessThan(a[1], a[i])
  <1> DEFINE S == {i \in 1..n : i = 1 \/ LessThan(a[1], a[i])}
  <1>1. ArrayOK(a, n) /\ n \in Nat
    BY ArrayFacts DEF IsArray
  <1>2. ASSUME NEW i \in 1..n, \A j \in 1..i - 1 : j \in S PROVE i \in S
    <2>1. CASE i = 1
      BY <2>1
    <2>2. CASE i # 1
      <3>1. i \in 2..n /\ i \div 2 \in 1..i - 1 /\ i \div 2 \in 1..n /\ 1 \in 1..n
        BY <1>1, <2>2, Half
      <3>2. LessThan(a[i \div 2], a[i])
        BY Zenon, <3>1 DEF Ordered
      <3>3. i \div 2 = 1 \/ LessThan(a[1], a[i \div 2])
        BY Zenon, <1>2, <3>1
      <3>4. a[1] \in Timers /\ a[i] \in Timers /\ a[i \div 2] \in Timers
        BY Zenon, <1>1, <3>1 DEF ArrayOK
      <3>5. LessThan(a[1], a[i])
        BY Zenon, <3>2, <3>3, <3>4, LessTrans
      <3> QED BY Zenon, <3>5
    <2> QED BY <2>1, <2>2
  <1>3. \A i \in 1..n : i \in S
    <2> HIDE DEF S
    <2> QED BY Zenon, <1>1, <1>2, Induction
  <1> QED BY Zenon, <1>3

LEMMA TreeExact == ASSUME HeapInv PROVE TypeOK /\ CompleteTree
  <1> DEFINE n == heap.nelts
             N == Cardinality(Timers)
  <1>1. PICK a : Tree(a)
    BY Zenon DEF HeapInv
  <1>2. /\ Shape(heap, a) /\ Nodes = {a[i] : i \in 1..n} /\ heap \in HeapType
        /\ IsArray(a, n) /\ Down(heap, a, n) /\ Up(heap, a, n)
    BY Zenon, <1>1 DEF Tree, Shape
  <1>3. Cardinality(Nodes) = n /\ n <= N /\ N \in Nat /\ n \in Nat /\ ArrayOK(a, n)
    <2>1. Cardinality({a[i] : i \in 1..n}) = n /\ n <= N /\ N \in Nat
      BY Zenon, <1>2, ArraySize
    <2>2. ArrayOK(a, n) /\ n \in Nat
      BY Zenon, <1>2, ArrayFacts DEF IsArray
    <2> QED BY Zenon, <1>2, <2>1, <2>2
  <1>4. \A i \in 1..N : NodeAt(heap)[i] = a[i]
    BY Zenon, <1>2, NodeAtIs
  <1>5. (\A i \in 1..n : i \in 1..N) /\ (\A i \in n + 1..N : i \in 1..N /\ i \in Nat /\ i \notin 1..n)
    BY SMTT(20), <1>3
  <1>6. {NodeAt(heap)[i] : i \in 1..n} = Nodes
    BY <1>2, <1>4, <1>5
  <1>7. \A i \in n + 1..N : NodeAt(heap)[i] = Null
    BY Zenon, <1>3, <1>4, <1>5 DEF ArrayOK
  <1>8. ASSUME NEW i \in 1..n
        PROVE  heap.parent[NodeAt(heap)[i]] = IF i = 1 THEN Null ELSE NodeAt(heap)[i \div 2]
    <2>1. heap.parent[NodeAt(heap)[i]] = a[i \div 2]
      BY Zenon, <1>2, <1>4, <1>5 DEF Up
    <2>2. CASE i = 1
      <3>1. i \div 2 = 0
        BY <2>2
      <3> QED BY Zenon, <1>3, <2>1, <2>2, <3>1 DEF ArrayOK
    <2>3. CASE i # 1
      <3>1. i \div 2 \in 1..N
        BY <1>3, <2>3, Half
      <3> QED BY Zenon, <1>4, <2>1, <2>3, <3>1
    <2> QED BY Zenon, <2>2, <2>3
  <1>9. CompleteTree
    BY Zenon, <1>3, <1>6, <1>7, <1>8 DEF CompleteTree
  <1>10. cur \in IF pc = "idle" THEN {Null} ELSE Nodes
    <2>1. CASE pc = "idle"
      BY Zenon, <2>1 DEF HeapInv
    <2>2. CASE pc # "idle"
      <3>1. pc = "up" \/ pc = "down"
        BY Zenon, <2>2 DEF HeapInv
      <3>2. \E k \in 1..n : cur = a[k]
        BY Zenon, <1>1, <3>1 DEF Tree
      <3> QED BY <1>2, <2>2, <3>2
    <2> QED BY Zenon, <2>1, <2>2
  <1>11. heap \in [min : Timers \cup {Null}, nelts : 0..N,
                   left : [Timers -> Timers \cup {Null}], right : [Timers -> Timers \cup {Null}],
                   parent : [Timers -> Timers \cup {Null}]]
    BY <1>2, <1>3 DEF HeapType
  <1>12. TypeOK
    BY Zenon, <1>10, <1>11 DEF TypeOK, HeapInv, Firing
  <1> QED BY <1>9, <1>12

LEMMA RootExact == ASSUME HeapInv PROVE MinIsNext
  <1> SUFFICES ASSUME pc = "idle" PROVE heap.min = QueueMin(queue, Null)
    BY Zenon DEF MinIsNext
  <1> DEFINE n == heap.nelts
  <1>1. PICK a : Tree(a)
    BY Zenon DEF HeapInv
  <1>2. /\ Nodes = {a[i] : i \in 1..n} /\ IsArray(a, n) /\ heap.min = a[1] /\ Ordered(a, n, {})
    BY Zenon, <1>1 DEF Tree, Shape, Down
  <1>3. ArrayOK(a, n) /\ n \in Nat /\ LessType
    BY Zenon, <1>2, ArrayFacts, HeapTypes DEF IsArray
  <1>4. queue \in Seq(Timers) /\ Len(queue) \in Nat /\ \A i \in 1..Len(queue) : queue[i] \in Timers
    BY DEF HeapInv, Firing
  <1>5. \A x : x \in Nodes <=> In(queue, x)
    BY Zenon, <1>4, InNodes DEF Nodes
  <1>6. CASE queue = <<>>
    <2>1. n = 0
      <3>1. Nodes = {}
        BY <1>6 DEF Nodes
      <3>2. 1..n = {}
        BY <1>2, <3>1
      <3> QED BY <1>3, <3>2
    <2>2. 1 \notin 1..n /\ 1 \in Nat
      BY <2>1
    <2> QED BY Zenon, <1>2, <1>3, <1>6, <2>2 DEF ArrayOK, QueueMin
  <1>7. CASE queue # <<>>
    <2>1. 1 \in 1..Len(queue) /\ Head(queue) = queue[1]
      BY SMTT(20), <1>4, <1>7
    <2>2. PICK k \in 1..n : a[k] = queue[1]
      <3>1. queue[1] \in Nodes
        BY Zenon, <1>5, <2>1 DEF In
      <3> QED BY <1>2, <3>1
    <2>3. 1 \in 1..n /\ a[1] \in Timers /\ a[k] \in Timers
      BY <1>3, <2>2 DEF ArrayOK
    <2>4. PICK j \in 1..Len(queue) : queue[j] = a[1]
      <3>1. a[1] \in Nodes
        BY <1>2, <2>3
      <3> QED BY Zenon, <1>5, <3>1 DEF In
    <2>5. a[1] = queue[1]
      <3> SUFFICES ASSUME a[1] # queue[1] PROVE FALSE
        OBVIOUS
      <3>1. LessThan(a[1], a[k])
        BY Zenon, <1>2, <1>3, <2>2, RootFirst
      <3>2. 1 < j
        BY SMTT(20), <1>4, <2>4
      <3>3. LessThan(queue[1], queue[j])
        BY <2>1, <3>2 DEF HeapInv, Firing
      <3> QED BY Zenon, <1>3, <2>2, <2>3, <2>4, <3>1, <3>3, LessAsym
    <2> QED BY <1>2, <1>7, <2>1, <2>5 DEF QueueMin
  <1> QED BY <1>6, <1>7

\* The binary heap of heap-inl.h is a complete tree of the active timers with matching
\* links after every step of heap_insert and heap_remove, and between two calls heap_min
\* is the timer that fires first; for every set of timers and timeouts.
THEOREM HeapAlwaysExact == SpecBoth => []HeapExact
  <1> DEFINE Inv == kind = "heap" => HeapInv
  <1>1. InitBoth => Inv
    BY Zenon, HeapStarts DEF InitBoth
  <1>2. ASSUME Inv, [NextBoth]_<<kind, vars>> PROVE Inv'
    <2> SUFFICES ASSUME kind' = "heap" PROVE HeapInv'
      BY Zenon
    <2>1. CASE UNCHANGED <<kind, vars>>
      BY Zenon, <1>2, <2>1, HeapStays DEF vars
    <2>2. CASE NextBoth
      <3>1. kind = "heap" /\ Next /\ HeapInv
        BY Zenon, <1>2, <2>2 DEF NextBoth
      <3> QED BY Zenon, <3>1, InsertKeeps, RemoveKeeps, UpKeeps, DownKeeps DEF Next
    <2> QED BY <1>2, <2>1, <2>2
  <1>3. Inv => HeapExact
    BY Zenon, TreeExact, RootExact DEF HeapExact
  <1> QED BY <1>1, <1>2, <1>3, PTL DEF SpecBoth
=============================================================================
