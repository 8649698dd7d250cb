-------------------------- MODULE EventLoopProofs ---------------------------
(***************************************************************************)
(* Proofs about EventLoop, for any handles, threads and arguments.         *)
(***************************************************************************)
EXTENDS EventLoop, FiniteSetTheorems, TLAPS

-----------------------------------------------------------------------------
(***************************************************************************)
(* Lists of handles.  In(q, h): h is linked into q.  Once(q): no handle    *)
(* occurs twice.                                                           *)
(***************************************************************************)
In(q, h) == \E i \in 1..Len(q) : q[i] = h
Once(q) == \A i, j \in 1..Len(q) : q[i] = q[j] => i = j

\* QUEUE_INSERT_TAIL adds exactly its node.
LEMMA AppendIn ==
    ASSUME NEW S, NEW q \in Seq(S), NEW x \in S
    PROVE  /\ Append(q, x) \in Seq(S)
           /\ \A r : In(Append(q, x), r) <=> In(q, r) \/ r = x
           /\ Once(q) /\ ~In(q, x) => Once(Append(q, x))
  <1>1. Append(q, x) \in Seq(S) /\ Len(Append(q, x)) = Len(q) + 1 /\ Len(q) \in Nat
    OBVIOUS
  <1>2. /\ \A i \in 1..Len(q) : Append(q, x)[i] = q[i]
        /\ Append(q, x)[Len(q) + 1] = x
    OBVIOUS
  <1>3. ASSUME NEW r PROVE In(Append(q, x), r) <=> In(q, r) \/ r = x
    <2>1. In(Append(q, x), r) => In(q, r) \/ r = x
      BY <1>1, <1>2 DEF In
    <2>2. In(q, r) => In(Append(q, x), r)
      BY <1>1, <1>2 DEF In
    <2>3. r = x => In(Append(q, x), r)
      BY <1>1, <1>2 DEF In
    <2> QED BY Zenon, <2>1, <2>2, <2>3
  <1>4. Once(q) /\ ~In(q, x) => Once(Append(q, x))
    BY <1>1, <1>2 DEF In, Once
  <1> QED BY Zenon, <1>1, <1>3, <1>4

\* Taking the head of a list removes exactly that node.
LEMMA TailIn ==
    ASSUME NEW S, NEW q \in Seq(S), q # <<>>, Once(q)
    PROVE  /\ Head(q) \in S /\ In(q, Head(q))
           /\ Tail(q) \in Seq(S) /\ Once(Tail(q))
           /\ \A r : In(Tail(q), r) <=> In(q, r) /\ r # Head(q)
  <1>1. Len(q) \in Nat /\ Len(q) > 0 /\ Head(q) = q[1] /\ Head(q) \in S
    OBVIOUS
  <1>2. Tail(q) \in Seq(S) /\ Len(Tail(q)) = Len(q) - 1
    OBVIOUS
  <1>3. \A i \in 1..Len(Tail(q)) : Tail(q)[i] = q[i + 1]
    OBVIOUS
  <1>4. \A i \in 1..Len(Tail(q)) : i + 1 \in 1..Len(q) /\ i + 1 # 1
    BY <1>1, <1>2
  <1>5. 1 \in 1..Len(q) /\ In(q, Head(q))
    BY <1>1 DEF In
  <1>6. Once(Tail(q))
    <2> SUFFICES ASSUME NEW i \in 1..Len(Tail(q)), NEW j \in 1..Len(Tail(q)),
                        Tail(q)[i] = Tail(q)[j]
                 PROVE  i = j
      BY Zenon DEF Once
    <2>1. i + 1 = j + 1
      BY Zenon, <1>3, <1>4 DEF Once
    <2> QED BY <2>1
  <1>7. ASSUME NEW r PROVE In(Tail(q), r) <=> In(q, r) /\ r # Head(q)
    <2>1. In(Tail(q), r) => In(q, r) /\ r # Head(q)
      BY ZenonT(60), <1>1, <1>3, <1>4, <1>5 DEF In, Once
    <2>2. ASSUME In(q, r), r # Head(q) PROVE In(Tail(q), r)
      <3>1. PICK i \in 1..Len(q) : q[i] = r
        BY Zenon, <2>2 DEF In
      <3>2. i # 1 /\ i - 1 \in 1..Len(Tail(q)) /\ (i - 1) + 1 = i
        BY <1>1, <1>2, <2>2, <3>1
      <3>3. Tail(q)[i - 1] = r
        BY Zenon, <1>3, <3>1, <3>2
      <3> QED BY Zenon, <3>2, <3>3 DEF In
    <2> QED BY Zenon, <2>1, <2>2
  <1> QED BY Zenon, <1>1, <1>2, <1>5, <1>6, <1>7

LEMMA ConcatIs ==
    ASSUME NEW S, NEW a \in Seq(S), NEW b \in Seq(S)
    PROVE  /\ a \o b \in Seq(S)
           /\ Len(a \o b) = Len(a) + Len(b)
           /\ \A i \in 1..Len(a) + Len(b) :
                 (a \o b)[i] = IF i <= Len(a) THEN a[i] ELSE b[i - Len(a)]
  OBVIOUS

InsertAt(q, n, x) == SubSeq(q, 1, n) \o <<x>> \o SubSeq(q, n + 1, Len(q))

\* A node put behind the first n nodes of a list.
LEMMA InsertIn ==
    ASSUME NEW S, NEW q \in Seq(S), NEW x \in S, NEW n \in 0..Len(q), Once(q), ~In(q, x)
    PROVE  /\ InsertAt(q, n, x) \in Seq(S) /\ Once(InsertAt(q, n, x))
           /\ \A r : In(InsertAt(q, n, x), r) <=> In(q, r) \/ r = x
  <1> DEFINE u == InsertAt(q, n, x)
             a == SubSeq(q, 1, n)
             b == SubSeq(q, n + 1, Len(q))
             ax == a \o <<x>>
  <1>0. Len(q) \in Nat /\ n \in Nat
    OBVIOUS
  <1>1. /\ a \in Seq(S) /\ Len(a) = n /\ \A i \in 1..n : a[i] = q[i]
    BY <1>0
  <1>2. /\ b \in Seq(S) /\ Len(b) = Len(q) - n
        /\ \A i \in 1..Len(q) - n : b[i] = q[n + i]
    BY <1>0
  <1> HIDE DEF a, b
  <1>3. /\ ax \in Seq(S) /\ Len(ax) = n + 1
        /\ \A i \in 1..n : ax[i] = q[i]
        /\ ax[n + 1] = x
    BY <1>0, <1>1
  <1> HIDE DEF ax
  <1>4. /\ ax \o b \in Seq(S)
        /\ Len(ax \o b) = Len(ax) + Len(b)
        /\ \A i \in 1..Len(ax) + Len(b) :
              (ax \o b)[i] = IF i <= Len(ax) THEN ax[i] ELSE b[i - Len(ax)]
    BY Zenon, <1>2, <1>3, ConcatIs
  <1>5. u = ax \o b
    BY Zenon DEF ax, a, b, InsertAt
  <1> HIDE DEF u
  <1> DEFINE at(i) == IF i <= n THEN i ELSE i - 1
  <1>6. u \in Seq(S) /\ Len(u) = Len(q) + 1
    <2>1. u \in Seq(S) /\ Len(u) = Len(ax) + Len(b)
      BY Zenon, <1>4, <1>5
    <2> QED BY <1>0, <1>2, <1>3, <2>1
  <1>7. ASSUME NEW i \in 1..Len(u), i # n + 1 PROVE u[i] = q[at(i)] /\ at(i) \in 1..Len(q)
    <2>0. i \in 1..Len(ax) + Len(b)
      BY <1>0, <1>2, <1>3, <1>6
    <2>1. CASE i <= n
      BY <1>0, <1>3, <1>4, <1>5, <1>6, <2>0, <2>1
    <2>2. CASE ~(i <= n)
      <3>1. ~(i <= Len(ax)) /\ i - Len(ax) \in 1..Len(q) - n
        BY <1>0, <1>3, <1>6, <1>7, <2>2
      <3>2. u[i] = b[i - Len(ax)]
        BY Zenon, <1>4, <1>5, <2>0, <3>1
      <3>3. b[i - Len(ax)] = q[n + (i - Len(ax))]
        BY Zenon, <1>2, <3>1
      <3>4. n + (i - Len(ax)) = at(i) /\ at(i) \in 1..Len(q)
        BY <1>0, <1>3, <1>6, <1>7, <2>2
      <3> QED BY Zenon, <3>2, <3>3, <3>4
    <2> QED BY Zenon, <2>1, <2>2
  <1>8. u[n + 1] = x /\ n + 1 \in 1..Len(u)
    BY <1>0, <1>2, <1>3, <1>4, <1>5, <1>6
  <1>9. \A i, j \in 1..Len(u) : i # n + 1 /\ j # n + 1 /\ at(i) = at(j) => i = j
    BY <1>0, <1>6
  <1>10. \A k \in 1..Len(q) : \E i \in 1..Len(u) : i # n + 1 /\ at(i) = k
    <2> SUFFICES ASSUME NEW k \in 1..Len(q) PROVE \E i \in 1..Len(u) : i # n + 1 /\ at(i) = k
      OBVIOUS
    <2>1. CASE k <= n
      <3>1. k \in 1..Len(u) /\ k # n + 1 /\ at(k) = k
        BY <1>0, <1>6, <2>1
      <3> QED BY Zenon, <3>1
    <2>2. CASE ~(k <= n)
      <3>1. k + 1 \in 1..Len(u) /\ k + 1 # n + 1 /\ at(k + 1) = k
        BY <1>0, <1>6, <2>2
      <3> QED BY Zenon, <3>1
    <2> QED BY Zenon, <2>1, <2>2
  <1> HIDE DEF at
  <1>11. \A i \in 1..Len(u) : i # n + 1 => u[i] # x
    BY Zenon, <1>7 DEF In
  <1>12. Once(u)
    BY Zenon, <1>7, <1>8, <1>9, <1>11 DEF Once
  <1>13. ASSUME NEW r PROVE In(u, r) <=> In(q, r) \/ r = x
    <2>1. In(u, r) => In(q, r) \/ r = x
      BY Zenon, <1>7, <1>8 DEF In
    <2>2. In(q, r) => In(u, r)
      BY Zenon, <1>7, <1>10 DEF In
    <2>3. r = x => In(u, r)
      BY Zenon, <1>8 DEF In
    <2> QED BY Zenon, <2>1, <2>2, <2>3
  <1> QED BY Zenon, <1>6, <1>12, <1>13 DEF u

\* Linking a closing handle in front of the others.
LEMMA ConsIn ==
    ASSUME NEW S, NEW q \in Seq(S), NEW x \in S, Once(q), ~In(q, x)
    PROVE  /\ <<x>> \o q \in Seq(S) /\ Once(<<x>> \o q)
           /\ \A r : In(<<x>> \o q, r) <=> In(q, r) \/ r = x
  <1>1. 0 \in 0..Len(q)
    OBVIOUS
  <1>2. <<x>> \o q = SubSeq(q, 1, 0) \o <<x>> \o SubSeq(q, 0 + 1, Len(q))
    <2>1. SubSeq(q, 1, 0) = <<>> /\ SubSeq(q, 0 + 1, Len(q)) = q
      OBVIOUS
    <2>2. <<>> \o <<x>> = <<x>>
      OBVIOUS
    <2> QED BY Zenon, <2>1, <2>2
  <1> QED BY Zenon, <1>1, <1>2, InsertIn DEF InsertAt

\* QUEUE_REMOVE and heap_remove remove exactly their node.
LEMMA RemoveIn ==
    ASSUME NEW S, NEW q \in Seq(S), NEW x, Once(q)
    PROVE  /\ QueueRemove(q, x) \in Seq(S) /\ Once(QueueRemove(q, x))
           /\ \A r : In(QueueRemove(q, x), r) <=> In(q, r) /\ r # x
  <1>1. CASE ~In(q, x)
    <2>1. QueueRemove(q, x) = q
      BY Zenon, <1>1 DEF QueueRemove, In
    <2> QED BY Zenon, <1>1, <2>1
  <1>2. CASE In(q, x)
    <2> DEFINE k == CHOOSE i \in 1..Len(q) : q[i] = x
               u == QueueRemove(q, x)
               a == SubSeq(q, 1, k - 1)
               b == SubSeq(q, k + 1, Len(q))
    <2>1. k \in 1..Len(q) /\ q[k] = x
      BY Zenon, <1>2 DEF In
    <2>2. u = a \o b
      BY <1>2, Zenon DEF QueueRemove, In
    <2> HIDE DEF k, u
    <2>3. Len(q) \in Nat /\ k \in Nat
      BY <2>1
    <2>4. a \in Seq(S) /\ Len(a) = k - 1 /\ \A i \in 1..k - 1 : a[i] = q[i]
      BY <2>1, <2>3
    <2>5. /\ b \in Seq(S) /\ Len(b) = Len(q) - k
          /\ \A i \in 1..Len(q) - k : b[i] = q[k + i]
      BY <2>1, <2>3
    <2> HIDE DEF a, b
    <2>6. /\ u \in Seq(S) /\ Len(u) = Len(a) + Len(b)
          /\ \A i \in 1..Len(a) + Len(b) :
                u[i] = IF i <= Len(a) THEN a[i] ELSE b[i - Len(a)]
      BY Zenon, <2>2, <2>4, <2>5, ConcatIs
    <2>7. Len(u) = Len(q) - 1
      BY <2>1, <2>3, <2>4, <2>5, <2>6
    <2> DEFINE at(i) == IF i < k THEN i ELSE i + 1
    <2>8. ASSUME NEW i \in 1..Len(u) PROVE u[i] = q[at(i)] /\ at(i) \in 1..Len(q) /\ at(i) # k
      <3>1. i \in 1..Len(a) + Len(b) /\ at(i) \in 1..Len(q) /\ at(i) # k
        BY <2>1, <2>3, <2>4, <2>5, <2>7
      <3>2. CASE i < k
        BY <2>3, <2>4, <2>6, <3>1, <3>2
      <3>3. CASE ~(i < k)
        <4>1. ~(i <= Len(a)) /\ i - Len(a) \in 1..Len(q) - k /\ k + (i - Len(a)) = at(i)
          BY <2>1, <2>3, <2>4, <2>7, <3>3
        <4>2. u[i] = b[i - Len(a)]
          BY Zenon, <2>6, <3>1, <4>1
        <4> QED BY Zenon, <2>5, <3>1, <4>1, <4>2
      <3> QED BY Zenon, <3>2, <3>3
    <2>9. \A i, j \in 1..Len(u) : at(i) = at(j) => i = j
      BY <2>1, <2>3, <2>7
    <2>10. ASSUME NEW j \in 1..Len(q), j # k PROVE \E i \in 1..Len(u) : at(i) = j
      <3>1. CASE j < k
        <4>1. j \in 1..Len(u) /\ at(j) = j
          BY <2>1, <2>3, <2>7, <3>1
        <4> QED BY Zenon, <4>1
      <3>2. CASE ~(j < k)
        <4>1. j - 1 \in 1..Len(u) /\ at(j - 1) = j
          BY <2>1, <2>3, <2>7, <2>10, <3>2
        <4> QED BY Zenon, <4>1
      <3> QED BY Zenon, <3>1, <3>2
    <2> HIDE DEF at
    <2>11. Once(u)
      BY Zenon, <2>8, <2>9 DEF Once
    <2>12. ASSUME NEW r PROVE In(u, r) <=> In(q, r) /\ r # x
      <3>1. In(u, r) => In(q, r) /\ r # x
        BY Zenon, <2>1, <2>8 DEF In, Once
      <3>2. ASSUME In(q, r), r # x PROVE In(u, r)
        <4>1. PICK j \in 1..Len(q) : q[j] = r
          BY Zenon, <3>2 DEF In
        <4>2. PICK i \in 1..Len(u) : at(i) = j
          BY Zenon, <2>1, <2>10, <3>2, <4>1
        <4> QED BY Zenon, <2>8, <4>1, <4>2 DEF In
      <3> QED BY Zenon, <3>1, <3>2
    <2> QED BY Zenon, <2>6, <2>11, <2>12 DEF u
  <1> QED BY Zenon, <1>1, <1>2

\* heap_insert adds exactly its timer.
LEMMA QueueInsertIn ==
    ASSUME NEW S, NEW q \in Seq(S), NEW x \in S, NEW due, Once(q), ~In(q, x)
    PROVE  /\ QueueInsert(q, due, x) \in Seq(S) /\ Once(QueueInsert(q, due, x))
           /\ \A r : In(QueueInsert(q, due, x), r) <=> In(q, r) \/ r = x
  <1> DEFINE D == {i \in DOMAIN q : due[q[i]] <= due[x]}
             n == Cardinality(D)
  <1>1. DOMAIN q = 1..Len(q) /\ Len(q) \in Nat
    OBVIOUS
  <1>2. IsFiniteSet(1..Len(q)) /\ Cardinality(1..Len(q)) = Len(q)
    BY SMTT(60), <1>1, FS_Interval
  <1>3. n \in Nat /\ n <= Len(q)
    <2>1. D \subseteq 1..Len(q)
      BY Zenon, <1>1
    <2> HIDE DEF D
    <2>2. IsFiniteSet(D) /\ Cardinality(D) <= Cardinality(1..Len(q))
      BY Zenon, <1>2, <2>1, FS_Subset
    <2>3. Cardinality(D) \in Nat
      BY Zenon, <2>2, FS_CardinalityType
    <2> QED BY Zenon, <1>1, <1>2, <2>2, <2>3
  <1>4. QueueInsert(q, due, x) = InsertAt(q, n, x)
    BY Zenon DEF QueueInsert, InsertAt
  <1> HIDE DEF n
  <1> QED BY <1>1, <1>3, <1>4, InsertIn

-----------------------------------------------------------------------------
(***************************************************************************)
(* The macros of uv-common.h.  Exact(x): in state x of the flags,          *)
(* active_handles is the number of active handles with a reference.        *)
(***************************************************************************)
Exact(x) == /\ x \in [flags : [Handles -> SUBSET Flags], active_handles : Int]
            /\ x.active_handles = Cardinality(Counted(x, Handles))

\* Only the flags of h differ.
Only(x, y, h) == \A g \in Handles \ {h} : y.flags[g] = x.flags[g]

\* The flags of h become F.
Sets(x, y, h, F) == Exact(y) /\ y.flags[h] = F /\ Only(x, y, h)

\* What a handle with flags F contributes.
Counts(F) == IF "active" \in F /\ "ref" \in F THEN 1 ELSE 0

\* A change of the flags of h that changes the count by what h contributes is exact.
LEMMA CountMoves ==
    ASSUME NEW x, Exact(x), NEW h \in Handles, NEW F \in SUBSET Flags, NEW n \in Int,
           n = x.active_handles + Counts(F) - Counts(x.flags[h])
    PROVE  Sets(x, [flags |-> [x.flags EXCEPT ![h] = F], active_handles |-> n], h, F)
  <1> DEFINE y == [flags |-> [x.flags EXCEPT ![h] = F], active_handles |-> n]
  <1>1. /\ x.flags \in [Handles -> SUBSET Flags] /\ x.active_handles \in Int
        /\ y \in [flags : [Handles -> SUBSET Flags], active_handles : Int]
        /\ y.flags = [x.flags EXCEPT ![h] = F] /\ y.active_handles = n
    BY Zenon DEF Exact
  <1>2. y.flags[h] = F /\ Only(x, y, h)
    BY Zenon, <1>1 DEF Only
  <1> DEFINE C == Counted(x, Handles)
             was == "active" \in x.flags[h] /\ "ref" \in x.flags[h]
             is == "active" \in F /\ "ref" \in F
  <1>3. Counted(y, Handles) = IF is THEN C \cup {h} ELSE C \ {h}
    BY Zenon, <1>2 DEF Counted, IsActive, HasRef, Only
  <1>4. x.active_handles = Cardinality(C)
    BY Zenon DEF Exact
  <1>5. n = x.active_handles + (IF is THEN 1 ELSE 0) - (IF was THEN 1 ELSE 0)
    BY Zenon DEF Counts
  <1>6. IsFiniteSet(C) /\ (h \in C <=> was) /\ Cardinality(C) \in Nat
    <2>1. C \subseteq Handles
      BY Zenon DEF Counted
    <2>2. IsFiniteSet(C)
      BY Zenon, <2>1, FS_Subset, HandlesAssumption
    <2>3. h \in C <=> was
      BY Zenon DEF Counted, IsActive, HasRef
    <2> QED BY Zenon, <2>2, <2>3, FS_CardinalityType
  <1> HIDE DEF C, was, is, y
  <1>7. y.active_handles = Cardinality(Counted(y, Handles))
    <2>1. CASE is
      <3>1. Cardinality(C \cup {h}) = IF h \in C THEN Cardinality(C) ELSE Cardinality(C) + 1
        BY Zenon, <1>6, FS_AddElement
      <3> QED BY <1>1, <1>3, <1>4, <1>5, <1>6, <2>1, <3>1
    <2>2. CASE ~is
      <3>1. Cardinality(C \ {h}) = IF h \in C THEN Cardinality(C) - 1 ELSE Cardinality(C)
        BY Zenon, <1>6, FS_RemoveElement
      <3> QED BY <1>1, <1>3, <1>4, <1>5, <1>6, <2>2, <3>1
    <2> QED BY Zenon, <2>1, <2>2
  <1> QED BY Zenon, <1>1, <1>2, <1>7 DEF Exact, Sets, y

\* uv__handle_init, for a handle that is not active.
LEMMA InitExact ==
    ASSUME NEW x, Exact(x), NEW h \in Handles, ~IsActive(x, h)
    PROVE  Sets(x, HandleInit(x, h), h, {"ref"})
  <1>1. x = [flags |-> x.flags, active_handles |-> x.active_handles] /\ x.active_handles \in Int
    BY Zenon DEF Exact
  <1>2. HandleInit(x, h) = [flags |-> [x.flags EXCEPT ![h] = {"ref"}],
                            active_handles |-> x.active_handles]
    BY <1>1 DEF HandleInit
  <1> DEFINE F == {"ref"}
             n == x.active_handles
  <1>3. F \in SUBSET Flags /\ n \in Int /\ n = x.active_handles + Counts(F) - Counts(x.flags[h])
    BY <1>1 DEF Counts, IsActive, Flags
  <1> HIDE DEF F, n
  <1>4. Sets(x, [flags |-> [x.flags EXCEPT ![h] = F], active_handles |-> n], h, F)
    BY Zenon, <1>3, CountMoves
  <1> QED BY Zenon, <1>2, <1>4 DEF F, n

\* uv__set_closing and the flag "closed" do not count.
LEMMA SetFlagExact ==
    ASSUME NEW x, Exact(x), NEW h \in Handles, NEW f \in {"closing", "closed"}
    PROVE  Sets(x, SetFlag(x, h, f), h, x.flags[h] \cup {f})
  <1>1. x = [flags |-> x.flags, active_handles |-> x.active_handles] /\ x.active_handles \in Int
        /\ x.flags[h] \in SUBSET Flags
    BY Zenon DEF Exact
  <1>2. SetFlag(x, h, f) = [flags |-> [x.flags EXCEPT ![h] = x.flags[h] \cup {f}],
                            active_handles |-> x.active_handles]
    BY <1>1 DEF SetFlag
  <1> DEFINE F == x.flags[h] \cup {f}
             n == x.active_handles
  <1>3. F \in SUBSET Flags
    BY Zenon, <1>1 DEF Flags
  <1>4. n \in Int /\ n = x.active_handles + Counts(F) - Counts(x.flags[h])
    BY <1>1 DEF Counts
  <1> HIDE DEF F, n
  <1>5. Sets(x, [flags |-> [x.flags EXCEPT ![h] = F], active_handles |-> n], h, F)
    BY Zenon, <1>3, <1>4, CountMoves
  <1> QED BY Zenon, <1>2, <1>5 DEF F, n

LEMMA StartExact ==
    ASSUME NEW x, Exact(x), NEW h \in Handles
    PROVE  Sets(x, HandleStart(x, h), h, x.flags[h] \cup {"active"})
  <1>1. x = [flags |-> x.flags, active_handles |-> x.active_handles] /\ x.active_handles \in Int
        /\ x.flags[h] \in SUBSET Flags
    BY Zenon DEF Exact
  <1>2. CASE IsActive(x, h)
    BY Zenon, <1>2 DEF IsActive, HandleStart, Only, Sets
  <1>3. CASE ~IsActive(x, h)
    <2> DEFINE F == x.flags[h] \cup {"active"}
               n == IF HasRef(x, h) THEN x.active_handles + 1 ELSE x.active_handles
    <2>1. HandleStart(x, h) = [flags |-> [x.flags EXCEPT ![h] = F], active_handles |-> n]
      BY Zenon, <1>1, <1>3 DEF HandleStart
    <2>2. F \in SUBSET Flags
      BY Zenon, <1>1 DEF Flags
    <2>3. n \in Int /\ n = x.active_handles + Counts(F) - Counts(x.flags[h])
      BY <1>1, <1>3 DEF Counts, IsActive, HasRef
    <2> HIDE DEF F, n
    <2>4. Sets(x, [flags |-> [x.flags EXCEPT ![h] = F], active_handles |-> n], h, F)
      BY Zenon, <2>2, <2>3, CountMoves
    <2> QED BY Zenon, <2>1, <2>4 DEF F
  <1> QED BY Zenon, <1>2, <1>3

LEMMA StopExact ==
    ASSUME NEW x, Exact(x), NEW h \in Handles
    PROVE  Sets(x, HandleStop(x, h), h, x.flags[h] \ {"active"})
  <1>1. x = [flags |-> x.flags, active_handles |-> x.active_handles] /\ x.active_handles \in Int
        /\ x.flags[h] \in SUBSET Flags
    BY Zenon DEF Exact
  <1>2. CASE ~IsActive(x, h)
    BY Zenon, <1>2 DEF IsActive, HandleStop, Only, Sets
  <1>3. CASE IsActive(x, h)
    <2> DEFINE F == x.flags[h] \ {"active"}
               n == IF HasRef(x, h) THEN x.active_handles - 1 ELSE x.active_handles
    <2>1. HandleStop(x, h) = [flags |-> [x.flags EXCEPT ![h] = F], active_handles |-> n]
      BY Zenon, <1>1, <1>3 DEF HandleStop
    <2>2. F \in SUBSET Flags
      BY Zenon, <1>1 DEF Flags
    <2>3. n \in Int /\ n = x.active_handles + Counts(F) - Counts(x.flags[h])
      BY <1>1, <1>3 DEF Counts, IsActive, HasRef
    <2> HIDE DEF F, n
    <2>4. Sets(x, [flags |-> [x.flags EXCEPT ![h] = F], active_handles |-> n], h, F)
      BY Zenon, <2>2, <2>3, CountMoves
    <2> QED BY Zenon, <2>1, <2>4 DEF F
  <1> QED BY Zenon, <1>2, <1>3

LEMMA RefExact ==
    ASSUME NEW x, Exact(x), NEW h \in Handles
    PROVE  Sets(x, HandleRef(x, h), h, x.flags[h] \cup {"ref"})
  <1>1. x = [flags |-> x.flags, active_handles |-> x.active_handles] /\ x.active_handles \in Int
        /\ x.flags[h] \in SUBSET Flags
    BY Zenon DEF Exact
  <1>2. CASE HasRef(x, h)
    BY Zenon, <1>2 DEF HasRef, HandleRef, Only, Sets
  <1>3. CASE ~HasRef(x, h)
    <2> DEFINE F == x.flags[h] \cup {"ref"}
               n == IF IsActive(x, h) THEN x.active_handles + 1 ELSE x.active_handles
    <2>1. HandleRef(x, h) = [flags |-> [x.flags EXCEPT ![h] = F], active_handles |-> n]
      BY Zenon, <1>1, <1>3 DEF HandleRef
    <2>2. F \in SUBSET Flags
      BY Zenon, <1>1 DEF Flags
    <2>3. n \in Int /\ n = x.active_handles + Counts(F) - Counts(x.flags[h])
      BY <1>1, <1>3 DEF Counts, IsActive, HasRef
    <2> HIDE DEF F, n
    <2>4. Sets(x, [flags |-> [x.flags EXCEPT ![h] = F], active_handles |-> n], h, F)
      BY Zenon, <2>2, <2>3, CountMoves
    <2> QED BY Zenon, <2>1, <2>4 DEF F
  <1> QED BY Zenon, <1>2, <1>3

LEMMA UnrefExact ==
    ASSUME NEW x, Exact(x), NEW h \in Handles
    PROVE  Sets(x, HandleUnref(x, h), h, x.flags[h] \ {"ref"})
  <1>1. x = [flags |-> x.flags, active_handles |-> x.active_handles] /\ x.active_handles \in Int
        /\ x.flags[h] \in SUBSET Flags
    BY Zenon DEF Exact
  <1>2. CASE ~HasRef(x, h)
    BY Zenon, <1>2 DEF HasRef, HandleUnref, Only, Sets
  <1>3. CASE HasRef(x, h)
    <2> DEFINE F == x.flags[h] \ {"ref"}
               n == IF IsActive(x, h) THEN x.active_handles - 1 ELSE x.active_handles
    <2>1. HandleUnref(x, h) = [flags |-> [x.flags EXCEPT ![h] = F], active_handles |-> n]
      BY Zenon, <1>1, <1>3 DEF HandleUnref
    <2>2. F \in SUBSET Flags
      BY Zenon, <1>1 DEF Flags
    <2>3. n \in Int /\ n = x.active_handles + Counts(F) - Counts(x.flags[h])
      BY <1>1, <1>3 DEF Counts, IsActive, HasRef
    <2> HIDE DEF F, n
    <2>4. Sets(x, [flags |-> [x.flags EXCEPT ![h] = F], active_handles |-> n], h, F)
      BY Zenon, <2>2, <2>3, CountMoves
    <2> QED BY Zenon, <2>1, <2>4 DEF F
  <1> QED BY Zenon, <1>2, <1>3

-----------------------------------------------------------------------------
(***************************************************************************)
(* The inductive invariant.  The count alone is not inductive: a timer     *)
(* that fires is started again from the heap and uv__handle_init forgets   *)
(* the flags of a handle, so the lists must hold only handles that are     *)
(* active, and handles that are not in the loop must not be active.        *)
(***************************************************************************)
Owed(x, h) == "closing" \in x.flags[h] /\ "closed" \notin x.flags[h]

\* List q of handles of one type holds active handles, each once.
Holds(x, q, S) == q \in Seq(S) /\ Once(q) /\ \A h : In(q, h) => IsActive(x, h)

\* List q of closing handles holds handles that wait for their callback.
Waits(x, hq, q) ==
    q \in Seq(Handles) /\ Once(q) /\ \A h : In(q, h) => h \in hq /\ Owed(x, h)

Apart(p, q) == \A h : ~(In(p, h) /\ In(q, h))

ActiveOK == \A h \in Handles : IsActive(hs, h) => h \in handle_queue /\ ~IsClosing(hs, h)
IdlesOK == /\ Holds(hs, idle_handles, Idles)
           /\ pc = "idle" => Holds(hs, queue, Idles) /\ Apart(queue, idle_handles)
AsyncsOK == /\ Holds(hs, async_handles, Asyncs)
            /\ pc = "async" => Holds(hs, queue, Asyncs) /\ Apart(queue, async_handles)
ClosingOK == /\ Waits(hs, handle_queue, closing_handles)
             /\ pc = "closing" => /\ Waits(hs, handle_queue, queue)
                                  /\ Apart(queue, closing_handles)
OwedOK == pc # "aborted" => \A h \in Handles : Owed(hs, h) =>
            In(closing_handles, h) \/ (pc = "closing" /\ In(queue, h))

LoopInv ==
    /\ handle_queue \subseteq Handles /\ Exact(hs) /\ ~IsClosing(hs, WqAsync)
    /\ ActiveOK /\ Holds(hs, timer_heap, Timers) /\ IdlesOK /\ AsyncsOK
    /\ ClosingOK /\ OwedOK

LEMMA InSeq == ASSUME NEW S, NEW q \in Seq(S), NEW h, In(q, h) PROVE h \in S
  BY DEF In

LEMMA EmptyIn == /\ \A h : ~In(<<>>, h)
                 /\ Once(<<>>) /\ \A S : <<>> \in Seq(S)
  BY DEF In, Once

LEMMA LoopInvInit == Init => LoopInv
  <1> SUFFICES ASSUME Init PROVE LoopInv
    OBVIOUS
  <1> USE HandlesAssumption
  <1>1. /\ hs.flags = [h \in Handles |-> IF h = WqAsync THEN {"active", "internal"} ELSE {}]
        /\ hs.active_handles = 0 /\ WqAsync \in Handles
        /\ hs \in [flags : [Handles -> SUBSET Flags], active_handles : Int]
    BY DEF Init, Handles, Flags
  <1>2. \A h \in Handles : /\ IsActive(hs, h) <=> h = WqAsync
                           /\ ~HasRef(hs, h) /\ ~IsClosing(hs, h) /\ ~Owed(hs, h)
    BY <1>1 DEF IsActive, HasRef, IsClosing, Owed
  <1>3. Exact(hs)
    <2>1. Counted(hs, Handles) = {}
      BY Zenon, <1>2 DEF Counted
    <2>2. Cardinality({}) = 0
      BY Zenon, FS_EmptySet
    <2> QED BY Zenon, <1>1, <2>1, <2>2 DEF Exact
  <1>4. handle_queue = {WqAsync} /\ closing_handles = <<>> /\ timer_heap = <<>>
        /\ idle_handles = <<>> /\ async_handles = <<WqAsync>> /\ pc = "user"
    BY Zenon DEF Init
  <1>5. ActiveOK /\ OwedOK
    BY Zenon, <1>2, <1>4 DEF ActiveOK, OwedOK
  <1>6. Holds(hs, timer_heap, Timers) /\ IdlesOK /\ ClosingOK
    BY Zenon, <1>4, EmptyIn DEF Holds, IdlesOK, ClosingOK, Waits
  <1>7. AsyncsOK
    <2>1. <<WqAsync>> \in Seq(Asyncs) /\ Once(<<WqAsync>>)
          /\ \A h : In(<<WqAsync>>, h) => h = WqAsync
      BY DEF Once, In
    <2> QED BY Zenon, <1>1, <1>2, <1>4, <2>1 DEF AsyncsOK, Holds
  <1> QED BY Zenon, <1>1, <1>2, <1>3, <1>4, <1>5, <1>6, <1>7 DEF LoopInv

-----------------------------------------------------------------------------
(***************************************************************************)
(* Requests.  A request is in at most one of the lists, once, and only     *)
(* while it is active.                                                     *)
(***************************************************************************)
Listed(r) == In(reqs.wq, r) \/ In(reqs.pending_queue, r) \/ In(reqs.taken, r)

ReqState == [active_reqs : SUBSET Reqs, wq : Seq(Reqs), pending_queue : Seq(Reqs),
             taken : Seq(Reqs), work_done : BOOLEAN, ran_pending : BOOLEAN]

ReqInv ==
    /\ reqs \in ReqState
    /\ reqs.wq \in Seq(Reqs) /\ reqs.pending_queue \in Seq(Reqs) /\ reqs.taken \in Seq(Reqs)
    /\ Once(reqs.wq) /\ Once(reqs.pending_queue) /\ Once(reqs.taken)
    /\ Apart(reqs.wq, reqs.pending_queue) /\ Apart(reqs.wq, reqs.taken)
    /\ Apart(reqs.pending_queue, reqs.taken)
    /\ \A r : Listed(r) => r \in reqs.active_reqs

LEMMA ReqInvInit == Init => ReqInv
  <1> SUFFICES ASSUME Init PROVE ReqInv
    OBVIOUS
  <1>1. /\ reqs.wq = <<>> /\ reqs.pending_queue = <<>> /\ reqs.taken = <<>>
        /\ reqs \in ReqState
    BY DEF Init, NoReqs, ReqState
  <1> QED BY Zenon, <1>1, EmptyIn DEF ReqInv, Listed, Apart

\* A request that is made.
LEMMA MadeStep ==
    ASSUME ReqInv, NEW r \in Reqs, QueueWork(r) \/ FeedRequest(r)
    PROVE  ReqInv'
  <1>1. CASE QueueWork(r)
    <2>1. reqs' = [reqs EXCEPT !.active_reqs = @ \cup {r}]
      BY Zenon, <1>1 DEF QueueWork
    <2>2. /\ UNCHANGED <<reqs.wq, reqs.pending_queue, reqs.taken>>
          /\ reqs'.active_reqs = reqs.active_reqs \cup {r}
          /\ reqs' \in ReqState
      BY Zenon, <2>1 DEF ReqInv, ReqState
    <2> QED BY Zenon, <2>2 DEF ReqInv, Listed
  <1>2. CASE FeedRequest(r)
    <2>1. /\ r \notin reqs.active_reqs
          /\ reqs' = [reqs EXCEPT !.active_reqs = @ \cup {r},
                                  !.pending_queue = Append(@, r)]
      BY Zenon, <1>2 DEF FeedRequest
    <2>2. ~Listed(r)
      BY Zenon, <2>1 DEF ReqInv
    <2>3. /\ Append(reqs.pending_queue, r) \in Seq(Reqs)
          /\ Once(Append(reqs.pending_queue, r))
          /\ \A q : In(Append(reqs.pending_queue, r), q) <=> In(reqs.pending_queue, q) \/ q = r
      <3>1. reqs.pending_queue \in Seq(Reqs) /\ Once(reqs.pending_queue)
            /\ ~In(reqs.pending_queue, r)
        BY Zenon, <2>2 DEF ReqInv, Listed
      <3> QED BY Zenon, <3>1, AppendIn
    <2>4. /\ UNCHANGED <<reqs.wq, reqs.taken>>
          /\ reqs'.active_reqs = reqs.active_reqs \cup {r}
          /\ reqs'.pending_queue = Append(reqs.pending_queue, r)
          /\ reqs' \in ReqState
      BY Zenon, <2>1, <2>3 DEF ReqInv, ReqState
    <2> QED BY Zenon, <2>2, <2>3, <2>4 DEF ReqInv, Listed, Apart
  <1> QED BY Zenon, <1>1, <1>2

\* uv__run_pending or uv__work_done takes over its list.
LEMMA TakenStep ==
    ASSUME ReqInv, TimersDone \/ WorkDone
    PROVE  ReqInv'
  <1>1. CASE TimersDone
    <2>0. <<>> \in Seq(Reqs)
      BY Zenon, EmptyIn
    <2>1. PICK b \in BOOLEAN :
            reqs' = [reqs EXCEPT !.taken = reqs.pending_queue, !.pending_queue = <<>>,
                                 !.ran_pending = b]
      BY Zenon, <1>1 DEF TimersDone
    <2>2. /\ UNCHANGED <<reqs.wq, reqs.active_reqs>>
          /\ reqs'.taken = reqs.pending_queue /\ reqs'.pending_queue = <<>>
          /\ reqs' \in ReqState
      BY Zenon, <2>0, <2>1 DEF ReqInv, ReqState
    <2> QED BY Zenon, <2>2, EmptyIn DEF ReqInv, Listed, Apart
  <1>2. CASE WorkDone
    <2>0. <<>> \in Seq(Reqs)
      BY Zenon, EmptyIn
    <2>1. reqs' = [reqs EXCEPT !.taken = reqs.wq, !.wq = <<>>, !.work_done = FALSE]
      BY Zenon, <1>2 DEF WorkDone
    <2>2. /\ UNCHANGED <<reqs.pending_queue, reqs.active_reqs>>
          /\ reqs'.taken = reqs.wq /\ reqs'.wq = <<>>
          /\ reqs' \in ReqState
      BY Zenon, <2>0, <2>1 DEF ReqInv, ReqState
    <2> QED BY Zenon, <2>2, EmptyIn DEF ReqInv, Listed, Apart
  <1> QED BY Zenon, <1>1, <1>2

\* A request is unregistered.
LEMMA ToldStep ==
    ASSUME ReqInv, RequestDone
    PROVE  ReqInv'
  <1>0. PICK r : r = Head(reqs.taken)
    OBVIOUS
  <1>1. /\ reqs.taken # <<>>
        /\ reqs' = [reqs EXCEPT !.taken = Tail(@), !.active_reqs = @ \ {r}]
    BY Zenon, <1>0 DEF RequestDone
  <1>2. /\ In(reqs.taken, r) /\ Tail(reqs.taken) \in Seq(Reqs) /\ Once(Tail(reqs.taken))
        /\ \A q : In(Tail(reqs.taken), q) <=> In(reqs.taken, q) /\ q # r
    BY Zenon, <1>0, <1>1, TailIn DEF ReqInv
  <1>3. /\ UNCHANGED <<reqs.wq, reqs.pending_queue>>
        /\ reqs'.taken = Tail(reqs.taken) /\ reqs'.active_reqs = reqs.active_reqs \ {r}
        /\ reqs' \in ReqState
    BY Zenon, <1>1, <1>2 DEF ReqInv, ReqState
  <1>4. \A q : Listed(q)' => q \in reqs'.active_reqs
    BY Zenon, <1>2, <1>3 DEF ReqInv, Listed, Apart
  <1> QED BY Zenon, <1>2, <1>3, <1>4 DEF ReqInv, Apart

\* A thread has done the work of a request.
LEMMA WorkerStep ==
    ASSUME ReqInv, NEW s \in Threads, NEW r \in Reqs, WorkerDone(s, r)
    PROVE  ReqInv'
  <1>1. AtWork(r) /\ reqs' = [reqs EXCEPT !.wq = Append(@, r)]
    BY Zenon DEF WorkerDone
  <1>2. \A q \in Seq(Reqs) : ~Member(q, r) => ~In(q, r)
    BY DEF Member, In
  <1>3. r \in reqs.active_reqs /\ ~Listed(r)
    BY Zenon, <1>1, <1>2 DEF AtWork, ReqInv, Listed
  <1>4. /\ Append(reqs.wq, r) \in Seq(Reqs) /\ Once(Append(reqs.wq, r))
        /\ \A q : In(Append(reqs.wq, r), q) <=> In(reqs.wq, q) \/ q = r
    <2>1. reqs.wq \in Seq(Reqs) /\ Once(reqs.wq) /\ ~In(reqs.wq, r)
      BY Zenon, <1>3 DEF ReqInv, Listed
    <2> QED BY Zenon, <2>1, AppendIn
  <1>5. /\ UNCHANGED <<reqs.pending_queue, reqs.taken, reqs.active_reqs>>
        /\ reqs'.wq = Append(reqs.wq, r)
        /\ reqs' \in ReqState
    BY Zenon, <1>1, <1>4 DEF ReqInv, ReqState
  <1> QED BY Zenon, <1>3, <1>4, <1>5 DEF ReqInv, Listed, Apart

LEMMA ReqInvNext == ReqInv /\ [Next]_vars => ReqInv'
  <1> SUFFICES ASSUME ReqInv, [Next]_vars PROVE ReqInv'
    OBVIOUS
  <1>1. ASSUME reqs' = reqs PROVE ReqInv'
    BY Zenon, <1>1 DEF ReqInv, Listed
  <1>2. CASE AsyncNext
    <2>1. PICK b \in BOOLEAN : reqs' = [reqs EXCEPT !.work_done = b]
      BY Zenon, <1>2 DEF AsyncNext
    <2>2. /\ UNCHANGED <<reqs.wq, reqs.pending_queue, reqs.taken, reqs.active_reqs>>
          /\ reqs' \in ReqState
      BY Zenon, <2>1 DEF ReqInv, ReqState
    <2> QED BY Zenon, <2>2 DEF ReqInv, Listed
  <1>3. CASE UserCall /\ ~\E r \in Reqs : QueueWork(r) \/ FeedRequest(r)
    <2>1. reqs' = reqs
      BY Zenon, <1>3 DEF UserCall, TimerInit, TimerDeinit, TimerStart, TimerStop, TimerAgain,
         TimerSetRepeat, CloseTimer, IdleInit, IdleStart, IdleStop, CloseIdle, AsyncInit,
         CloseAsync, Ref, Unref, Stop, UpdateTime, LoopClose
    <2> QED BY Zenon, <1>1, <2>1
  <1>4. CASE \/ CallbackReturns \/ FireTimer \/ PendingDone \/ RunIdle \/ IdleDone
             \/ PollNothing \/ PollTimesOut \/ AsyncIo \/ AsyncDone \/ FinishClose
             \/ CloseDone \/ OnceDone \/ RunNothing \/ RunBegin \/ PollInterrupted \/ Tick
             \/ \E s \in Threads : SendWrite(s) \/ \E h \in Asyncs : Send(s, h)
             \/ UNCHANGED vars
    <2>1. reqs' = reqs
      BY Zenon, <1>4 DEF CallbackReturns, FireTimer, PendingDone, RunIdle, IdleDone,
         PollNothing, PollTimesOut, AsyncIo, AsyncDone, FinishClose, CloseDone, OnceDone,
         RunNothing, RunBegin, PollInterrupted, Tick, SendWrite, Send, vars
    <2> QED BY Zenon, <1>1, <2>1
  <1> QED BY Zenon, <1>2, <1>3, <1>4, MadeStep, TakenStep, ToldStep, WorkerStep
          DEF Next, UserCall, LoopStep, ThreadStep

LEMMA ReqInvariance == Spec => []ReqInv
  BY ReqInvInit, ReqInvNext, PTL DEF Spec

-----------------------------------------------------------------------------
(***************************************************************************)
(* What a step that changes the flags of one handle leaves alone.          *)
(***************************************************************************)
LEMMA HoldsKept ==
    ASSUME NEW x, NEW y, NEW h, NEW q, NEW S, S \subseteq Handles, Holds(x, q, S),
           Only(x, y, h), In(q, h) => IsActive(y, h)
    PROVE  Holds(y, q, S)
  <1> SUFFICES ASSUME NEW g, In(q, g) PROVE IsActive(y, g)
    BY Zenon DEF Holds
  <1>1. g \in Handles /\ IsActive(x, g)
    BY Zenon, InSeq DEF Holds
  <1> QED BY Zenon, <1>1 DEF Only, IsActive

\* The list loses the handle, whatever becomes of its flags.
LEMMA HoldsRemoved ==
    ASSUME NEW x, NEW y, NEW h, NEW q, NEW S, S \subseteq Handles, Holds(x, q, S), Only(x, y, h)
    PROVE  Holds(y, Remove(q, h), S)
  <1>1. /\ Remove(q, h) \in Seq(S) /\ Once(Remove(q, h))
        /\ \A r : In(Remove(q, h), r) <=> In(q, r) /\ r # h
    BY Zenon, RemoveIn DEF Holds, Remove
  <1>2. Holds(x, Remove(q, h), S)
    BY Zenon, <1>1 DEF Holds
  <1> QED BY Zenon, <1>1, <1>2, HoldsKept

LEMMA WaitsKept ==
    ASSUME NEW x, NEW y, NEW h, NEW q, NEW hq, NEW hq2, Waits(x, hq, q), Only(x, y, h),
           ~In(q, h), hq \ {h} \subseteq hq2
    PROVE  Waits(y, hq2, q)
  <1> SUFFICES ASSUME NEW g, In(q, g) PROVE g \in hq2 /\ Owed(y, g)
    BY Zenon DEF Waits
  <1>1. g \in Handles /\ g \in hq /\ Owed(x, g) /\ g # h
    BY Zenon, InSeq DEF Waits
  <1> QED BY Zenon, <1>1 DEF Only, Owed

\* A list that holds only other handles.
LEMMA RemoveNothing ==
    ASSUME NEW q, NEW h, ~In(q, h)
    PROVE  Remove(q, h) = q
  BY Zenon DEF Remove, QueueRemove, In

TypesApart == /\ Timers \subseteq Handles /\ Idles \subseteq Handles /\ Asyncs \subseteq Handles
              /\ \A h : ~(h \in Timers /\ h \in Idles) /\ ~(h \in Timers /\ h \in Asyncs)
                        /\ ~(h \in Idles /\ h \in Asyncs)

LEMMA TypesAreApart == TypesApart
  BY Zenon, HandlesAssumption DEF TypesApart, Handles

\* The list of idle handles when no list changes.
LEMMA IdlesKept ==
    ASSUME IdlesOK, NEW h, Only(hs, hs', h), UNCHANGED <<idle_handles, queue, pc>>,
           h \notin Idles \/ (IsActive(hs, h) => IsActive(hs', h))
    PROVE  IdlesOK'
  <1>1. ASSUME NEW q, Holds(hs, q, Idles) PROVE Holds(hs', q, Idles)
    <2>1. In(q, h) => IsActive(hs', h)
      BY Zenon, <1>1, InSeq DEF Holds
    <2> QED BY Zenon, <1>1, <2>1, HoldsKept, TypesAreApart DEF TypesApart
  <1> QED BY Zenon, <1>1 DEF IdlesOK

LEMMA AsyncsKept ==
    ASSUME AsyncsOK, NEW h, Only(hs, hs', h), UNCHANGED <<async_handles, queue, pc>>,
           h \notin Asyncs \/ (IsActive(hs, h) => IsActive(hs', h))
    PROVE  AsyncsOK'
  <1>1. ASSUME NEW q, Holds(hs, q, Asyncs) PROVE Holds(hs', q, Asyncs)
    <2>1. In(q, h) => IsActive(hs', h)
      BY Zenon, <1>1, InSeq DEF Holds
    <2> QED BY Zenon, <1>1, <2>1, HoldsKept, TypesAreApart DEF TypesApart
  <1> QED BY Zenon, <1>1 DEF AsyncsOK

LEMMA ApartRemoved ==
    ASSUME NEW S, NEW p \in Seq(S), NEW q \in Seq(S), NEW h, Once(p), Once(q), Apart(p, q)
    PROVE  Apart(Remove(p, h), Remove(q, h)) /\ Apart(Remove(p, h), q)
  <1>1. \A r : /\ In(Remove(p, h), r) => In(p, r)
               /\ In(Remove(q, h), r) => In(q, r)
    BY Zenon, RemoveIn DEF Remove
  <1> QED BY Zenon, <1>1 DEF Apart

\* QUEUE_REMOVE of a handle, from the list of its type or the part being walked.
LEMMA IdlesRemoved ==
    ASSUME IdlesOK, NEW h, Only(hs, hs', h), queue' = Remove(queue, h), pc' = pc,
           \/ idle_handles' = Remove(idle_handles, h)
           \/ idle_handles' = idle_handles /\ h \notin Idles
    PROVE  IdlesOK'
  <1>1. ASSUME NEW q, Holds(hs, q, Idles) PROVE Holds(hs', Remove(q, h), Idles)
    BY Zenon, <1>1, HoldsRemoved, TypesAreApart DEF TypesApart
  <1>2. ASSUME h \notin Idles PROVE ~In(idle_handles, h)
    BY Zenon, <1>2, InSeq DEF IdlesOK, Holds
  <1>3. idle_handles' = Remove(idle_handles, h)
    BY Zenon, <1>2, RemoveNothing
  <1>4. pc = "idle" => Apart(queue', idle_handles')
    BY Zenon, <1>3, ApartRemoved DEF IdlesOK, Holds
  <1> QED BY Zenon, <1>1, <1>3, <1>4 DEF IdlesOK

LEMMA AsyncsRemoved ==
    ASSUME AsyncsOK, NEW h, Only(hs, hs', h), queue' = Remove(queue, h), pc' = pc,
           \/ async_handles' = Remove(async_handles, h)
           \/ async_handles' = async_handles /\ h \notin Asyncs
    PROVE  AsyncsOK'
  <1>1. ASSUME NEW q, Holds(hs, q, Asyncs) PROVE Holds(hs', Remove(q, h), Asyncs)
    BY Zenon, <1>1, HoldsRemoved, TypesAreApart DEF TypesApart
  <1>2. ASSUME h \notin Asyncs PROVE ~In(async_handles, h)
    BY Zenon, <1>2, InSeq DEF AsyncsOK, Holds
  <1>3. async_handles' = Remove(async_handles, h)
    BY Zenon, <1>2, RemoveNothing
  <1>4. pc = "async" => Apart(queue', async_handles')
    BY Zenon, <1>3, ApartRemoved DEF AsyncsOK, Holds
  <1> QED BY Zenon, <1>1, <1>3, <1>4 DEF AsyncsOK

\* A handle that is not in the loop, or not closing, waits for no callback.
LEMMA NotWaiting ==
    ASSUME LoopInv, NEW h, h \notin handle_queue \/ ~Owed(hs, h)
    PROVE  ~In(closing_handles, h) /\ (pc = "closing" => ~In(queue, h))
  BY Zenon DEF LoopInv, ClosingOK, Waits

LEMMA ActiveKept ==
    ASSUME LoopInv, NEW h \in Handles, Only(hs, hs', h),
           handle_queue \ {h} \subseteq handle_queue',
           IsActive(hs', h) => h \in handle_queue' /\ ~IsClosing(hs', h)
    PROVE  ActiveOK'
  <1> SUFFICES ASSUME NEW g \in Handles, IsActive(hs', g)
               PROVE  g \in handle_queue' /\ ~IsClosing(hs', g)
    BY Zenon DEF ActiveOK
  <1>1. CASE g = h
    BY Zenon, <1>1
  <1>2. CASE g # h
    <2>1. hs'.flags[g] = hs.flags[g]
      BY Zenon, <1>2 DEF Only
    <2>2. g \in handle_queue /\ ~IsClosing(hs, g)
      BY Zenon, <2>1 DEF LoopInv, ActiveOK, IsActive
    <2> QED BY Zenon, <1>2, <2>1, <2>2 DEF IsClosing
  <1> QED BY Zenon, <1>1, <1>2

\* A step that changes handle h, which waits for no close callback.
LEMMA HandleStep ==
    ASSUME LoopInv, NEW h \in Handles, Exact(hs'), Only(hs, hs', h),
           handle_queue' \subseteq Handles, handle_queue \ {h} \subseteq handle_queue',
           closing_handles' = closing_handles, pc' = pc, pc = "closing" => queue' = queue,
           h \notin handle_queue \/ ~Owed(hs, h), ~Owed(hs', h),
           IsActive(hs', h) => h \in handle_queue' /\ ~IsClosing(hs', h),
           h = WqAsync => ~IsClosing(hs', h),
           Holds(hs', timer_heap', Timers), IdlesOK', AsyncsOK'
    PROVE  LoopInv'
  <1>1. ActiveOK'
    BY Zenon, ActiveKept
  <1>2. ~In(closing_handles, h) /\ (pc = "closing" => ~In(queue, h))
    BY Zenon, NotWaiting
  <1>3. ClosingOK'
    <2>1. ASSUME NEW q, Waits(hs, handle_queue, q), ~In(q, h) PROVE Waits(hs', handle_queue', q)
      BY Zenon, <2>1, WaitsKept
    <2> QED BY Zenon, <1>2, <2>1 DEF ClosingOK, LoopInv
  <1>4. OwedOK'
    <2>1. \A g \in Handles : Owed(hs', g) => Owed(hs, g)
      BY Zenon DEF Owed, Only
    <2> QED BY Zenon, <2>1 DEF OwedOK, LoopInv
  <1>5. ~IsClosing(hs', WqAsync)
    BY Zenon, HandlesAssumption DEF LoopInv, IsClosing, Only, Handles
  <1> QED BY Zenon, <1>1, <1>3, <1>4, <1>5 DEF LoopInv

\* uv_close of an open handle h.
LEMMA CloseStep ==
    ASSUME LoopInv, NEW h \in Handles, h # WqAsync, Open(h), Exact(hs'), Only(hs, hs', h),
           handle_queue' = handle_queue, MakeClosePending(h), pc' = pc,
           queue' = queue \/ queue' = Remove(queue, h),
           ~IsActive(hs', h), "closing" \in hs'.flags[h], hs'.flags[h] \subseteq hs.flags[h] \cup {"closing"},
           Holds(hs', timer_heap', Timers), IdlesOK', AsyncsOK'
    PROVE  LoopInv'
  <1>1. ActiveOK'
    BY Zenon, ActiveKept
  <1>2. ~Owed(hs, h) /\ Owed(hs', h) /\ h \in handle_queue
    BY Zenon DEF Open, IsClosing, Owed
  <1>3. ~In(closing_handles, h) /\ (pc = "closing" => ~In(queue, h))
    BY Zenon, <1>2, NotWaiting
  <1>4. pc = "closing" => queue' = queue
    BY Zenon, <1>3, RemoveNothing
  <1>5. /\ closing_handles' \in Seq(Handles) /\ Once(closing_handles')
        /\ \A r : In(closing_handles', r) <=> In(closing_handles, r) \/ r = h
    BY Zenon, <1>3, ConsIn DEF LoopInv, ClosingOK, Waits, MakeClosePending
  <1>6. ASSUME NEW q, Waits(hs, handle_queue, q), ~In(q, h) PROVE Waits(hs', handle_queue', q)
    BY Zenon, <1>6, WaitsKept
  <1>7. ClosingOK'
    <2>1. Waits(hs', handle_queue', closing_handles)
      BY Zenon, <1>3, <1>6 DEF LoopInv, ClosingOK
    <2>2. Waits(hs', handle_queue', closing_handles')
      BY Zenon, <1>2, <1>5, <2>1 DEF Waits
    <2>3. pc = "closing" => Waits(hs', handle_queue', queue) /\ Apart(queue, closing_handles')
      BY Zenon, <1>3, <1>5, <1>6 DEF LoopInv, ClosingOK, Apart
    <2> QED BY Zenon, <1>4, <2>2, <2>3 DEF ClosingOK
  <1>8. OwedOK'
    <2>1. \A g \in Handles \ {h} : Owed(hs', g) => Owed(hs, g)
      BY Zenon DEF Owed, Only
    <2> QED BY Zenon, <1>4, <1>5, <2>1 DEF OwedOK, LoopInv
  <1>9. ~IsClosing(hs', WqAsync)
    BY Zenon, HandlesAssumption DEF LoopInv, IsClosing, Only, Handles
  <1> QED BY Zenon, <1>1, <1>7, <1>8, <1>9 DEF LoopInv

\* A step that changes no flags and no list.
LEMMA QuietStep ==
    ASSUME LoopInv,
           UNCHANGED <<hs, handle_queue, closing_handles, timer_heap, idle_handles,
                       async_handles, queue>>,
           \/ pc' = pc
           \/ /\ pc' \notin {"idle", "async", "closing"}
              /\ pc # "closing" \/ pc' = "aborted" \/ queue = <<>>,
           pc = "aborted" => pc' = "aborted"
    PROVE  LoopInv'
  <1>1. IdlesOK' /\ AsyncsOK' /\ ClosingOK'
    BY Zenon DEF LoopInv, IdlesOK, AsyncsOK, ClosingOK
  <1>2. OwedOK'
    BY Zenon, EmptyIn DEF LoopInv, OwedOK
  <1>3. ActiveOK'
    BY Zenon DEF LoopInv, ActiveOK
  <1> QED BY Zenon, <1>1, <1>2, <1>3 DEF LoopInv

-----------------------------------------------------------------------------
(***************************************************************************)
(* Timers.                                                                 *)
(***************************************************************************)
TimersOK(ts) ==
    /\ ts = [hs |-> ts.hs, heap |-> ts.heap, timeout |-> ts.timeout,
             repeat |-> ts.repeat, wanted |-> ts.wanted]
    /\ Exact(ts.hs) /\ Holds(ts.hs, ts.heap, Timers)

LEMMA StopTimerOK ==
    ASSUME NEW ts, TimersOK(ts), NEW t \in Timers
    PROVE  /\ TimersOK(StopTimer(ts, t)) /\ ~In(StopTimer(ts, t).heap, t)
           /\ Sets(ts.hs, StopTimer(ts, t).hs, t, ts.hs.flags[t] \ {"active"})
  <1>0. t \in Handles /\ Timers \subseteq Handles
    BY Zenon DEF Handles
  <1>1. CASE ~IsActive(ts.hs, t)
    <2>1. StopTimer(ts, t) = ts /\ ~In(ts.heap, t)
      BY Zenon, <1>1 DEF StopTimer, TimersOK, Holds
    <2>2. ts.hs.flags[t] = ts.hs.flags[t] \ {"active"}
      BY Zenon, <1>1 DEF IsActive
    <2> QED BY Zenon, <2>1, <2>2 DEF TimersOK, Sets, Only
  <1>2. CASE IsActive(ts.hs, t)
    <2> DEFINE y == StopTimer(ts, t)
    <2>1. /\ y = [hs |-> HandleStop(ts.hs, t), heap |-> QueueRemove(ts.heap, t),
                  timeout |-> ts.timeout, repeat |-> ts.repeat, wanted |-> ts.wanted]
      BY Zenon, <1>2 DEF StopTimer, TimersOK
    <2>2. y.hs = HandleStop(ts.hs, t) /\ y.heap = Remove(ts.heap, t)
      BY <2>1 DEF Remove
    <2>3. y = [hs |-> y.hs, heap |-> y.heap, timeout |-> y.timeout,
               repeat |-> y.repeat, wanted |-> y.wanted]
      BY Zenon, <2>1
    <2> HIDE DEF y
    <2>4. Sets(ts.hs, y.hs, t, ts.hs.flags[t] \ {"active"})
      BY Zenon, <1>0, <2>2, StopExact DEF TimersOK
    <2>5. Holds(y.hs, y.heap, Timers)
      BY Zenon, <1>0, <2>2, <2>4, HoldsRemoved DEF TimersOK, Sets
    <2>6. ~In(y.heap, t)
      BY Zenon, <2>2, RemoveIn DEF TimersOK, Holds, Remove
    <2> QED BY Zenon, <2>3, <2>4, <2>5, <2>6 DEF TimersOK, Sets, y
  <1> QED BY Zenon, <1>1, <1>2

LEMMA StartTimerOK ==
    ASSUME NEW ts, TimersOK(ts), NEW t \in Timers, NEW d, NEW rep
    PROVE  /\ TimersOK(StartTimer(ts, t, d, rep))
           /\ Sets(ts.hs, StartTimer(ts, t, d, rep).hs, t, ts.hs.flags[t] \cup {"active"})
  <1> DEFINE z == StopTimer(ts, t)
             y == StartTimer(ts, t, d, rep)
             due == [z.timeout EXCEPT ![t] = ClampedTimeout(d)]
  <1>0. t \in Handles /\ Timers \subseteq Handles
    BY Zenon DEF Handles
  <1>1. /\ TimersOK(z) /\ ~In(z.heap, t)
        /\ Sets(ts.hs, z.hs, t, ts.hs.flags[t] \ {"active"})
    BY Zenon, StopTimerOK
  <1>2. /\ y.hs = HandleStart(z.hs, t) /\ y.heap = QueueInsert(z.heap, due, t)
        /\ y = [hs |-> y.hs, heap |-> y.heap, timeout |-> y.timeout,
                repeat |-> y.repeat, wanted |-> y.wanted]
    BY Zenon DEF StartTimer
  <1> HIDE DEF y, z, due
  <1>3. Sets(z.hs, y.hs, t, z.hs.flags[t] \cup {"active"})
    BY Zenon, <1>0, <1>1, <1>2, StartExact DEF TimersOK
  <1>4. Sets(ts.hs, y.hs, t, ts.hs.flags[t] \cup {"active"})
    <2>1. z.hs.flags[t] \cup {"active"} = ts.hs.flags[t] \cup {"active"}
      BY Zenon, <1>1 DEF Sets
    <2> QED BY Zenon, <1>1, <1>3, <2>1 DEF Sets, Only
  <1>5. /\ y.heap \in Seq(Timers) /\ Once(y.heap)
        /\ \A r : In(y.heap, r) <=> In(z.heap, r) \/ r = t
    BY <1>1, <1>2, QueueInsertIn DEF TimersOK, Holds
  <1>6. Holds(y.hs, z.heap, Timers)
    BY Zenon, <1>0, <1>1, <1>3, HoldsKept DEF TimersOK, Sets
  <1>7. Holds(y.hs, y.heap, Timers)
    <2>1. IsActive(y.hs, t)
      BY Zenon, <1>4 DEF Sets, IsActive
    <2> QED BY Zenon, <1>5, <1>6, <2>1 DEF Holds
  <1> QED BY Zenon, <1>2, <1>4, <1>7 DEF TimersOK, Sets, y

LEMMA AgainTimerOK ==
    ASSUME NEW ts, TimersOK(ts), NEW t \in Timers
    PROVE  /\ TimersOK(AgainTimer(ts, t))
           /\ Sets(ts.hs, AgainTimer(ts, t).hs, t, AgainTimer(ts, t).hs.flags[t])
           /\ AgainTimer(ts, t).hs.flags[t] \in {ts.hs.flags[t], ts.hs.flags[t] \cup {"active"}}
  <1>1. CASE ts.repeat[t] = 0
    <2>1. AgainTimer(ts, t) = ts
      BY Zenon, <1>1 DEF AgainTimer
    <2> QED BY Zenon, <2>1 DEF TimersOK, Sets, Only
  <1>2. CASE ts.repeat[t] # 0
    <2> DEFINE z == StopTimer(ts, t)
               y == StartTimer(z, t, ts.repeat[t], ts.repeat[t])
    <2>1. AgainTimer(ts, t) = y
      BY Zenon, <1>2 DEF AgainTimer
    <2>2. TimersOK(z) /\ Sets(ts.hs, z.hs, t, ts.hs.flags[t] \ {"active"})
      BY Zenon, StopTimerOK
    <2> HIDE DEF z
    <2>3. TimersOK(y) /\ Sets(z.hs, y.hs, t, z.hs.flags[t] \cup {"active"})
      BY Zenon, <2>2, StartTimerOK
    <2> HIDE DEF y
    <2>4. z.hs.flags[t] \cup {"active"} = ts.hs.flags[t] \cup {"active"}
      BY Zenon, <2>2 DEF Sets
    <2>5. Exact(y.hs) /\ y.hs.flags[t] = ts.hs.flags[t] \cup {"active"} /\ Only(ts.hs, y.hs, t)
      BY Zenon, <2>2, <2>3, <2>4 DEF Sets, Only
    <2> QED BY Zenon, <2>1, <2>3, <2>5 DEF Sets
  <1> QED BY Zenon, <1>1, <1>2

LEMMA TimerStateOK ==
    ASSUME LoopInv
    PROVE  TimersOK(TimerState) /\ TimerState.hs = hs
  BY Zenon DEF LoopInv, TimersOK, TimerState

\* A step that starts or stops an open timer and changes nothing else.
LEMMA TimerStep ==
    ASSUME LoopInv, NEW t \in Timers, Open(t), NEW ts, TimersOK(ts), SetTimers(ts),
           Only(hs, ts.hs, t), NEW F, ts.hs.flags[t] = F,
           F \in {hs.flags[t], hs.flags[t] \cup {"active"}, hs.flags[t] \ {"active"}},
           UNCHANGED <<handle_queue, closing_handles, idle_handles, async_handles, queue, pc>>
    PROVE  LoopInv'
  <1>1. /\ t \in Handles /\ t \notin Idles /\ t \notin Asyncs /\ t # WqAsync
        /\ hs' = ts.hs /\ timer_heap' = ts.heap
    BY Zenon, HandlesAssumption, TypesAreApart DEF TypesApart, SetTimers
  <1>2. Exact(hs') /\ Only(hs, hs', t) /\ Holds(hs', timer_heap', Timers)
    BY Zenon, <1>1 DEF TimersOK
  <1>3. t \in handle_queue /\ ~Owed(hs, t) /\ ~Owed(hs', t) /\ ~IsClosing(hs', t)
    BY Zenon, <1>1 DEF Open, IsClosing, Owed
  <1>4. IdlesOK' /\ AsyncsOK'
    BY Zenon, <1>1, <1>2, IdlesKept, AsyncsKept DEF LoopInv
  <1>5. handle_queue' \subseteq Handles /\ handle_queue \ {t} \subseteq handle_queue'
    BY Zenon DEF LoopInv
  <1> QED BY Zenon, <1>1, <1>2, <1>3, <1>4, <1>5, HandleStep

LEMMA TimerCalls ==
    ASSUME LoopInv, NEW t \in Timers, TimerStart(t) \/ TimerStop(t) \/ TimerAgain(t)
    PROVE  LoopInv'
  <1>0. TimersOK(TimerState) /\ TimerState.hs = hs /\ Open(t)
        /\ UNCHANGED <<handle_queue, closing_handles, idle_handles, async_handles, queue, pc>>
    BY Zenon, TimerStateOK DEF TimerStart, TimerStop, TimerAgain, asyncVars, runVars
  <1>1. CASE TimerStart(t)
    <2>1. PICK d \in Timeouts, rep \in Repeats : SetTimers(StartTimer(TimerState, t, d, rep))
      BY Zenon, <1>1 DEF TimerStart
    <2> DEFINE ts == StartTimer(TimerState, t, d, rep)
    <2>2. TimersOK(ts) /\ Sets(TimerState.hs, ts.hs, t, TimerState.hs.flags[t] \cup {"active"})
      BY Zenon, <1>0, StartTimerOK
    <2>3. SetTimers(ts)
      BY Zenon, <2>1
    <2> HIDE DEF ts
    <2>4. Only(hs, ts.hs, t) /\ ts.hs.flags[t] = hs.flags[t] \cup {"active"}
      BY Zenon, <1>0, <2>2 DEF Sets
    <2> QED BY Zenon, <1>0, <2>2, <2>3, <2>4, TimerStep
  <1>2. CASE TimerStop(t)
    <2> DEFINE ts == StopTimer(TimerState, t)
    <2>1. SetTimers(ts)
      BY Zenon, <1>2 DEF TimerStop
    <2>2. TimersOK(ts) /\ Sets(TimerState.hs, ts.hs, t, TimerState.hs.flags[t] \ {"active"})
      BY Zenon, <1>0, StopTimerOK
    <2> HIDE DEF ts
    <2>3. Only(hs, ts.hs, t) /\ ts.hs.flags[t] = hs.flags[t] \ {"active"}
      BY Zenon, <1>0, <2>2 DEF Sets
    <2> QED BY Zenon, <1>0, <2>1, <2>2, <2>3, TimerStep
  <1>3. CASE TimerAgain(t)
    <2> DEFINE ts == AgainTimer(TimerState, t)
    <2>1. SetTimers(ts)
      BY Zenon, <1>3 DEF TimerAgain
    <2>2. TimersOK(ts) /\ Sets(TimerState.hs, ts.hs, t, ts.hs.flags[t])
          /\ ts.hs.flags[t] \in {TimerState.hs.flags[t], TimerState.hs.flags[t] \cup {"active"}}
      BY Zenon, <1>0, AgainTimerOK
    <2> HIDE DEF ts
    <2>3. /\ Only(hs, ts.hs, t)
          /\ ts.hs.flags[t] \in {hs.flags[t], hs.flags[t] \cup {"active"}}
      BY Zenon, <1>0, <2>2 DEF Sets
    <2> QED BY Zenon, <1>0, <2>1, <2>2, <2>3, TimerStep
  <1> QED BY Zenon, <1>1, <1>2, <1>3

\* uv__run_timers stops the timer, starts it again if it repeats, and calls back.
LEMMA FireTimerStep ==
    ASSUME LoopInv, FireTimer
    PROVE  LoopInv' /\ Open(cb')
  <1> DEFINE t == Head(timer_heap)
             z == StopTimer(TimerState, t)
             ts == AgainTimer(z, t)
  <1>1. t \in Timers /\ In(timer_heap, t)
    BY Zenon, TailIn DEF FireTimer, TimerDue, LoopInv, Holds
  <1>2. t \in Handles /\ IsActive(hs, t)
    BY Zenon, <1>1 DEF LoopInv, Holds, Handles
  <1>3. Open(t)
    BY Zenon, <1>2 DEF LoopInv, ActiveOK, Open
  <1>4. SetTimers(ts) /\ cb' = t
        /\ UNCHANGED <<handle_queue, closing_handles, idle_handles, async_handles, queue, pc>>
    BY Zenon DEF FireTimer, asyncVars, MakeCallback
  <1>5. TimersOK(TimerState) /\ TimerState.hs = hs
    BY Zenon, TimerStateOK
  <1> HIDE DEF t
  <1>6. TimersOK(z) /\ Sets(TimerState.hs, z.hs, t, TimerState.hs.flags[t] \ {"active"})
    BY Zenon, <1>1, <1>5, StopTimerOK
  <1> HIDE DEF z
  <1>7. TimersOK(ts) /\ Sets(z.hs, ts.hs, t, ts.hs.flags[t])
        /\ ts.hs.flags[t] \in {z.hs.flags[t], z.hs.flags[t] \cup {"active"}}
    BY Zenon, <1>1, <1>6, AgainTimerOK
  <1> HIDE DEF ts
  <1>8. Only(hs, ts.hs, t)
    BY Zenon, <1>5, <1>6, <1>7 DEF Sets, Only
  <1>9. ts.hs.flags[t] \in {hs.flags[t] \cup {"active"}, hs.flags[t] \ {"active"}}
    <2>1. z.hs.flags[t] = hs.flags[t] \ {"active"}
      BY Zenon, <1>5, <1>6 DEF Sets
    <2>2. z.hs.flags[t] \cup {"active"} = hs.flags[t] \cup {"active"}
      BY Zenon, <2>1
    <2> QED BY Zenon, <1>7, <2>1, <2>2
  <1>10. LoopInv'
    BY Zenon, <1>1, <1>3, <1>4, <1>7, <1>8, <1>9, TimerStep
  <1> QED BY Zenon, <1>3, <1>4, <1>10

\* uv__handle_init of a handle that is not in the loop.
LEMMA InitStep ==
    ASSUME LoopInv, NEW h \in Handles, h # WqAsync, NotOpen(h), hs' = HandleInit(hs, h),
           handle_queue' = handle_queue \cup {h},
           UNCHANGED <<closing_handles, timer_heap, idle_handles, async_handles, queue, pc>>
    PROVE  LoopInv'
  <1>1. ~IsActive(hs, h)
    BY Zenon DEF LoopInv, ActiveOK, NotOpen
  <1>2. Exact(hs') /\ hs'.flags[h] = {"ref"} /\ Only(hs, hs', h)
    BY Zenon, <1>1, InitExact DEF LoopInv, Sets
  <1>3. ~IsActive(hs', h) /\ ~IsClosing(hs', h) /\ ~Owed(hs', h)
    BY Zenon, <1>2 DEF IsActive, IsClosing, Owed
  <1>4. Holds(hs', timer_heap', Timers)
    BY Zenon, <1>1, <1>2, HoldsKept, TypesAreApart DEF LoopInv, Holds, TypesApart
  <1>5. IdlesOK' /\ AsyncsOK'
    BY Zenon, <1>1, <1>2, IdlesKept, AsyncsKept DEF LoopInv
  <1>6. handle_queue' \subseteq Handles /\ handle_queue \ {h} \subseteq handle_queue'
    BY Zenon DEF LoopInv
  <1> QED BY Zenon, <1>2, <1>3, <1>4, <1>5, <1>6, HandleStep DEF NotOpen

LEMMA DeinitStep ==
    ASSUME LoopInv, NEW t \in Timers, TimerDeinit(t)
    PROVE  LoopInv'
  <1>1. t \in Handles /\ t # WqAsync
    BY Zenon, HandlesAssumption DEF Handles
  <1>2. /\ Open(t) /\ ~IsActive(hs, t) /\ handle_queue' = handle_queue \ {t}
        /\ UNCHANGED <<hs, closing_handles, timer_heap, idle_handles, async_handles, queue, pc>>
    BY Zenon DEF TimerDeinit, timerVars, asyncVars, runVars
  <1>3. Exact(hs') /\ Only(hs, hs', t) /\ ~IsActive(hs', t) /\ ~Owed(hs', t) /\ ~Owed(hs, t)
    BY Zenon, <1>2 DEF LoopInv, Only, Open, IsClosing, Owed
  <1>4. Holds(hs', timer_heap', Timers) /\ IdlesOK' /\ AsyncsOK'
    BY Zenon, <1>2 DEF LoopInv, IdlesOK, AsyncsOK
  <1>5. handle_queue' \subseteq Handles /\ handle_queue \ {t} \subseteq handle_queue'
    BY Zenon, <1>2 DEF LoopInv
  <1> QED BY Zenon, <1>1, <1>2, <1>3, <1>4, <1>5, HandleStep

\* uv_ref and uv_unref of an open handle.
LEMMA RefSteps ==
    ASSUME LoopInv, NEW h \in Handles \ {WqAsync}, Ref(h) \/ Unref(h)
    PROVE  LoopInv'
  <1>1. /\ Open(h) /\ hs' \in {HandleRef(hs, h), HandleUnref(hs, h)}
        /\ UNCHANGED <<handle_queue, closing_handles, timer_heap, idle_handles, async_handles,
                       queue, pc>>
    BY Zenon DEF Ref, Unref, timerVars, asyncVars, runVars
  <1>2. Sets(hs, hs', h, hs.flags[h] \cup {"ref"}) \/ Sets(hs, hs', h, hs.flags[h] \ {"ref"})
    BY Zenon, <1>1, RefExact, UnrefExact DEF LoopInv
  <1>3. Exact(hs') /\ Only(hs, hs', h)
        /\ hs'.flags[h] \in {hs.flags[h] \cup {"ref"}, hs.flags[h] \ {"ref"}}
    BY Zenon, <1>2 DEF Sets
  <1>4. /\ IsActive(hs', h) <=> IsActive(hs, h)
        /\ ~IsClosing(hs', h) /\ ~Owed(hs', h) /\ ~Owed(hs, h) /\ h \in handle_queue
    BY Zenon, <1>1, <1>3 DEF IsActive, IsClosing, Owed, Open
  <1>5. Holds(hs', timer_heap', Timers)
    BY Zenon, <1>1, <1>3, <1>4, HoldsKept, TypesAreApart DEF LoopInv, Holds, TypesApart
  <1>6. IdlesOK' /\ AsyncsOK'
    BY Zenon, <1>1, <1>3, <1>4, IdlesKept, AsyncsKept DEF LoopInv
  <1>7. handle_queue' \subseteq Handles /\ handle_queue \ {h} \subseteq handle_queue'
    BY Zenon, <1>1 DEF LoopInv
  <1> QED BY Zenon, <1>1, <1>3, <1>4, <1>5, <1>6, <1>7, HandleStep

-----------------------------------------------------------------------------
(***************************************************************************)
(* Idle and async handles.                                                 *)
(***************************************************************************)
LEMMA IdleStartStep ==
    ASSUME LoopInv, NEW h \in Idles, IdleStart(h)
    PROVE  LoopInv'
  <1>1. h \in Handles /\ h \notin Timers /\ h \notin Asyncs /\ h # WqAsync
    BY Zenon, HandlesAssumption, TypesAreApart DEF TypesApart
  <1>2. /\ Open(h) /\ ~IsActive(hs, h) /\ hs' = HandleStart(hs, h)
        /\ idle_handles' = <<h>> \o idle_handles
        /\ UNCHANGED <<handle_queue, closing_handles, timer_heap, async_handles, queue, pc>>
    BY Zenon DEF IdleStart, timerVars, asyncVars, runVars
  <1>3. Exact(hs') /\ Only(hs, hs', h) /\ hs'.flags[h] = hs.flags[h] \cup {"active"}
    BY Zenon, <1>1, <1>2, StartExact DEF LoopInv, Sets
  <1>4. /\ IsActive(hs', h) /\ ~IsClosing(hs', h) /\ ~Owed(hs', h) /\ ~Owed(hs, h)
        /\ h \in handle_queue
    BY Zenon, <1>2, <1>3 DEF IsActive, IsClosing, Owed, Open
  <1>5. Holds(hs', timer_heap', Timers)
    BY Zenon, <1>2, <1>3, <1>4, HoldsKept, TypesAreApart DEF LoopInv, TypesApart
  <1>6. AsyncsOK'
    BY Zenon, <1>1, <1>2, <1>3, AsyncsKept DEF LoopInv
  <1>7. IdlesOK'
    <2>1. ASSUME NEW q, Holds(hs, q, Idles) PROVE Holds(hs', q, Idles) /\ ~In(q, h)
      BY Zenon, <1>2, <1>3, <1>4, <2>1, HoldsKept, TypesAreApart DEF TypesApart, Holds
    <2>2. Holds(hs', idle_handles, Idles) /\ ~In(idle_handles, h)
      BY Zenon, <2>1 DEF LoopInv, IdlesOK
    <2>3. /\ idle_handles' \in Seq(Idles) /\ Once(idle_handles')
          /\ \A r : In(idle_handles', r) <=> In(idle_handles, r) \/ r = h
      BY Zenon, <1>2, <2>2, ConsIn DEF Holds
    <2>4. Holds(hs', idle_handles', Idles)
      BY Zenon, <1>4, <2>2, <2>3 DEF Holds
    <2>5. pc = "idle" => Holds(hs', queue, Idles) /\ Apart(queue, idle_handles')
      BY Zenon, <2>1, <2>3 DEF LoopInv, IdlesOK, Apart
    <2> QED BY Zenon, <1>2, <2>4, <2>5 DEF IdlesOK
  <1>8. handle_queue' \subseteq Handles /\ handle_queue \ {h} \subseteq handle_queue'
    BY Zenon, <1>2 DEF LoopInv
  <1> QED BY Zenon, <1>1, <1>2, <1>3, <1>4, <1>5, <1>6, <1>7, <1>8, HandleStep

LEMMA IdleStopStep ==
    ASSUME LoopInv, NEW h \in Idles, IdleStop(h)
    PROVE  LoopInv'
  <1>1. h \in Handles /\ h \notin Timers /\ h \notin Asyncs /\ h # WqAsync
    BY Zenon, HandlesAssumption, TypesAreApart DEF TypesApart
  <1>2. /\ Open(h) /\ hs' = HandleStop(hs, h)
        /\ idle_handles' = Remove(idle_handles, h) /\ queue' = Remove(queue, h)
        /\ UNCHANGED <<handle_queue, closing_handles, timer_heap, async_handles, pc>>
    BY Zenon DEF IdleStop, timerVars, asyncVars
  <1>3. Exact(hs') /\ Only(hs, hs', h) /\ hs'.flags[h] = hs.flags[h] \ {"active"}
    BY Zenon, <1>1, <1>2, StopExact DEF LoopInv, Sets
  <1>4. ~IsActive(hs', h) /\ ~Owed(hs', h) /\ ~Owed(hs, h) /\ h \in handle_queue
    BY Zenon, <1>2, <1>3 DEF IsActive, IsClosing, Owed, Open
  <1>5. Holds(hs', timer_heap', Timers)
    <2>1. ~In(timer_heap, h)
      BY Zenon, <1>1, InSeq DEF LoopInv, Holds
    <2> QED BY Zenon, <1>2, <1>3, <2>1, HoldsKept, TypesAreApart DEF LoopInv, TypesApart
  <1>6. IdlesOK' /\ AsyncsOK'
    BY Zenon, <1>1, <1>2, <1>3, IdlesRemoved, AsyncsRemoved DEF LoopInv
  <1>7. pc = "closing" => queue' = queue
    BY Zenon, <1>2, <1>4, NotWaiting, RemoveNothing
  <1>8. handle_queue' \subseteq Handles /\ handle_queue \ {h} \subseteq handle_queue'
    BY Zenon, <1>2 DEF LoopInv
  <1> QED BY Zenon, <1>1, <1>2, <1>3, <1>4, <1>5, <1>6, <1>7, <1>8, HandleStep

\* uv_async_init initialises and starts the handle at once.
LEMMA AsyncInitStep ==
    ASSUME LoopInv, NEW h \in Asyncs, AsyncInit(h)
    PROVE  LoopInv'
  <1>1. h \in Handles /\ h \notin Timers /\ h \notin Idles /\ h # WqAsync
    BY Zenon, HandlesAssumption, TypesAreApart DEF TypesApart, AsyncInit
  <1>2. /\ h \notin handle_queue /\ hs' = HandleStart(HandleInit(hs, h), h)
        /\ handle_queue' = handle_queue \cup {h} /\ async_handles' = Append(async_handles, h)
        /\ UNCHANGED <<closing_handles, timer_heap, idle_handles, queue, pc>>
    BY Zenon DEF AsyncInit, NotOpen, timerVars, runVars
  <1>3. ~IsActive(hs, h)
    BY Zenon, <1>1, <1>2 DEF LoopInv, ActiveOK
  <1>4. Exact(hs') /\ Only(hs, hs', h) /\ hs'.flags[h] = {"ref", "active"}
    <2> DEFINE x == HandleInit(hs, h)
    <2>1. Sets(hs, x, h, {"ref"})
      BY Zenon, <1>1, <1>3, InitExact DEF LoopInv
    <2>2. hs' = HandleStart(x, h)
      BY Zenon, <1>2
    <2> HIDE DEF x
    <2>3. Sets(x, hs', h, x.flags[h] \cup {"active"})
      BY Zenon, <1>1, <2>1, <2>2, StartExact DEF Sets
    <2>4. {"ref"} \cup {"active"} = {"ref", "active"}
      OBVIOUS
    <2> QED BY Zenon, <2>1, <2>3, <2>4 DEF Sets, Only
  <1>5. IsActive(hs', h) /\ ~IsClosing(hs', h) /\ ~Owed(hs', h)
    BY Zenon, <1>4 DEF IsActive, IsClosing, Owed
  <1>6. Holds(hs', timer_heap', Timers)
    BY Zenon, <1>2, <1>4, <1>5, HoldsKept, TypesAreApart DEF LoopInv, TypesApart
  <1>7. IdlesOK'
    BY Zenon, <1>1, <1>2, <1>4, IdlesKept DEF LoopInv
  <1>8. AsyncsOK'
    <2>1. ASSUME NEW q, Holds(hs, q, Asyncs) PROVE Holds(hs', q, Asyncs) /\ ~In(q, h)
      BY Zenon, <1>3, <1>4, <1>5, <2>1, HoldsKept, TypesAreApart DEF TypesApart, Holds
    <2>2. Holds(hs', async_handles, Asyncs) /\ ~In(async_handles, h)
      BY Zenon, <2>1 DEF LoopInv, AsyncsOK
    <2>3. /\ async_handles' \in Seq(Asyncs) /\ Once(async_handles')
          /\ \A r : In(async_handles', r) <=> In(async_handles, r) \/ r = h
      BY Zenon, <1>2, <2>2, AppendIn DEF Holds
    <2>4. Holds(hs', async_handles', Asyncs)
      BY Zenon, <1>5, <2>2, <2>3 DEF Holds
    <2>5. pc = "async" => Holds(hs', queue, Asyncs) /\ Apart(queue, async_handles')
      BY Zenon, <2>1, <2>3 DEF LoopInv, AsyncsOK, Apart
    <2> QED BY Zenon, <1>2, <2>4, <2>5 DEF AsyncsOK
  <1>9. /\ handle_queue' \subseteq Handles /\ handle_queue \ {h} \subseteq handle_queue'
        /\ h \in handle_queue'
    BY Zenon, <1>1, <1>2 DEF LoopInv
  <1> QED BY Zenon, <1>1, <1>2, <1>4, <1>5, <1>6, <1>7, <1>8, <1>9, HandleStep

\* uv_close of an idle or an async handle.
LEMMA CloseWatcherStep ==
    ASSUME LoopInv, NEW h \in Handles, (h \in Idles /\ CloseIdle(h)) \/ (h \in Asyncs /\ CloseAsync(h))
    PROVE  LoopInv'
  <1>1. h \notin Timers /\ h # WqAsync
    BY Zenon, HandlesAssumption, TypesAreApart DEF TypesApart, CloseAsync
  <1>2. /\ Open(h) /\ hs' = HandleStop(SetFlag(hs, h, "closing"), h)
        /\ queue' = Remove(queue, h) /\ MakeClosePending(h)
        /\ UNCHANGED <<handle_queue, timer_heap, pc>>
    BY Zenon DEF CloseIdle, CloseAsync, timerVars
  <1>3. /\ \/ idle_handles' = Remove(idle_handles, h)
           \/ idle_handles' = idle_handles /\ h \notin Idles
        /\ \/ async_handles' = Remove(async_handles, h)
           \/ async_handles' = async_handles /\ h \notin Asyncs
    BY Zenon, TypesAreApart DEF TypesApart, CloseIdle, CloseAsync, asyncVars
  <1>4. /\ Exact(hs') /\ Only(hs, hs', h)
        /\ hs'.flags[h] = (hs.flags[h] \cup {"closing"}) \ {"active"}
    <2> DEFINE x == SetFlag(hs, h, "closing")
    <2>1. Sets(hs, x, h, hs.flags[h] \cup {"closing"})
      BY Zenon, SetFlagExact DEF LoopInv
    <2>2. hs' = HandleStop(x, h)
      BY Zenon, <1>2
    <2> HIDE DEF x
    <2>3. Sets(x, hs', h, x.flags[h] \ {"active"})
      BY Zenon, <2>1, <2>2, StopExact DEF Sets
    <2> QED BY Zenon, <2>1, <2>3 DEF Sets, Only
  <1>5. /\ ~IsActive(hs', h) /\ "closing" \in hs'.flags[h]
        /\ hs'.flags[h] \subseteq hs.flags[h] \cup {"closing"}
    BY Zenon, <1>4 DEF IsActive
  <1>6. Holds(hs', timer_heap', Timers)
    <2>1. ~In(timer_heap, h)
      BY Zenon, <1>1, InSeq DEF LoopInv, Holds
    <2> QED BY Zenon, <1>2, <1>4, <2>1, HoldsKept, TypesAreApart DEF LoopInv, TypesApart
  <1>7. IdlesOK' /\ AsyncsOK'
    BY Zenon, <1>2, <1>3, <1>4, IdlesRemoved, AsyncsRemoved DEF LoopInv
  <1> QED BY Zenon, <1>1, <1>2, <1>4, <1>5, <1>6, <1>7, CloseStep

\* The timer state with which uv_close stops timer t.
ClosingTimer(t) == [TimerState EXCEPT !.hs = SetFlag(@, t, "closing")]

LEMMA ClosingTimerOK ==
    ASSUME LoopInv, NEW t \in Timers
    PROVE  /\ TimersOK(ClosingTimer(t))
           /\ ClosingTimer(t).hs = SetFlag(hs, t, "closing")
           /\ ClosingTimer(t).heap = timer_heap
           /\ Sets(hs, SetFlag(hs, t, "closing"), t, hs.flags[t] \cup {"closing"})
  <1> DEFINE x == SetFlag(hs, t, "closing")
             tx == ClosingTimer(t)
  <1>1. Sets(hs, x, t, hs.flags[t] \cup {"closing"})
    BY Zenon, SetFlagExact DEF LoopInv, Handles
  <1>2. tx = [hs |-> x, heap |-> timer_heap, timeout |-> timeout, repeat |-> repeat,
              wanted |-> wanted]
    BY DEF TimerState, ClosingTimer
  <1> HIDE DEF x, tx
  <1>3. tx.hs = x /\ tx.heap = timer_heap
    BY SMT, <1>2
  <1>4. tx = [hs |-> tx.hs, heap |-> tx.heap, timeout |-> tx.timeout, repeat |-> tx.repeat,
              wanted |-> tx.wanted]
    BY SMT, <1>2
  <1>5. Holds(x, timer_heap, Timers)
    <2>1. In(timer_heap, t) => IsActive(x, t)
      BY Zenon, <1>1 DEF LoopInv, Holds, Sets, IsActive
    <2> QED BY Zenon, <1>1, <2>1, HoldsKept, TypesAreApart DEF LoopInv, Sets, TypesApart
  <1> QED BY Zenon, <1>1, <1>3, <1>4, <1>5 DEF TimersOK, Sets, x, tx

LEMMA CloseTimerStep ==
    ASSUME LoopInv, NEW t \in Timers, CloseTimer(t)
    PROVE  LoopInv'
  <1> DEFINE x == SetFlag(hs, t, "closing")
             tx == ClosingTimer(t)
             ts == StopTimer(tx, t)
  <1>1. t \in Handles /\ t \notin Idles /\ t \notin Asyncs /\ t # WqAsync
    BY Zenon, HandlesAssumption, TypesAreApart DEF TypesApart
  <1>2. /\ Open(t) /\ SetTimers(ts) /\ MakeClosePending(t)
        /\ UNCHANGED <<handle_queue, idle_handles, async_handles, queue, pc>>
    BY Zenon DEF CloseTimer, ClosingTimer, asyncVars, runVars
  <1>3. /\ Sets(hs, x, t, hs.flags[t] \cup {"closing"})
        /\ TimersOK(tx) /\ tx.hs = x
    BY Zenon, ClosingTimerOK
  <1> HIDE DEF x, tx
  <1>5. TimersOK(ts) /\ Sets(x, ts.hs, t, x.flags[t] \ {"active"})
    BY Zenon, <1>3, StopTimerOK
  <1> HIDE DEF ts
  <1>6. /\ Exact(hs') /\ Only(hs, hs', t) /\ Holds(hs', timer_heap', Timers)
        /\ hs'.flags[t] = (hs.flags[t] \cup {"closing"}) \ {"active"}
    BY Zenon, <1>2, <1>3, <1>5 DEF Sets, Only, SetTimers, TimersOK
  <1>7. /\ ~IsActive(hs', t) /\ "closing" \in hs'.flags[t]
        /\ hs'.flags[t] \subseteq hs.flags[t] \cup {"closing"}
    BY Zenon, <1>6 DEF IsActive
  <1>8. IdlesOK' /\ AsyncsOK'
    BY Zenon, <1>1, <1>2, <1>6, IdlesKept, AsyncsKept DEF LoopInv
  <1> QED BY Zenon, <1>1, <1>2, <1>6, <1>7, <1>8, CloseStep

-----------------------------------------------------------------------------
(***************************************************************************)
(* The phases of uv_run, and uv_loop_close.                                *)
(***************************************************************************)

\* uv__run_idle takes over the list.
LEMMA PendingDoneStep ==
    ASSUME LoopInv, PendingDone
    PROVE  LoopInv'
  <1>1. /\ pc = "pending" /\ pc' = "idle" /\ queue' = idle_handles /\ idle_handles' = <<>>
        /\ UNCHANGED <<hs, handle_queue, closing_handles, timer_heap, async_handles>>
    BY Zenon DEF PendingDone, At, handleVars, timerVars, asyncVars
  <1>2. IdlesOK'
    BY Zenon, <1>1, EmptyIn DEF LoopInv, IdlesOK, Holds, Apart
  <1>3. AsyncsOK' /\ ClosingOK' /\ OwedOK' /\ ActiveOK'
    BY Zenon, <1>1 DEF LoopInv, AsyncsOK, ClosingOK, OwedOK, ActiveOK
  <1> QED BY Zenon, <1>1, <1>2, <1>3 DEF LoopInv

\* A walk moves the head of the list it took over back to the list, and visits it.
LEMMA WalkStep ==
    ASSUME NEW x, NEW S, NEW q, NEW p, Holds(x, q, S), Holds(x, p, S), Apart(q, p), q # <<>>
    PROVE  /\ Holds(x, Tail(q), S) /\ Holds(x, Append(p, Head(q)), S)
           /\ Apart(Tail(q), Append(p, Head(q))) /\ Head(q) \in S /\ IsActive(x, Head(q))
  <1>1. /\ Head(q) \in S /\ In(q, Head(q)) /\ Tail(q) \in Seq(S) /\ Once(Tail(q))
        /\ \A r : In(Tail(q), r) <=> In(q, r) /\ r # Head(q)
    BY Zenon, TailIn DEF Holds
  <1>2. ~In(p, Head(q)) /\ IsActive(x, Head(q))
    BY Zenon, <1>1 DEF Apart, Holds
  <1>3. /\ Append(p, Head(q)) \in Seq(S) /\ Once(Append(p, Head(q)))
        /\ \A r : In(Append(p, Head(q)), r) <=> In(p, r) \/ r = Head(q)
    BY Zenon, <1>1, <1>2, AppendIn DEF Holds
  <1>4. Holds(x, Tail(q), S)
    BY Zenon, <1>1 DEF Holds
  <1>5. Holds(x, Append(p, Head(q)), S)
    BY Zenon, <1>2, <1>3 DEF Holds
  <1>6. Apart(Tail(q), Append(p, Head(q)))
    BY Zenon, <1>1, <1>3 DEF Apart
  <1> QED BY Zenon, <1>1, <1>2, <1>4, <1>5, <1>6

LEMMA ActiveIsOpen ==
    ASSUME LoopInv, NEW h \in Handles, IsActive(hs, h)
    PROVE  Open(h)
  BY Zenon DEF LoopInv, ActiveOK, Open

LEMMA RunIdleStep ==
    ASSUME LoopInv, RunIdle
    PROVE  LoopInv' /\ Open(cb')
  <1>1. /\ pc = "idle" /\ pc' = "idle" /\ queue # <<>> /\ queue' = Tail(queue)
        /\ idle_handles' = Append(idle_handles, Head(queue)) /\ cb' = Head(queue)
        /\ UNCHANGED <<hs, handle_queue, closing_handles, timer_heap, async_handles>>
    BY Zenon DEF RunIdle, At, handleVars, timerVars, asyncVars, MakeCallback
  <1>2. /\ Holds(hs, queue', Idles) /\ Holds(hs, idle_handles', Idles)
        /\ Apart(queue', idle_handles') /\ Head(queue) \in Idles /\ IsActive(hs, Head(queue))
    BY Zenon, <1>1, WalkStep DEF LoopInv, IdlesOK
  <1>3. IdlesOK' /\ AsyncsOK' /\ ClosingOK' /\ OwedOK' /\ ActiveOK'
    BY Zenon, <1>1, <1>2 DEF LoopInv, IdlesOK, AsyncsOK, ClosingOK, OwedOK, ActiveOK
  <1>4. Open(cb')
    BY Zenon, <1>1, <1>2, ActiveIsOpen, TypesAreApart DEF TypesApart
  <1> QED BY Zenon, <1>1, <1>3, <1>4 DEF LoopInv

\* uv__async_event takes over the list.
LEMMA AsyncIoStep ==
    ASSUME LoopInv, AsyncIo
    PROVE  LoopInv'
  <1>1. /\ pc = "poll" /\ pc' = "async" /\ queue' = async_handles /\ async_handles' = <<>>
        /\ UNCHANGED <<hs, handle_queue, closing_handles, timer_heap, idle_handles>>
    BY Zenon DEF AsyncIo, At, handleVars, timerVars
  <1>2. AsyncsOK'
    BY Zenon, <1>1, EmptyIn DEF LoopInv, AsyncsOK, Holds, Apart
  <1>3. IdlesOK' /\ ClosingOK' /\ OwedOK' /\ ActiveOK'
    BY Zenon, <1>1 DEF LoopInv, IdlesOK, ClosingOK, OwedOK, ActiveOK
  <1> QED BY Zenon, <1>1, <1>2, <1>3 DEF LoopInv

LEMMA AsyncNextStep ==
    ASSUME LoopInv, AsyncNext
    PROVE  LoopInv' /\ (cb' # cb => Open(cb'))
  <1>1. /\ pc = "async" /\ pc' = "async" /\ queue # <<>> /\ queue' = Tail(queue)
        /\ async_handles' = Append(async_handles, Head(queue)) /\ cb' \in {cb, Head(queue)}
        /\ UNCHANGED <<hs, handle_queue, closing_handles, timer_heap, idle_handles>>
    BY Zenon DEF AsyncNext, At, handleVars, timerVars, MakeCallback
  <1>2. /\ Holds(hs, queue', Asyncs) /\ Holds(hs, async_handles', Asyncs)
        /\ Apart(queue', async_handles') /\ Head(queue) \in Asyncs /\ IsActive(hs, Head(queue))
    BY Zenon, <1>1, WalkStep DEF LoopInv, AsyncsOK
  <1>3. IdlesOK' /\ AsyncsOK' /\ ClosingOK' /\ OwedOK' /\ ActiveOK'
    BY Zenon, <1>1, <1>2 DEF LoopInv, IdlesOK, AsyncsOK, ClosingOK, OwedOK, ActiveOK
  <1>4. Open(Head(queue))
    BY Zenon, <1>1, <1>2, ActiveIsOpen, TypesAreApart DEF TypesApart
  <1> QED BY Zenon, <1>1, <1>3, <1>4 DEF LoopInv

\* uv__run_closing_handles takes over the list.
LEMMA PollReturnStep ==
    ASSUME LoopInv, PollReturn, pc \in {"poll", "async"},
           UNCHANGED <<hs, handle_queue, timer_heap, idle_handles, async_handles>>
    PROVE  LoopInv'
  <1>1. pc' = "closing" /\ queue' = closing_handles /\ closing_handles' = <<>>
    BY Zenon DEF PollReturn
  <1>2. ClosingOK'
    BY Zenon, <1>1, EmptyIn DEF LoopInv, ClosingOK, Waits, Apart
  <1>3. IdlesOK' /\ AsyncsOK' /\ OwedOK' /\ ActiveOK'
    BY Zenon, <1>1 DEF LoopInv, IdlesOK, AsyncsOK, OwedOK, ActiveOK
  <1> QED BY Zenon, <1>1, <1>2, <1>3 DEF LoopInv

\* Waiting in epoll_wait again, or not.
LEMMA PollSteps ==
    ASSUME LoopInv, PollNothing \/ PollTimesOut \/ PollInterrupted \/ AsyncDone
    PROVE  LoopInv'
  <1>1. /\ pc \in {"poll", "async"}
        /\ UNCHANGED <<hs, handle_queue, timer_heap, idle_handles, async_handles>>
    BY Zenon DEF PollNothing, PollTimesOut, PollInterrupted, AsyncDone, At, timerVars,
       asyncVars
  <1>2. PollReturn \/ UNCHANGED <<pc, queue, closing_handles>>
    BY Zenon DEF PollNothing, PollTimesOut, PollInterrupted, AsyncDone, UpdateTimeout
  <1>3. CASE PollReturn
    BY Zenon, <1>1, <1>3, PollReturnStep
  <1>4. CASE UNCHANGED <<pc, queue, closing_handles>>
    BY Zenon, <1>1, <1>4, QuietStep
  <1> QED BY Zenon, <1>2, <1>3, <1>4

\* uv__finish_close, with the handle's last callback.
LEMMA FinishCloseStep ==
    ASSUME LoopInv, FinishClose
    PROVE  LoopInv' /\ (cb' # cb => Owed(hs, cb'))
  <1> DEFINE h == Head(queue)
             x == SetFlag(hs, h, "closed")
  <1>1. /\ pc = "closing" /\ pc' = "closing" /\ queue # <<>> /\ queue' = Tail(queue)
        /\ hs' = HandleUnref(x, h) /\ handle_queue' = handle_queue \ {h}
        /\ cb' \in {cb, h}
        /\ UNCHANGED <<closing_handles, timer_heap, idle_handles, async_handles>>
    BY Zenon DEF FinishClose, At, timerVars, asyncVars, MakeCallback
  <1>2. Waits(hs, handle_queue, queue) /\ Apart(queue, closing_handles)
    BY Zenon, <1>1 DEF LoopInv, ClosingOK
  <1>3. /\ h \in Handles /\ In(queue, h) /\ queue' \in Seq(Handles) /\ Once(queue')
        /\ \A r : In(queue', r) <=> In(queue, r) /\ r # h
    BY Zenon, <1>1, <1>2, TailIn DEF Waits
  <1> HIDE DEF h
  <1>4. Owed(hs, h) /\ ~In(closing_handles, h) /\ ~IsActive(hs, h) /\ h # WqAsync
    BY Zenon, <1>2, <1>3 DEF Waits, Apart, LoopInv, ActiveOK, IsClosing, Owed
  <1>5. /\ Exact(hs') /\ Only(hs, hs', h)
        /\ hs'.flags[h] = (hs.flags[h] \cup {"closed"}) \ {"ref"}
    <2>1. Sets(hs, x, h, hs.flags[h] \cup {"closed"})
      BY Zenon, <1>3, SetFlagExact DEF LoopInv
    <2> HIDE DEF x
    <2>2. Sets(x, hs', h, x.flags[h] \ {"ref"})
      BY Zenon, <1>1, <1>3, <2>1, UnrefExact DEF Sets
    <2> QED BY Zenon, <2>1, <2>2 DEF Sets, Only
  <1>6. ~IsActive(hs', h) /\ ~Owed(hs', h)
    BY Zenon, <1>4, <1>5 DEF IsActive, Owed
  <1>7. ActiveOK'
    BY Zenon, <1>1, <1>3, <1>5, <1>6, ActiveKept
  <1>8. ASSUME NEW q, NEW S, S \subseteq Handles, Holds(hs, q, S) PROVE Holds(hs', q, S)
    BY Zenon, <1>4, <1>5, <1>8, HoldsKept DEF Holds
  <1>9. Holds(hs', timer_heap', Timers) /\ IdlesOK' /\ AsyncsOK'
    BY Zenon, <1>1, <1>8, TypesAreApart DEF LoopInv, IdlesOK, AsyncsOK, TypesApart
  <1>10. ClosingOK'
    <2>1. Waits(hs', handle_queue', closing_handles)
      BY Zenon, <1>1, <1>4, <1>5, WaitsKept DEF LoopInv, ClosingOK
    <2>2. Waits(hs, handle_queue, queue') /\ ~In(queue', h)
      BY Zenon, <1>2, <1>3 DEF Waits
    <2>3. Waits(hs', handle_queue', queue')
      BY Zenon, <1>1, <1>5, <2>2, WaitsKept
    <2>4. Apart(queue', closing_handles)
      BY Zenon, <1>2, <1>3 DEF Apart
    <2> QED BY Zenon, <1>1, <2>1, <2>3, <2>4 DEF ClosingOK
  <1>11. OwedOK'
    <2>1. \A g \in Handles : Owed(hs', g) => Owed(hs, g) /\ g # h
      BY Zenon, <1>5, <1>6 DEF Owed, Only
    <2> QED BY Zenon, <1>1, <1>3, <2>1 DEF LoopInv, OwedOK
  <1>12. handle_queue' \subseteq Handles /\ ~IsClosing(hs', WqAsync)
    BY Zenon, <1>1, <1>4, <1>5, HandlesAssumption DEF LoopInv, IsClosing, Only, Handles
  <1> QED BY Zenon, <1>1, <1>4, <1>5, <1>7, <1>9, <1>10, <1>11, <1>12 DEF LoopInv

\* uv_loop_close stops wq_async, also when it then returns UV_EBUSY.
LEMMA LoopCloseStep ==
    ASSUME LoopInv, LoopClose
    PROVE  LoopInv'
  <1>1. WqAsync \in Handles /\ WqAsync \notin Timers /\ WqAsync \notin Idles
    BY Zenon, HandlesAssumption, TypesAreApart DEF TypesApart
  <1>2. /\ pc = "user" /\ pc' \in {"closed", "user"} /\ hs' = HandleStop(hs, WqAsync)
        /\ async_handles' = Remove(async_handles, WqAsync)
        /\ handle_queue' = handle_queue \ {WqAsync}
        /\ UNCHANGED <<closing_handles, timer_heap, idle_handles, queue>>
    BY Zenon DEF LoopClose, timerVars
  <1>3. /\ Exact(hs') /\ Only(hs, hs', WqAsync)
        /\ hs'.flags[WqAsync] = hs.flags[WqAsync] \ {"active"}
    BY Zenon, <1>1, <1>2, StopExact DEF LoopInv, Sets
  <1>4. ~IsActive(hs', WqAsync) /\ ~IsClosing(hs', WqAsync) /\ ~Owed(hs, WqAsync)
    BY Zenon, <1>3 DEF LoopInv, IsActive, IsClosing, Owed
  <1>5. ActiveOK'
    BY Zenon, <1>1, <1>2, <1>3, <1>4, ActiveKept
  <1>6. Holds(hs', timer_heap', Timers)
    <2>1. ~In(timer_heap, WqAsync)
      BY Zenon, <1>1, InSeq DEF LoopInv, Holds
    <2> QED BY Zenon, <1>2, <1>3, <2>1, HoldsKept, TypesAreApart DEF LoopInv, TypesApart
  <1>7. IdlesOK'
    <2>1. ~In(idle_handles, WqAsync)
      BY Zenon, <1>1, InSeq DEF LoopInv, IdlesOK, Holds
    <2>2. Holds(hs', idle_handles, Idles)
      BY Zenon, <1>3, <2>1, HoldsKept, TypesAreApart DEF LoopInv, IdlesOK, TypesApart
    <2> QED BY Zenon, <1>2, <2>2 DEF IdlesOK
  <1>8. AsyncsOK'
    <2>1. Holds(hs', Remove(async_handles, WqAsync), Asyncs)
      BY Zenon, <1>3, HoldsRemoved, TypesAreApart DEF LoopInv, AsyncsOK, TypesApart
    <2> QED BY Zenon, <1>2, <2>1 DEF AsyncsOK
  <1>9. ClosingOK'
    <2>1. ~In(closing_handles, WqAsync)
      BY Zenon, <1>4, NotWaiting
    <2>2. Waits(hs', handle_queue', closing_handles)
      BY Zenon, <1>2, <1>3, <2>1, WaitsKept DEF LoopInv, ClosingOK
    <2> QED BY Zenon, <1>2, <2>2 DEF ClosingOK
  <1>10. OwedOK'
    <2>1. \A g \in Handles : Owed(hs', g) => Owed(hs, g)
      BY Zenon, <1>3, <1>4 DEF Owed, Only, IsClosing
    <2> QED BY Zenon, <1>2, <2>1 DEF LoopInv, OwedOK
  <1> QED BY Zenon, <1>2, <1>3, <1>4, <1>5, <1>6, <1>7, <1>8, <1>9, <1>10 DEF LoopInv

-----------------------------------------------------------------------------
(***************************************************************************)
(* The theorems.                                                           *)
(***************************************************************************)

\* The steps that change neither flags nor lists.
QuietNext ==
    \/ \E t \in Timers : TimerSetRepeat(t)
    \/ \E r \in Reqs : QueueWork(r) \/ FeedRequest(r)
    \/ Stop \/ UpdateTime \/ CallbackReturns \/ RunNothing \/ RunBegin \/ TimersDone
    \/ WorkDone \/ IdleDone \/ CloseDone \/ OnceDone \/ Tick
    \/ ThreadStep

LEMMA QuietNextStep ==
    ASSUME LoopInv, QuietNext
    PROVE  LoopInv' /\ cb' \in {cb, NoHandle}
  <1> USE DEF handleVars, timerVars, asyncVars, runVars, envVars
  <1>1. /\ UNCHANGED <<hs, handle_queue, closing_handles, timer_heap, idle_handles,
                       async_handles, queue>>
        /\ cb' \in {cb, NoHandle}
    BY Zenon DEF QuietNext, TimerSetRepeat, QueueWork, FeedRequest, Stop, UpdateTime,
           CallbackReturns, RunNothing, RunBegin, TimersDone, WorkDone, IdleDone, CloseDone,
           OnceDone, Tick, ThreadStep, SendWrite, Send, WorkerDone
  <1>2. CASE \/ \E t \in Timers : TimerSetRepeat(t)
             \/ \E r \in Reqs : QueueWork(r) \/ FeedRequest(r)
             \/ Stop \/ UpdateTime \/ CallbackReturns \/ RunNothing \/ WorkDone \/ Tick
             \/ \E s \in Threads : \/ \E h \in Asyncs : Send(s, h)
                                   \/ \E r \in Reqs : WorkerDone(s, r)
    <2>1. pc' = pc
      BY Zenon, <1>2 DEF TimerSetRepeat, QueueWork, FeedRequest, Stop, UpdateTime,
         CallbackReturns, RunNothing, WorkDone, Tick, Send, WorkerDone
    <2> QED BY Zenon, <1>1, <2>1, QuietStep
  <1>3. CASE RunBegin \/ TimersDone \/ IdleDone \/ CloseDone \/ OnceDone
    <2>1. /\ pc' \in {"timers", "pending", "poll", "timers_once", "user"}
          /\ pc # "aborted" /\ (pc = "closing" => queue = <<>>)
      BY Zenon, <1>3 DEF RunBegin, TimersDone, IdleDone, CloseDone, OnceDone, RunAgain, At
    <2> QED BY Zenon, <1>1, <2>1, QuietStep
  <1>4. CASE \E s \in Threads : SendWrite(s)
    <2>1. pc' \in {pc, "aborted"} /\ pc # "aborted"
      BY Zenon, <1>4 DEF SendWrite
    <2> QED BY Zenon, <1>1, <2>1, QuietStep
  <1> QED BY Zenon, <1>1, <1>2, <1>3, <1>4 DEF QuietNext, ThreadStep

\* The callback of a request, if the step begins one, is that of an active request.
LEMMA RequestDoneStep ==
    ASSUME ReqInv, RequestDone
    PROVE  cb' # cb => cb' \in Reqs /\ cb' \in reqs.active_reqs
  <1>1. reqs.taken # <<>> /\ cb' \in {cb, Head(reqs.taken)}
    BY Zenon DEF RequestDone, MakeCallback
  <1>2. Head(reqs.taken) \in Reqs /\ In(reqs.taken, Head(reqs.taken))
    BY Zenon, <1>1, TailIn DEF ReqInv
  <1> QED BY Zenon, <1>1, <1>2 DEF ReqInv, Listed

\* The callback that a step begins, if it begins one for a handle.
CallbackOK == cb' \notin {cb, NoHandle} /\ cb' \notin Reqs =>
                IF pc = "closing" THEN "closing" \in hs.flags[cb'] /\ "closed" \notin hs.flags[cb']
                                  ELSE Open(cb')

LEMMA LoopInvNext == LoopInv /\ ReqInv /\ [Next]_vars => LoopInv' /\ CallbackOK
  <1> SUFFICES ASSUME LoopInv, ReqInv, [Next]_vars PROVE LoopInv' /\ CallbackOK
    OBVIOUS
  <1>1. CASE UNCHANGED vars
    <2>1. UNCHANGED <<hs, handle_queue, closing_handles, timer_heap, idle_handles,
                      async_handles, queue, pc, cb>>
      BY Zenon, <1>1 DEF vars, handleVars, timerVars, asyncVars, runVars
    <2> QED BY Zenon, <2>1, QuietStep DEF CallbackOK
  <1>2. CASE QuietNext
    BY Zenon, <1>2, QuietNextStep DEF CallbackOK
  <1>3. CASE UserCall /\ ~QuietNext
    <2>0. cb' = cb
      BY Zenon, <1>3 DEF UserCall, QuietNext, TimerInit, TimerDeinit, TimerStart, TimerStop,
             TimerAgain, CloseTimer, IdleInit, IdleStart, IdleStop, CloseIdle, AsyncInit,
             CloseAsync, Ref, Unref, LoopClose, runVars
    <2>1. ASSUME NEW t \in Timers,
                 \/ TimerInit(t) \/ TimerDeinit(t) \/ TimerStart(t) \/ TimerStop(t)
                 \/ TimerAgain(t) \/ CloseTimer(t)
          PROVE  LoopInv'
      <3>1. CASE TimerInit(t)
        <4>1. t \in Handles /\ t # WqAsync
          BY Zenon, HandlesAssumption DEF Handles
        <4>2. /\ NotOpen(t) /\ hs' = HandleInit(hs, t) /\ handle_queue' = handle_queue \cup {t}
              /\ UNCHANGED <<closing_handles, timer_heap, idle_handles, async_handles, queue, pc>>
          BY Zenon, <3>1 DEF TimerInit, asyncVars, runVars
        <4> QED BY Zenon, <4>1, <4>2, InitStep
      <3> QED BY Zenon, <2>1, <3>1, DeinitStep, TimerCalls, CloseTimerStep
    <2>2. ASSUME NEW h \in Idles, IdleInit(h) \/ IdleStart(h) \/ IdleStop(h) \/ CloseIdle(h)
          PROVE  LoopInv'
      <3>1. h \in Handles /\ h # WqAsync
        BY Zenon, HandlesAssumption DEF Handles
      <3>2. CASE IdleInit(h)
        <4>1. /\ NotOpen(h) /\ hs' = HandleInit(hs, h) /\ handle_queue' = handle_queue \cup {h}
              /\ UNCHANGED <<closing_handles, timer_heap, idle_handles, async_handles, queue, pc>>
          BY Zenon, <3>2 DEF IdleInit, timerVars, asyncVars, runVars
        <4> QED BY Zenon, <3>1, <4>1, InitStep
      <3> QED BY Zenon, <2>2, <3>1, <3>2, IdleStartStep, IdleStopStep, CloseWatcherStep
    <2>3. ASSUME NEW h \in Asyncs, AsyncInit(h) \/ CloseAsync(h)
          PROVE  LoopInv'
      <3>1. h \in Handles
        BY Zenon DEF Handles
      <3> QED BY Zenon, <2>3, <3>1, AsyncInitStep, CloseWatcherStep
    <2>4. ASSUME NEW h \in Handles \ {WqAsync}, Ref(h) \/ Unref(h)
          PROVE  LoopInv'
      BY Zenon, <2>4, RefSteps
    <2>5. LoopInv'
      BY Zenon, <1>3, <2>1, <2>2, <2>3, <2>4, LoopCloseStep DEF UserCall, QuietNext
    <2> QED BY Zenon, <2>0, <2>5 DEF CallbackOK
  <1>4. CASE FireTimer
    <2>1. pc # "closing"
      BY Zenon, <1>4 DEF FireTimer, At
    <2> QED BY Zenon, <1>4, <2>1, FireTimerStep DEF CallbackOK
  <1>5. CASE RunIdle
    <2>1. pc # "closing"
      BY Zenon, <1>5 DEF RunIdle, At
    <2> QED BY Zenon, <1>5, <2>1, RunIdleStep DEF CallbackOK
  <1>6. CASE AsyncNext
    <2>1. pc # "closing"
      BY Zenon, <1>6 DEF AsyncNext, At
    <2> QED BY Zenon, <1>6, <2>1, AsyncNextStep DEF CallbackOK
  <1>7. CASE FinishClose
    <2>1. pc = "closing"
      BY Zenon, <1>7 DEF FinishClose, At
    <2> QED BY Zenon, <1>7, <2>1, FinishCloseStep DEF CallbackOK, Owed
  <1>8. CASE PendingDone \/ AsyncIo \/ PollNothing \/ PollTimesOut \/ PollInterrupted \/ AsyncDone
    <2>1. cb' = cb
      BY Zenon, <1>8 DEF PendingDone, AsyncIo, PollNothing, PollTimesOut, PollInterrupted,
         AsyncDone
    <2>2. LoopInv'
      BY Zenon, <1>8, PendingDoneStep, AsyncIoStep, PollSteps
    <2> QED BY Zenon, <2>1, <2>2 DEF CallbackOK
  <1>9. CASE RequestDone
    <2>1. UNCHANGED <<hs, handle_queue, closing_handles, timer_heap, idle_handles,
                      async_handles, queue, pc>>
      BY Zenon, <1>9 DEF RequestDone, handleVars, timerVars, asyncVars
    <2> QED BY Zenon, <1>9, <2>1, QuietStep, RequestDoneStep DEF CallbackOK
  <1> QED BY Zenon, <1>1, <1>2, <1>3, <1>4, <1>5, <1>6, <1>7, <1>8, <1>9
          DEF Next, LoopStep, QuietNext

LEMMA LoopInvariance == Spec => []LoopInv
  <1>1. LoopInv /\ ReqInv /\ [Next]_vars => LoopInv'
    BY Zenon, LoopInvNext
  <1> QED BY LoopInvInit, ReqInvariance, <1>1, PTL DEF Spec

\* The steps that begin a callback; that of a handle is not that of a request.
LEMMA CallbackSteps ==
    ASSUME LoopInv, [Next]_vars, cb' \notin {cb, NoHandle}
    PROVE  \/ RequestDone
           \/ (FireTimer \/ RunIdle \/ AsyncNext \/ FinishClose) /\ cb' \notin Reqs
  <1>1. ~UserCall
    BY Zenon DEF UserCall, TimerInit, TimerDeinit, TimerStart, TimerStop, TimerAgain,
       TimerSetRepeat, CloseTimer, IdleInit, IdleStart, IdleStop, CloseIdle, AsyncInit,
       CloseAsync, Ref, Unref, Stop, UpdateTime, LoopClose, QueueWork, FeedRequest, runVars
  <1>2. RequestDone \/ FireTimer \/ RunIdle \/ AsyncNext \/ FinishClose
    BY Zenon, <1>1 DEF Next, LoopStep, CallbackReturns, TimersDone, PendingDone, WorkDone,
       IdleDone, PollNothing, PollTimesOut, PollInterrupted, AsyncIo, AsyncDone, CloseDone,
       OnceDone, RunNothing, RunBegin, Tick, ThreadStep, SendWrite, Send, WorkerDone, vars,
       runVars
  <1>3. ASSUME NEW h, Open(h) PROVE h \in Handles
    BY Zenon, <1>3 DEF LoopInv, Open
  <1>4. FinishClose => cb' \in Handles
    <2> SUFFICES ASSUME FinishClose PROVE cb' \in Handles
      OBVIOUS
    <2>1. pc = "closing" /\ queue # <<>> /\ cb' = Head(queue)
      BY Zenon DEF FinishClose, At, MakeCallback
    <2> QED BY Zenon, <2>1, TailIn DEF LoopInv, ClosingOK, Waits
  <1>5. RequestDone \/ cb' \in Handles
    BY Zenon, <1>2, <1>3, <1>4, FireTimerStep, RunIdleStep, AsyncNextStep
  <1> QED BY Zenon, <1>2, <1>5, HandlesAssumption

\* active_handles counts exactly the active handles with a reference, for any
\* handles and any order of calls and callbacks (uv-common.h:178-212): uv_run
\* neither ends too early nor hangs because of an unbalanced pair.
THEOREM CountIsExact == Spec => []ActiveCountExact
  <1>1. LoopInv => ActiveCountExact
    BY Zenon DEF LoopInv, Exact, ActiveCountExact
  <1> QED BY <1>1, LoopInvariance, PTL

\* Timer, idle and async callbacks are made only for open handles, the close callback
\* once, as the last one, and the callback of a request only while it is active
\* (timer.c:203, loop-watcher.c:73, async.c:122, core.c:246, 667, threadpool.c:277).
THEOREM CallbacksAreWanted == Spec => CallbacksOnlyWhileOpen
  <1>1. LoopInv /\ ReqInv /\ [Next]_vars =>
          [cb' \notin {cb, NoHandle} =>
             IF cb' \in Reqs THEN cb' \in reqs.active_reqs
             ELSE
             IF pc = "closing" THEN /\ "closing" \in hs.flags[cb']
                                    /\ "closed" \notin hs.flags[cb']
                               ELSE Open(cb')]_vars
    <2> SUFFICES ASSUME LoopInv, ReqInv, [Next]_vars, cb' \notin {cb, NoHandle}
                 PROVE  IF cb' \in Reqs THEN cb' \in reqs.active_reqs
                        ELSE
                        IF pc = "closing" THEN /\ "closing" \in hs.flags[cb']
                                               /\ "closed" \notin hs.flags[cb']
                                          ELSE Open(cb')
      OBVIOUS
    <2>1. CASE cb' \in Reqs
      BY Zenon, <2>1, CallbackSteps, RequestDoneStep
    <2>2. CASE cb' \notin Reqs
      BY Zenon, <2>2, LoopInvNext DEF CallbackOK
    <2> QED BY Zenon, <2>1, <2>2
  <1> QED BY <1>1, LoopInvariance, ReqInvariance, PTL DEF Spec, CallbacksOnlyWhileOpen

\* When uv_run(UV_RUN_DEFAULT) returns without uv_stop, no request is active, no open
\* handle is active and referenced and no close callback is owed (core.c:291-295,
\* 308-356).
THEOREM RunEndsWhenDead == Spec => RunsUntilDead
  <1>1. LoopInv /\ [Next]_vars =>
          [At("closing") /\ pc' = "user" /\ mode = "default" => stop_flag \/ NothingLeft]_vars
    <2> SUFFICES ASSUME LoopInv, [Next]_vars, At("closing"), pc' = "user", mode = "default",
                        ~stop_flag
                 PROVE  NothingLeft
      OBVIOUS
    <2>1. CloseDone
      <3>1. pc = "closing" /\ pc' # pc
        BY Zenon DEF At
      <3>2. ~UserCall
        BY Zenon, <3>1 DEF UserCall, TimerInit, TimerDeinit, TimerStart, TimerStop,
           TimerAgain, TimerSetRepeat, CloseTimer, IdleInit, IdleStart, IdleStop, CloseIdle,
           AsyncInit, CloseAsync, Ref, Unref, Stop, UpdateTime, LoopClose, QueueWork,
           FeedRequest, runVars
      <3>3. \/ CloseDone
            \/ \E s \in Threads : SendWrite(s)
        BY Zenon, <3>1, <3>2 DEF Next, LoopStep, CallbackReturns, FireTimer, TimersDone,
           RequestDone, PendingDone, WorkDone, RunIdle, IdleDone, PollNothing, PollTimesOut,
           PollInterrupted, AsyncIo, AsyncNext, AsyncDone, FinishClose, OnceDone, RunNothing,
           RunBegin, Tick, ThreadStep, Send, WorkerDone, At, vars, runVars
      <3>4. ASSUME NEW s \in Threads, SendWrite(s) PROVE FALSE
        BY Zenon, <3>1, <3>4 DEF SendWrite
      <3> QED BY Zenon, <3>3, <3>4
    <2>2. queue = <<>> /\ ~Alive /\ pc = "closing"
      BY Zenon, <2>1 DEF CloseDone, RunAgain, At
    <2>3. /\ closing_handles = <<>> /\ hs.active_handles \in Int /\ ~(hs.active_handles > 0)
          /\ reqs.active_reqs = {}
      BY Zenon, <2>2 DEF Alive, LoopInv, Exact
    <2>4. Counted(hs, Handles) = {}
      <3>1. Counted(hs, Handles) \subseteq Handles
        BY Zenon DEF Counted
      <3>2. IsFiniteSet(Counted(hs, Handles))
        BY Zenon, <3>1, FS_Subset, HandlesAssumption
      <3>3. Cardinality(Counted(hs, Handles)) \in Nat
        BY Zenon, <3>2, FS_CardinalityType
      <3>4. Cardinality(Counted(hs, Handles)) = 0
        BY <2>3, <3>3 DEF LoopInv, Exact
      <3> QED BY Zenon, <3>2, <3>4, FS_EmptySet
    <2>5. \A h \in Handles : ~Owed(hs, h)
      BY Zenon, <2>2, <2>3, EmptyIn DEF LoopInv, OwedOK
    <2> QED BY Zenon, <2>3, <2>4, <2>5 DEF NothingLeft, Counted, Owed
  <1> QED BY <1>1, LoopInvariance, PTL DEF Spec, RunsUntilDead


-----------------------------------------------------------------------------
(***************************************************************************)
(* More proofs about EventLoop: the lists of the loop hold all active      *)
(* handles, no send is lost, and no timer is early.                        *)
(***************************************************************************)

-----------------------------------------------------------------------------
(***************************************************************************)
(* LoopInv says that a handle that is linked is active.  The converse is   *)
(* not needed there; it is what makes sure that a walk visits every handle.*)
(***************************************************************************)
Linked(h) ==
    \/ In(timer_heap, h) \/ In(idle_handles, h) \/ In(async_handles, h)
    \/ pc \in {"idle", "async"} /\ In(queue, h)

LinkedInv == pc # "aborted" => \A h \in Handles : IsActive(hs, h) => Linked(h)

\* p may have lost h, but nothing else.
Keeps(p, q, h) == \A g : g # h /\ In(p, g) => In(q, g)

\* A step that changes the flags of h and, possibly, its links.
LEMMA LinkStep ==
    ASSUME LinkedInv, NEW h \in Handles, Only(hs, hs', h), pc' = pc,
           Keeps(timer_heap, timer_heap', h), Keeps(idle_handles, idle_handles', h),
           Keeps(async_handles, async_handles', h),
           pc \in {"idle", "async"} => Keeps(queue, queue', h),
           pc # "aborted" /\ IsActive(hs', h) => Linked(h)'
    PROVE  LinkedInv'
  <1> SUFFICES ASSUME pc # "aborted", NEW g \in Handles, IsActive(hs', g)
               PROVE  Linked(g)'
    BY Zenon DEF LinkedInv
  <1>1. CASE g = h
    BY Zenon, <1>1
  <1>2. CASE g # h
    <2>1. Linked(g)
      BY Zenon, <1>2 DEF LinkedInv, Only, IsActive
    <2> QED BY Zenon, <1>2, <2>1 DEF Linked, Keeps
  <1> QED BY Zenon, <1>1, <1>2

\* A step that changes no flags.
LEMMA MoveStep ==
    ASSUME LinkedInv, hs' = hs, pc = "aborted" => pc' = "aborted",
           pc' # "aborted" => \A g \in Handles : Linked(g) => Linked(g)'
    PROVE  LinkedInv'
  BY Zenon DEF LinkedInv

LEMMA KeepsSame == \A q, h : Keeps(q, q, h)
  BY Zenon DEF Keeps

LEMMA KeepsRemoved ==
    ASSUME NEW S, NEW q \in Seq(S), Once(q), NEW h
    PROVE  Keeps(q, Remove(q, h), h)
  <1>1. \A r : In(Remove(q, h), r) <=> In(q, r) /\ r # h
    BY Zenon, RemoveIn DEF Remove
  <1> QED BY Zenon, <1>1 DEF Keeps

-----------------------------------------------------------------------------
(***************************************************************************)
(* Timers.                                                                 *)
(***************************************************************************)
HeapHas(ts, t) == IsActive(ts.hs, t) => In(ts.heap, t)

LEMMA StopTimerLinks ==
    ASSUME NEW ts, TimersOK(ts), NEW t \in Timers
    PROVE  /\ Keeps(ts.heap, StopTimer(ts, t).heap, t)
           /\ HeapHas(StopTimer(ts, t), t)
  <1>1. ~IsActive(StopTimer(ts, t).hs, t)
    BY Zenon, StopTimerOK DEF Sets, IsActive
  <1>2. CASE ~IsActive(ts.hs, t)
    BY Zenon, <1>1, <1>2, KeepsSame DEF StopTimer, HeapHas
  <1>3. CASE IsActive(ts.hs, t)
    <2>1. StopTimer(ts, t) = [hs |-> HandleStop(ts.hs, t), heap |-> QueueRemove(ts.heap, t),
                  timeout |-> ts.timeout, repeat |-> ts.repeat, wanted |-> ts.wanted]
      BY Zenon, <1>3 DEF StopTimer, TimersOK
    <2>2. StopTimer(ts, t).heap = Remove(ts.heap, t)
      BY <2>1 DEF Remove
    <2> QED BY Zenon, <1>1, <2>2, KeepsRemoved DEF TimersOK, Holds, HeapHas
  <1> QED BY Zenon, <1>2, <1>3

LEMMA StartTimerLinks ==
    ASSUME NEW ts, TimersOK(ts), NEW t \in Timers, NEW d, NEW rep
    PROVE  /\ Keeps(ts.heap, StartTimer(ts, t, d, rep).heap, t)
           /\ HeapHas(StartTimer(ts, t, d, rep), t)
  <1> DEFINE z == StopTimer(ts, t)
             y == StartTimer(ts, t, d, rep)
             due == [z.timeout EXCEPT ![t] = ClampedTimeout(d)]
  <1>1. TimersOK(z) /\ ~In(z.heap, t) /\ Keeps(ts.heap, z.heap, t)
    BY Zenon, StopTimerOK, StopTimerLinks
  <1>2. y.heap = QueueInsert(z.heap, due, t)
    BY Zenon DEF StartTimer
  <1> HIDE DEF y, z, due
  <1>3. \A r : In(y.heap, r) <=> In(z.heap, r) \/ r = t
    BY <1>1, <1>2, QueueInsertIn DEF TimersOK, Holds
  <1> QED BY Zenon, <1>1, <1>3 DEF Keeps, HeapHas, y

LEMMA AgainTimerLinks ==
    ASSUME NEW ts, TimersOK(ts), NEW t \in Timers, HeapHas(ts, t)
    PROVE  /\ Keeps(ts.heap, AgainTimer(ts, t).heap, t)
           /\ HeapHas(AgainTimer(ts, t), t)
  <1>1. CASE ts.repeat[t] = 0
    BY Zenon, <1>1, KeepsSame DEF AgainTimer
  <1>2. CASE ts.repeat[t] # 0
    <2> DEFINE z == StopTimer(ts, t)
               y == StartTimer(z, t, ts.repeat[t], ts.repeat[t])
    <2>1. AgainTimer(ts, t) = y
      BY Zenon, <1>2 DEF AgainTimer
    <2>2. TimersOK(z) /\ Keeps(ts.heap, z.heap, t)
      BY Zenon, StopTimerOK, StopTimerLinks
    <2> HIDE DEF z
    <2>3. Keeps(z.heap, y.heap, t) /\ HeapHas(y, t)
      BY Zenon, <2>2, StartTimerLinks
    <2> HIDE DEF y
    <2> QED BY Zenon, <2>1, <2>2, <2>3 DEF Keeps
  <1> QED BY Zenon, <1>1, <1>2

\* What every step on one timer has in common.
LEMMA TimerLinks ==
    ASSUME LinkedInv, NEW t \in Timers, NEW ts, SetTimers(ts), Only(hs, ts.hs, t),
           Keeps(timer_heap, ts.heap, t), HeapHas(ts, t),
           UNCHANGED <<idle_handles, async_handles, queue, pc>>
    PROVE  LinkedInv'
  <1>1. t \in Handles /\ hs' = ts.hs /\ timer_heap' = ts.heap
    BY Zenon DEF Handles, SetTimers
  <1>2. IsActive(hs', t) => Linked(t)'
    BY Zenon, <1>1 DEF HeapHas, Linked
  <1> QED BY Zenon, <1>1, <1>2, KeepsSame, LinkStep

\* A linked handle is linked in the list of its type.
LEMMA LinkedByType ==
    ASSUME LoopInv, NEW h, Linked(h)
    PROVE  /\ h \in Timers => In(timer_heap, h)
           /\ h \in Idles => In(idle_handles, h) \/ (pc = "idle" /\ In(queue, h))
           /\ h \in Asyncs => In(async_handles, h) \/ (pc = "async" /\ In(queue, h))
  <1>1. /\ In(timer_heap, h) => h \in Timers
        /\ In(idle_handles, h) => h \in Idles
        /\ In(async_handles, h) => h \in Asyncs
    BY Zenon, InSeq DEF LoopInv, IdlesOK, AsyncsOK, Holds
  <1>2. /\ pc = "idle" /\ In(queue, h) => h \in Idles
        /\ pc = "async" /\ In(queue, h) => h \in Asyncs
    BY Zenon, InSeq DEF LoopInv, IdlesOK, AsyncsOK, Holds
  <1> QED BY Zenon, <1>1, <1>2, TypesAreApart DEF Linked, TypesApart

LEMMA TimerCallLinks ==
    ASSUME LoopInv, LinkedInv, NEW t \in Timers, TimerStart(t) \/ TimerStop(t) \/ TimerAgain(t)
    PROVE  LinkedInv'
  <1>0. /\ TimersOK(TimerState) /\ TimerState.hs = hs /\ TimerState.heap = timer_heap
        /\ pc # "aborted" /\ t \in Handles
        /\ UNCHANGED <<idle_handles, async_handles, queue, pc>>
    BY Zenon, TimerStateOK DEF TimerStart, TimerStop, TimerAgain, asyncVars, runVars,
       TimerState, Call, UserRuns, Handles
  <1>1. CASE TimerStart(t)
    <2>1. PICK d \in Timeouts, rep \in Repeats : SetTimers(StartTimer(TimerState, t, d, rep))
      BY Zenon, <1>1 DEF TimerStart
    <2> DEFINE ts == StartTimer(TimerState, t, d, rep)
    <2>2. Sets(TimerState.hs, ts.hs, t, TimerState.hs.flags[t] \cup {"active"})
      BY Zenon, <1>0, StartTimerOK
    <2>3. Keeps(TimerState.heap, ts.heap, t) /\ HeapHas(ts, t)
      BY Zenon, <1>0, StartTimerLinks
    <2>4. SetTimers(ts)
      BY Zenon, <2>1
    <2> HIDE DEF ts
    <2> QED BY Zenon, <1>0, <2>2, <2>3, <2>4, TimerLinks DEF Sets
  <1>2. CASE TimerStop(t)
    <2> DEFINE ts == StopTimer(TimerState, t)
    <2>1. SetTimers(ts)
      BY Zenon, <1>2 DEF TimerStop
    <2>2. Sets(TimerState.hs, ts.hs, t, TimerState.hs.flags[t] \ {"active"})
      BY Zenon, <1>0, StopTimerOK
    <2>3. Keeps(TimerState.heap, ts.heap, t) /\ HeapHas(ts, t)
      BY Zenon, <1>0, StopTimerLinks
    <2> HIDE DEF ts
    <2> QED BY Zenon, <1>0, <2>1, <2>2, <2>3, TimerLinks DEF Sets
  <1>3. CASE TimerAgain(t)
    <2> DEFINE ts == AgainTimer(TimerState, t)
    <2>1. SetTimers(ts)
      BY Zenon, <1>3 DEF TimerAgain
    <2>2. Sets(TimerState.hs, ts.hs, t, ts.hs.flags[t])
      BY Zenon, <1>0, AgainTimerOK
    <2>3. HeapHas(TimerState, t)
      BY Zenon, <1>0, LinkedByType DEF HeapHas, LinkedInv
    <2>4. Keeps(TimerState.heap, ts.heap, t) /\ HeapHas(ts, t)
      BY Zenon, <1>0, <2>3, AgainTimerLinks
    <2> HIDE DEF ts
    <2> QED BY Zenon, <1>0, <2>1, <2>2, <2>4, TimerLinks DEF Sets
  <1> QED BY Zenon, <1>1, <1>2, <1>3

LEMMA FireTimerLinks ==
    ASSUME LoopInv, LinkedInv, FireTimer
    PROVE  LinkedInv'
  <1> DEFINE t == Head(timer_heap)
             z == StopTimer(TimerState, t)
             ts == AgainTimer(z, t)
  <1>1. t \in Timers
    BY Zenon, TailIn DEF FireTimer, TimerDue, LoopInv, Holds
  <1>2. SetTimers(ts) /\ UNCHANGED <<idle_handles, async_handles, queue, pc>>
    BY Zenon DEF FireTimer, asyncVars
  <1>3. TimersOK(TimerState) /\ TimerState.hs = hs /\ TimerState.heap = timer_heap
    BY Zenon, TimerStateOK DEF TimerState
  <1> HIDE DEF t
  <1>4. /\ TimersOK(z) /\ Sets(TimerState.hs, z.hs, t, TimerState.hs.flags[t] \ {"active"})
        /\ Keeps(TimerState.heap, z.heap, t) /\ HeapHas(z, t)
    BY Zenon, <1>1, <1>3, StopTimerOK, StopTimerLinks
  <1> HIDE DEF z
  <1>5. /\ Sets(z.hs, ts.hs, t, ts.hs.flags[t])
        /\ Keeps(z.heap, ts.heap, t) /\ HeapHas(ts, t)
    BY Zenon, <1>1, <1>4, AgainTimerOK, AgainTimerLinks
  <1> HIDE DEF ts
  <1>6. Only(hs, ts.hs, t) /\ Keeps(timer_heap, ts.heap, t)
    BY Zenon, <1>3, <1>4, <1>5 DEF Sets, Only, Keeps
  <1> QED BY Zenon, <1>1, <1>2, <1>5, <1>6, TimerLinks

LEMMA CloseTimerLinks ==
    ASSUME LoopInv, LinkedInv, NEW t \in Timers, CloseTimer(t)
    PROVE  LinkedInv'
  <1> DEFINE x == SetFlag(hs, t, "closing")
             tx == ClosingTimer(t)
             ts == StopTimer(tx, t)
  <1>2. SetTimers(ts) /\ UNCHANGED <<idle_handles, async_handles, queue, pc>>
    BY Zenon DEF CloseTimer, ClosingTimer, asyncVars, runVars
  <1>3. /\ Sets(hs, x, t, hs.flags[t] \cup {"closing"})
        /\ TimersOK(tx) /\ tx.hs = x /\ tx.heap = timer_heap
    BY Zenon, ClosingTimerOK
  <1> HIDE DEF tx, x
  <1>7. /\ Sets(tx.hs, ts.hs, t, tx.hs.flags[t] \ {"active"})
        /\ Keeps(tx.heap, ts.heap, t) /\ HeapHas(ts, t)
    BY Zenon, <1>3, StopTimerOK, StopTimerLinks
  <1> HIDE DEF ts
  <1>8. Only(hs, ts.hs, t) /\ Keeps(timer_heap, ts.heap, t)
    BY Zenon, <1>3, <1>7 DEF Sets, Only
  <1> QED BY Zenon, <1>2, <1>7, <1>8, TimerLinks

-----------------------------------------------------------------------------
(***************************************************************************)
(* The other calls of the API.                                             *)
(***************************************************************************)

\* A call that changes no list, for a handle that it does not make active.
LEMMA FlagLinks ==
    ASSUME LinkedInv, NEW h \in Handles, Only(hs, hs', h), IsActive(hs', h) => IsActive(hs, h),
           UNCHANGED <<timer_heap, idle_handles, async_handles, queue, pc>>
    PROVE  LinkedInv'
  <1>1. pc # "aborted" /\ IsActive(hs', h) => Linked(h)'
    BY Zenon DEF LinkedInv, Linked
  <1> QED BY Zenon, <1>1, KeepsSame, LinkStep

LEMMA InitLinks ==
    ASSUME LoopInv, LinkedInv, NEW h \in Handles, NotOpen(h), hs' = HandleInit(hs, h),
           UNCHANGED <<timer_heap, idle_handles, async_handles, queue, pc>>
    PROVE  LinkedInv'
  <1>1. ~IsActive(hs, h)
    BY Zenon DEF LoopInv, ActiveOK, NotOpen
  <1>2. hs'.flags[h] = {"ref"} /\ Only(hs, hs', h)
    BY Zenon, <1>1, InitExact DEF LoopInv, Sets
  <1>3. ~IsActive(hs', h)
    BY Zenon, <1>2 DEF IsActive
  <1> QED BY Zenon, <1>2, <1>3, FlagLinks

LEMMA RefLinks ==
    ASSUME LoopInv, LinkedInv, NEW h \in Handles, Ref(h) \/ Unref(h)
    PROVE  LinkedInv'
  <1>1. /\ hs' \in {HandleRef(hs, h), HandleUnref(hs, h)}
        /\ UNCHANGED <<timer_heap, idle_handles, async_handles, queue, pc>>
    BY Zenon DEF Ref, Unref, timerVars, asyncVars, runVars
  <1>2. Sets(hs, hs', h, hs.flags[h] \cup {"ref"}) \/ Sets(hs, hs', h, hs.flags[h] \ {"ref"})
    BY Zenon, <1>1, RefExact, UnrefExact DEF LoopInv
  <1>3. Only(hs, hs', h) /\ (IsActive(hs', h) => IsActive(hs, h))
    BY Zenon, <1>2 DEF Sets, IsActive
  <1> QED BY Zenon, <1>1, <1>3, FlagLinks

LEMMA IdleStartLinks ==
    ASSUME LoopInv, LinkedInv, NEW h \in Idles, IdleStart(h)
    PROVE  LinkedInv'
  <1>1. h \in Handles
    BY Zenon DEF Handles
  <1>2. /\ ~IsActive(hs, h) /\ hs' = HandleStart(hs, h)
        /\ idle_handles' = <<h>> \o idle_handles
        /\ UNCHANGED <<timer_heap, async_handles, queue, pc>>
    BY Zenon DEF IdleStart, timerVars, asyncVars, runVars
  <1>3. Only(hs, hs', h)
    BY Zenon, <1>1, <1>2, StartExact DEF LoopInv, Sets
  <1>4. \A r : In(idle_handles', r) <=> In(idle_handles, r) \/ r = h
    BY Zenon, <1>2, ConsIn DEF LoopInv, IdlesOK, Holds
  <1>5. Keeps(idle_handles, idle_handles', h) /\ Linked(h)'
    BY Zenon, <1>4 DEF Keeps, Linked
  <1> QED BY Zenon, <1>1, <1>2, <1>3, <1>5, KeepsSame, LinkStep

LEMMA AsyncInitLinks ==
    ASSUME LoopInv, LinkedInv, NEW h \in Asyncs, AsyncInit(h)
    PROVE  LinkedInv' /\ IsActive(hs', h) /\ Only(hs, hs', h)
  <1>1. h \in Handles
    BY Zenon DEF Handles
  <1>2. /\ h \notin handle_queue /\ hs' = HandleStart(HandleInit(hs, h), h)
        /\ async_handles' = Append(async_handles, h)
        /\ UNCHANGED <<timer_heap, idle_handles, queue, pc>>
    BY Zenon DEF AsyncInit, NotOpen, timerVars, runVars
  <1>3. ~IsActive(hs, h)
    BY Zenon, <1>1, <1>2 DEF LoopInv, ActiveOK
  <1> DEFINE x == HandleInit(hs, h)
  <1>4. Sets(hs, x, h, {"ref"}) /\ hs' = HandleStart(x, h)
    BY Zenon, <1>1, <1>2, <1>3, InitExact DEF LoopInv
  <1> HIDE DEF x
  <1>5. Sets(x, hs', h, x.flags[h] \cup {"active"})
    BY Zenon, <1>1, <1>4, StartExact DEF Sets
  <1>6. Only(hs, hs', h) /\ IsActive(hs', h)
    BY Zenon, <1>4, <1>5 DEF Sets, Only, IsActive
  <1>7. \A r : In(async_handles', r) <=> In(async_handles, r) \/ r = h
    BY Zenon, <1>2, AppendIn DEF LoopInv, AsyncsOK, Holds
  <1>8. Keeps(async_handles, async_handles', h) /\ Linked(h)'
    BY Zenon, <1>7 DEF Keeps, Linked
  <1> QED BY Zenon, <1>1, <1>2, <1>6, <1>8, KeepsSame, LinkStep

\* The list that is being walked may lose h.
LEMMA WalkedKeeps ==
    ASSUME LoopInv, NEW h, pc \in {"idle", "async"}
    PROVE  Keeps(queue, Remove(queue, h), h)
  <1>1. \E S : queue \in Seq(S) /\ Once(queue)
    BY Zenon DEF LoopInv, IdlesOK, AsyncsOK, Holds
  <1> QED BY Zenon, <1>1, KeepsRemoved

\* uv_idle_stop, uv_close of idle and async handles, and uv_loop_close.
LEMMA UnlinkLinks ==
    ASSUME LoopInv, LinkedInv, NEW h \in Handles, Only(hs, hs', h), ~IsActive(hs', h),
           timer_heap' = timer_heap,
           idle_handles' \in {idle_handles, Remove(idle_handles, h)},
           async_handles' \in {async_handles, Remove(async_handles, h)},
           queue' \in {queue, Remove(queue, h)},
           pc' = pc \/ (pc = "user" /\ pc' = "closed")
    PROVE  LinkedInv'
  <1>1. /\ Keeps(idle_handles, idle_handles', h)
        /\ Keeps(async_handles, async_handles', h)
        /\ pc \in {"idle", "async"} => Keeps(queue, queue', h)
    BY Zenon, KeepsSame, KeepsRemoved, WalkedKeeps DEF LoopInv, IdlesOK, AsyncsOK, Holds
  <1>2. CASE pc' = pc
    BY Zenon, <1>1, <1>2, KeepsSame, LinkStep
  <1>3. CASE pc = "user" /\ pc' = "closed"
    <2> SUFFICES ASSUME NEW g \in Handles, IsActive(hs', g) PROVE Linked(g)'
      BY Zenon DEF LinkedInv
    <2>1. g # h /\ Linked(g)
      BY Zenon, <1>3 DEF LinkedInv, Only, IsActive
    <2> QED BY Zenon, <1>1, <1>3, <2>1 DEF Linked, Keeps
  <1> QED BY Zenon, <1>2, <1>3

LEMMA StopLinks ==
    ASSUME LoopInv, LinkedInv, NEW h \in Handles, IdleStop(h) \/ CloseIdle(h) \/ CloseAsync(h)
    PROVE  LinkedInv'
  <1>1. /\ timer_heap' = timer_heap /\ pc' = pc /\ queue' = Remove(queue, h)
        /\ idle_handles' \in {idle_handles, Remove(idle_handles, h)}
        /\ async_handles' \in {async_handles, Remove(async_handles, h)}
        /\ hs' = HandleStop(hs, h) \/ hs' = HandleStop(SetFlag(hs, h, "closing"), h)
    BY Zenon DEF IdleStop, CloseIdle, CloseAsync, timerVars, asyncVars
  <1>2. Only(hs, hs', h) /\ ~IsActive(hs', h)
    <2>1. CASE hs' = HandleStop(hs, h)
      BY Zenon, <2>1, StopExact DEF LoopInv, Sets, IsActive
    <2>2. CASE hs' = HandleStop(SetFlag(hs, h, "closing"), h)
      <3> DEFINE x == SetFlag(hs, h, "closing")
      <3>1. Sets(hs, x, h, hs.flags[h] \cup {"closing"}) /\ hs' = HandleStop(x, h)
        BY Zenon, <2>2, SetFlagExact DEF LoopInv
      <3> HIDE DEF x
      <3>2. Sets(x, hs', h, x.flags[h] \ {"active"})
        BY Zenon, <3>1, StopExact DEF Sets
      <3> QED BY Zenon, <3>1, <3>2 DEF Sets, Only, IsActive
    <2> QED BY Zenon, <1>1, <2>1, <2>2
  <1> QED BY Zenon, <1>1, <1>2, UnlinkLinks

LEMMA LoopCloseLinks ==
    ASSUME LoopInv, LinkedInv, LoopClose
    PROVE  LinkedInv' /\ Only(hs, hs', WqAsync)
  <1>1. WqAsync \in Handles
    BY Zenon, HandlesAssumption DEF Handles
  <1>2. /\ pc = "user" /\ pc' \in {"closed", "user"} /\ hs' = HandleStop(hs, WqAsync)
        /\ async_handles' = Remove(async_handles, WqAsync)
        /\ UNCHANGED <<timer_heap, idle_handles, queue>>
    BY Zenon DEF LoopClose, timerVars
  <1>3. Only(hs, hs', WqAsync) /\ ~IsActive(hs', WqAsync)
    BY Zenon, <1>1, <1>2, StopExact DEF LoopInv, Sets, IsActive
  <1> QED BY Zenon, <1>1, <1>2, <1>3, UnlinkLinks

-----------------------------------------------------------------------------
(***************************************************************************)
(* The phases of uv_run.                                                   *)
(***************************************************************************)

\* A walk takes over a list, and moves one handle back.
LEMMA WalkLinks ==
    ASSUME LoopInv, LinkedInv, PendingDone \/ RunIdle \/ AsyncIo \/ AsyncNext
    PROVE  LinkedInv'
  <1>1. hs' = hs /\ timer_heap' = timer_heap /\ pc # "aborted" /\ pc' # "aborted"
    BY Zenon DEF PendingDone, RunIdle, AsyncIo, AsyncNext, At, handleVars, timerVars
  <1>2. ASSUME NEW q, q # <<>>, NEW S, q \in Seq(S), Once(q), NEW p \in Seq(S), NEW g,
               In(q, g)
        PROVE  In(Tail(q), g) \/ In(Append(p, Head(q)), g)
    <2>1. Head(q) \in S /\ (In(Tail(q), g) <=> In(q, g) /\ g # Head(q))
      BY Zenon, <1>2, TailIn
    <2>2. In(Append(p, Head(q)), Head(q))
      BY Zenon, <1>2, <2>1, AppendIn
    <2> QED BY Zenon, <1>2, <2>1, <2>2
  <1>3. ASSUME NEW q, NEW S, NEW p \in Seq(S), q \in Seq(S), q # <<>>, NEW g, In(p, g)
        PROVE  In(Append(p, Head(q)), g)
    <2>1. Head(q) \in S
      BY <1>3
    <2> QED BY Zenon, <1>3, <2>1, AppendIn
  <1> SUFFICES ASSUME NEW g \in Handles, Linked(g) PROVE Linked(g)'
    BY Zenon, <1>1, MoveStep
  <1>4. CASE PendingDone
    <2>1. /\ pc = "pending" /\ pc' = "idle" /\ queue' = idle_handles
          /\ async_handles' = async_handles
      BY Zenon, <1>4 DEF PendingDone, At, asyncVars
    <2> QED BY Zenon, <1>1, <2>1 DEF Linked
  <1>5. CASE AsyncIo
    <2>1. /\ pc = "poll" /\ pc' = "async" /\ queue' = async_handles
          /\ idle_handles' = idle_handles
      BY Zenon, <1>5 DEF AsyncIo, At
    <2> QED BY Zenon, <1>1, <2>1 DEF Linked
  <1>6. CASE RunIdle
    <2>1. /\ pc = "idle" /\ pc' = pc /\ queue # <<>> /\ queue' = Tail(queue)
          /\ idle_handles' = Append(idle_handles, Head(queue)) /\ async_handles' = async_handles
      BY Zenon, <1>6 DEF RunIdle, At, asyncVars
    <2>2. queue \in Seq(Idles) /\ Once(queue) /\ idle_handles \in Seq(Idles)
      BY Zenon, <2>1 DEF LoopInv, IdlesOK, Holds
    <2>3. /\ In(queue, g) => In(queue', g) \/ In(idle_handles', g)
          /\ In(idle_handles, g) => In(idle_handles', g)
      BY Zenon, <1>2, <1>3, <2>1, <2>2
    <2> QED BY Zenon, <1>1, <2>1, <2>3 DEF Linked
  <1>7. CASE AsyncNext
    <2>1. /\ pc = "async" /\ pc' = pc /\ queue # <<>> /\ queue' = Tail(queue)
          /\ async_handles' = Append(async_handles, Head(queue)) /\ idle_handles' = idle_handles
      BY Zenon, <1>7 DEF AsyncNext, At
    <2>2. queue \in Seq(Asyncs) /\ Once(queue) /\ async_handles \in Seq(Asyncs)
      BY Zenon, <2>1 DEF LoopInv, AsyncsOK, Holds
    <2>3. /\ In(queue, g) => In(queue', g) \/ In(async_handles', g)
          /\ In(async_handles, g) => In(async_handles', g)
      BY Zenon, <1>2, <1>3, <2>1, <2>2
    <2> QED BY Zenon, <1>1, <2>1, <2>3 DEF Linked
  <1> QED BY Zenon, <1>4, <1>5, <1>6, <1>7

LEMMA FinishCloseLinks ==
    ASSUME LoopInv, LinkedInv, FinishClose
    PROVE  LinkedInv'
  <1>0. PICK h : h = Head(queue)
    OBVIOUS
  <1> DEFINE x == SetFlag(hs, h, "closed")
  <1>1. /\ pc = "closing" /\ pc' = pc /\ queue # <<>> /\ hs' = HandleUnref(x, h)
        /\ UNCHANGED <<timer_heap, idle_handles, async_handles>>
    BY Zenon, <1>0 DEF FinishClose, At, timerVars, asyncVars
  <1>2. h \in Handles
    BY Zenon, <1>0, <1>1, TailIn DEF LoopInv, ClosingOK, Waits
  <1>3. Sets(hs, x, h, hs.flags[h] \cup {"closed"})
    BY Zenon, <1>2, SetFlagExact DEF LoopInv
  <1> HIDE DEF x
  <1>4. Sets(x, hs', h, x.flags[h] \ {"ref"})
    BY Zenon, <1>1, <1>2, <1>3, UnrefExact DEF Sets
  <1>5. Only(hs, hs', h) /\ (IsActive(hs', h) => IsActive(hs, h))
    BY Zenon, <1>3, <1>4 DEF Sets, Only, IsActive
  <1>6. pc # "aborted" /\ IsActive(hs', h) => Linked(h)'
    BY Zenon, <1>1, <1>2, <1>5 DEF LinkedInv, Linked
  <1> QED BY Zenon, <1>1, <1>2, <1>5, <1>6, KeepsSame, LinkStep

\* Steps that change no flags and none of the lists of active handles.
LEMMA QuietLinks ==
    ASSUME LinkedInv,
           \/ QuietNext \/ RequestDone \/ PollNothing \/ PollTimesOut \/ PollInterrupted
           \/ AsyncDone \/ UNCHANGED vars
    PROVE  LinkedInv'
  <1> USE DEF handleVars, timerVars, asyncVars, runVars, envVars
  <1>1. UNCHANGED <<hs, timer_heap, idle_handles, async_handles>>
    BY Zenon DEF QuietNext, TimerSetRepeat, QueueWork, FeedRequest, Stop, UpdateTime,
           CallbackReturns, RunNothing, RunBegin, TimersDone, RequestDone, WorkDone, IdleDone,
           CloseDone, OnceDone, Tick, ThreadStep, SendWrite, Send, WorkerDone, PollNothing,
           PollTimesOut, PollInterrupted, AsyncDone, vars
  <1>2. /\ pc = "aborted" => pc' = "aborted"
        /\ pc \in {"idle", "async"} => \/ queue = <<>>
                                       \/ UNCHANGED <<pc, queue>>
                                       \/ pc' = "aborted"
    <2>1. CASE \/ \E t \in Timers : TimerSetRepeat(t)
               \/ \E r \in Reqs : QueueWork(r) \/ FeedRequest(r)
               \/ Stop \/ UpdateTime \/ CallbackReturns \/ RunNothing \/ RequestDone
               \/ WorkDone \/ Tick
               \/ \E s \in Threads : \/ \E h \in Asyncs : Send(s, h)
                                     \/ \E r \in Reqs : WorkerDone(s, r)
               \/ UNCHANGED vars
      BY Zenon, <2>1 DEF TimerSetRepeat, QueueWork, FeedRequest, Stop, UpdateTime,
         CallbackReturns, RunNothing, RequestDone, WorkDone, Tick, Send, WorkerDone, vars
    <2>2. CASE \E s \in Threads : SendWrite(s)
      BY Zenon, <2>2 DEF SendWrite
    <2>3. CASE RunBegin \/ TimersDone \/ IdleDone \/ CloseDone \/ OnceDone
      BY <2>3 DEF RunBegin, TimersDone, IdleDone, CloseDone, OnceDone, At
    <2>4. CASE PollNothing \/ PollTimesOut \/ PollInterrupted \/ AsyncDone
      BY <2>4 DEF PollNothing, PollTimesOut, PollInterrupted, AsyncDone, At
    <2> QED BY Zenon, <2>1, <2>2, <2>3, <2>4 DEF QuietNext, ThreadStep
  <1>3. pc' # "aborted" => \A g \in Handles : Linked(g) => Linked(g)'
    BY Zenon, <1>1, <1>2, EmptyIn DEF Linked
  <1> QED BY Zenon, <1>1, <1>2, <1>3, MoveStep

LEMMA LinkedInvInit == Init => LinkedInv
  <1> SUFFICES ASSUME Init PROVE LinkedInv
    OBVIOUS
  <1>1. hs.flags = [h \in Handles |-> IF h = WqAsync THEN {"active", "internal"} ELSE {}]
    BY DEF Init
  <1>2. \A h \in Handles : IsActive(hs, h) => h = WqAsync
    BY Zenon, <1>1 DEF IsActive
  <1>3. async_handles = <<WqAsync>>
    BY Zenon DEF Init
  <1>4. In(<<WqAsync>>, WqAsync)
    BY DEF In
  <1> QED BY Zenon, <1>2, <1>3, <1>4 DEF LinkedInv, Linked

LEMMA LinkedInvNext == LoopInv /\ LinkedInv /\ [Next]_vars => LinkedInv'
  <1> SUFFICES ASSUME LoopInv, LinkedInv, [Next]_vars PROVE LinkedInv'
    OBVIOUS
  <1>1. ASSUME NEW t \in Timers,
               \/ TimerInit(t) \/ TimerDeinit(t) \/ TimerStart(t) \/ TimerStop(t)
               \/ TimerAgain(t) \/ CloseTimer(t)
        PROVE  LinkedInv'
    <2>0. t \in Handles
      BY Zenon DEF Handles
    <2>1. CASE TimerInit(t)
      <3>1. /\ NotOpen(t) /\ hs' = HandleInit(hs, t)
            /\ UNCHANGED <<timer_heap, idle_handles, async_handles, queue, pc>>
        BY Zenon, <2>1 DEF TimerInit, asyncVars, runVars
      <3> QED BY Zenon, <2>0, <3>1, InitLinks
    <2>2. CASE TimerDeinit(t)
      <3>1. UNCHANGED <<hs, timer_heap, idle_handles, async_handles, queue, pc>>
        BY Zenon, <2>2 DEF TimerDeinit, timerVars, asyncVars, runVars
      <3> QED BY Zenon, <3>1, MoveStep DEF Linked
    <2> QED BY Zenon, <1>1, <2>1, <2>2, TimerCallLinks, CloseTimerLinks
  <1>2. ASSUME NEW h \in Idles, IdleInit(h) \/ IdleStart(h) \/ IdleStop(h) \/ CloseIdle(h)
        PROVE  LinkedInv'
    <2>0. h \in Handles
      BY Zenon DEF Handles
    <2>1. CASE IdleInit(h)
      <3>1. /\ NotOpen(h) /\ hs' = HandleInit(hs, h)
            /\ UNCHANGED <<timer_heap, idle_handles, async_handles, queue, pc>>
        BY Zenon, <2>1 DEF IdleInit, timerVars, asyncVars, runVars
      <3> QED BY Zenon, <2>0, <3>1, InitLinks
    <2> QED BY Zenon, <1>2, <2>0, <2>1, IdleStartLinks, StopLinks
  <1>3. ASSUME NEW h \in Asyncs, AsyncInit(h) \/ CloseAsync(h)
        PROVE  LinkedInv'
    <2>0. h \in Handles
      BY Zenon DEF Handles
    <2> QED BY Zenon, <1>3, <2>0, AsyncInitLinks, StopLinks
  <1>4. ASSUME NEW h \in Handles \ {WqAsync}, Ref(h) \/ Unref(h)
        PROVE  LinkedInv'
    BY Zenon, <1>4, RefLinks
  <1>5. CASE UserCall /\ ~QuietNext
    BY Zenon, <1>1, <1>2, <1>3, <1>4, <1>5, LoopCloseLinks DEF UserCall, QuietNext
  <1>6. CASE \/ QuietNext \/ RequestDone \/ PollNothing \/ PollTimesOut \/ PollInterrupted
             \/ AsyncDone \/ UNCHANGED vars
    BY Zenon, <1>6, QuietLinks
  <1>7. CASE \/ FireTimer \/ PendingDone \/ RunIdle \/ AsyncIo \/ AsyncNext \/ FinishClose
    BY Zenon, <1>7, FireTimerLinks, WalkLinks, FinishCloseLinks
  <1> QED BY Zenon, <1>5, <1>6, <1>7 DEF Next, LoopStep, QuietNext

LEMMA LinkedInvariance == Spec => []LinkedInv
  BY LinkedInvInit, LinkedInvNext, LoopInvariance, PTL DEF Spec

-----------------------------------------------------------------------------
(***************************************************************************)
(* The times of the timers.  A time that does not fit is clamped, and the  *)
(* clock never comes to that value: until then a timer's timeout is not    *)
(* before the time it was wanted for.                                      *)
(***************************************************************************)
Due(when, want) == want <= when \/ when = UintMax

TimesOK(ts) ==
    /\ ts.timeout \in [Timers -> 0..UintMax] /\ ts.repeat \in [Timers -> 0..UintMax]
    /\ ts.wanted \in [Timers -> Nat]
    /\ \A t \in Timers : Due(ts.timeout[t], ts.wanted[t])

TimesInv ==
    /\ TimesOK(TimerState) /\ timer_cb \subseteq Timers
    /\ clock \in 0..MaxClock /\ time \in 0..clock

\* uv_timer_start adds modulo 2^64 and notices the overflow.
LEMMA Clamped ==
    ASSUME TimesInv, NEW d \in 0..UintMax
    PROVE  ClampedTimeout(d) \in 0..UintMax /\ Due(ClampedTimeout(d), time + d)
  <1> DEFINE M == UintMax + 1
             sum == (time + d) % M
  <1>1. time \in Nat /\ time <= UintMax /\ UintMax \in Nat /\ d \in Nat /\ d <= UintMax
    BY BoundsAssumption DEF TimesInv
  <1>2. CASE time + d <= UintMax
    <2>1. sum = time + d
      BY <1>1, <1>2
    <2> QED BY <1>1, <1>2, <2>1 DEF ClampedTimeout, Due
  <1>3. CASE ~(time + d <= UintMax)
    <2>1. sum = time + d - M
      BY <1>1, <1>3
    <2>2. sum < d
      BY <1>1, <2>1
    <2> QED BY <1>1, <2>2 DEF ClampedTimeout, Due
  <1> QED BY Zenon, <1>2, <1>3

LEMMA StopTimerTimes ==
    ASSUME NEW ts, TimersOK(ts), TimesOK(ts), NEW t \in Timers
    PROVE  TimesOK(StopTimer(ts, t)) /\ StopTimer(ts, t).repeat = ts.repeat
  <1>1. CASE ~IsActive(ts.hs, t)
    BY Zenon, <1>1 DEF StopTimer
  <1>2. CASE IsActive(ts.hs, t)
    <2>1. StopTimer(ts, t) = [hs |-> HandleStop(ts.hs, t), heap |-> QueueRemove(ts.heap, t),
                  timeout |-> ts.timeout, repeat |-> ts.repeat, wanted |-> ts.wanted]
      BY Zenon, <1>2 DEF StopTimer, TimersOK
    <2>2. /\ StopTimer(ts, t).timeout = ts.timeout /\ StopTimer(ts, t).repeat = ts.repeat
          /\ StopTimer(ts, t).wanted = ts.wanted
      BY <2>1
    <2> QED BY Zenon, <2>2 DEF TimesOK
  <1> QED BY Zenon, <1>1, <1>2

LEMMA StartTimerTimes ==
    ASSUME TimesInv, NEW ts, TimersOK(ts), TimesOK(ts), NEW t \in Timers,
           NEW d \in 0..UintMax, NEW rep \in 0..UintMax
    PROVE  TimesOK(StartTimer(ts, t, d, rep))
  <1> DEFINE z == StopTimer(ts, t)
             y == StartTimer(ts, t, d, rep)
             c == ClampedTimeout(d)
             w == time + d
  <1>1. TimesOK(z)
    BY Zenon, StopTimerTimes
  <1>2. c \in 0..UintMax /\ Due(c, w)
    BY Zenon, Clamped
  <1>3. w \in Nat
    BY BoundsAssumption DEF TimesInv
  <1>4. /\ y.timeout = [z.timeout EXCEPT ![t] = c]
        /\ y.repeat = [z.repeat EXCEPT ![t] = rep]
        /\ y.wanted = [z.wanted EXCEPT ![t] = w]
    BY Zenon DEF StartTimer
  <1> HIDE DEF y, z, c, w
  <1>5. /\ y.timeout \in [Timers -> 0..UintMax] /\ y.repeat \in [Timers -> 0..UintMax]
        /\ y.wanted \in [Timers -> Nat]
    <2>1. /\ z.timeout \in [Timers -> 0..UintMax] /\ z.repeat \in [Timers -> 0..UintMax]
          /\ z.wanted \in [Timers -> Nat]
      BY Zenon, <1>1 DEF TimesOK
    <2> QED BY SMT, <1>2, <1>3, <1>4, <2>1
  <1>6. ASSUME NEW u \in Timers PROVE Due(y.timeout[u], y.wanted[u])
    <2>1. CASE u = t
      <3>1. y.timeout[u] = c /\ y.wanted[u] = w
        BY Zenon, <1>1, <1>4, <2>1 DEF TimesOK
      <3> QED BY Zenon, <1>2, <3>1
    <2>2. CASE u # t
      <3>1. y.timeout[u] = z.timeout[u] /\ y.wanted[u] = z.wanted[u]
        BY Zenon, <1>1, <1>4, <2>2 DEF TimesOK
      <3> QED BY Zenon, <1>1, <3>1 DEF TimesOK
    <2> QED BY Zenon, <2>1, <2>2
  <1> QED BY Zenon, <1>5, <1>6 DEF TimesOK, y

LEMMA AgainTimerTimes ==
    ASSUME TimesInv, NEW ts, TimersOK(ts), TimesOK(ts), NEW t \in Timers
    PROVE  TimesOK(AgainTimer(ts, t))
  <1>1. CASE ts.repeat[t] = 0
    BY Zenon, <1>1 DEF AgainTimer
  <1>2. CASE ts.repeat[t] # 0
    <2> DEFINE z == StopTimer(ts, t)
    <2>1. AgainTimer(ts, t) = StartTimer(z, t, ts.repeat[t], ts.repeat[t])
      BY Zenon, <1>2 DEF AgainTimer
    <2>2. TimersOK(z) /\ TimesOK(z)
      BY Zenon, StopTimerOK, StopTimerTimes
    <2> HIDE DEF z
    <2>3. ts.repeat[t] \in 0..UintMax
      BY Zenon DEF TimesOK
    <2> QED BY Zenon, <2>1, <2>2, <2>3, StartTimerTimes
  <1> QED BY Zenon, <1>1, <1>2

\* A step that sets the timer state to one with sound times.
LEMMA SetTimersTimes ==
    ASSUME TimesInv, NEW ts, SetTimers(ts), TimesOK(ts), timer_cb' \subseteq Timers,
           UNCHANGED <<clock, time>>
    PROVE  TimesInv'
  <1>1. timeout' = ts.timeout /\ repeat' = ts.repeat /\ wanted' = ts.wanted
    BY Zenon DEF SetTimers
  <1>2. TimesOK(TimerState)'
    BY Zenon, <1>1 DEF TimesOK, TimerState
  <1> QED BY Zenon, <1>2 DEF TimesInv

\* A step on no timer.
LEMMA SameTimersTimes ==
    ASSUME TimesInv, UNCHANGED <<timeout, repeat, wanted, clock>>, timer_cb' \subseteq Timers,
           time' \in {time, clock}
    PROVE  TimesInv'
  <1>1. TimesOK(TimerState)'
    <2>1. /\ TimerState'.timeout = timeout /\ TimerState'.repeat = repeat
          /\ TimerState'.wanted = wanted
      BY Zenon DEF TimerState
    <2>2. /\ TimerState.timeout = timeout /\ TimerState.repeat = repeat
          /\ TimerState.wanted = wanted
      BY Zenon DEF TimerState
    <2> QED BY Zenon, <2>1, <2>2 DEF TimesInv, TimesOK
  <1>2. clock \in Nat
    BY BoundsAssumption DEF TimesInv
  <1>3. clock \in 0..clock
    BY <1>2
  <1> QED BY Zenon, <1>1, <1>3 DEF TimesInv

\* uv_timer_init and uv_timer_set_repeat set only the repeat value.
LEMMA RepeatTimes ==
    ASSUME TimesInv, NEW t \in Timers, NEW rep \in 0..UintMax,
           repeat' = [repeat EXCEPT ![t] = rep], timer_cb' \subseteq Timers,
           UNCHANGED <<timeout, wanted, clock, time>>
    PROVE  TimesInv'
  <1>1. /\ TimerState.timeout = timeout /\ TimerState.repeat = repeat
        /\ TimerState.wanted = wanted
    BY Zenon DEF TimerState
  <1>2. /\ TimerState'.timeout = timeout /\ TimerState'.wanted = wanted
        /\ TimerState'.repeat = [repeat EXCEPT ![t] = rep]
    BY Zenon DEF TimerState
  <1>3. [repeat EXCEPT ![t] = rep] \in [Timers -> 0..UintMax]
    BY Zenon, <1>1 DEF TimesInv, TimesOK
  <1>4. TimesOK(TimerState)'
    BY Zenon, <1>1, <1>2, <1>3 DEF TimesInv, TimesOK
  <1> QED BY Zenon, <1>4 DEF TimesInv

LEMMA TimesInvInit == Init => TimesInv
  <1> SUFFICES ASSUME Init PROVE TimesInv
    OBVIOUS
  <1>1. /\ timeout = [t \in Timers |-> 0] /\ repeat = [t \in Timers |-> 0]
        /\ wanted = [t \in Timers |-> 0] /\ timer_cb = {} /\ clock = 0 /\ time = 0
    BY Zenon DEF Init
  <1>2. /\ TimerState.timeout = timeout /\ TimerState.repeat = repeat
        /\ TimerState.wanted = wanted
    BY Zenon DEF TimerState
  <1>3. 0 \in 0..UintMax /\ 0 \in Nat /\ 0 \in 0..MaxClock /\ 0 \in 0..0 /\ 0 <= 0
    BY BoundsAssumption
  <1>4. TimesOK(TimerState)
    BY Zenon, <1>1, <1>2, <1>3 DEF TimesOK, Due
  <1> QED BY Zenon, <1>1, <1>3, <1>4 DEF TimesInv

LEMMA TimesInvNext == LoopInv /\ TimesInv /\ [Next]_vars => TimesInv'
  <1> SUFFICES ASSUME LoopInv, TimesInv, [Next]_vars PROVE TimesInv'
    OBVIOUS
  <1>0. TimersOK(TimerState) /\ TimesOK(TimerState) /\ timer_cb \subseteq Timers
    BY Zenon, TimerStateOK DEF TimesInv
  <1>1. ASSUME NEW t \in Timers,
               \/ TimerInit(t) \/ TimerStart(t) \/ TimerStop(t) \/ TimerAgain(t)
               \/ TimerSetRepeat(t) \/ CloseTimer(t)
        PROVE  TimesInv'
    <2>0. UNCHANGED <<clock, time>> /\ timer_cb' \subseteq Timers
      BY Zenon, <1>0, <1>1 DEF TimerInit, TimerStart, TimerStop, TimerAgain, TimerSetRepeat,
         CloseTimer, envVars
    <2>1. CASE TimerInit(t) \/ TimerSetRepeat(t)
      <3>1. 0 \in 0..UintMax /\ Repeats \subseteq 0..UintMax
        BY BoundsAssumption
      <3>2. \E rep \in 0..UintMax : repeat' = [repeat EXCEPT ![t] = rep]
        BY Zenon, <2>1, <3>1 DEF TimerInit, TimerSetRepeat
      <3>3. UNCHANGED <<timeout, wanted>>
        BY Zenon, <2>1 DEF TimerInit, TimerSetRepeat
      <3> QED BY Zenon, <2>0, <3>2, <3>3, RepeatTimes
    <2>2. CASE TimerStart(t)
      <3>1. PICK d \in Timeouts, rep \in Repeats : SetTimers(StartTimer(TimerState, t, d, rep))
        BY Zenon, <2>2 DEF TimerStart
      <3>2. d \in 0..UintMax /\ rep \in 0..UintMax
        BY Zenon, BoundsAssumption
      <3>3. TimesOK(StartTimer(TimerState, t, d, rep))
        BY Zenon, <1>0, <3>2, StartTimerTimes
      <3> QED BY Zenon, <2>0, <3>1, <3>3, SetTimersTimes
    <2>3. CASE TimerStop(t)
      <3>1. SetTimers(StopTimer(TimerState, t))
        BY Zenon, <2>3 DEF TimerStop
      <3> QED BY Zenon, <1>0, <2>0, <3>1, StopTimerTimes, SetTimersTimes
    <2>4. CASE TimerAgain(t)
      <3>1. SetTimers(AgainTimer(TimerState, t))
        BY Zenon, <2>4 DEF TimerAgain
      <3> QED BY Zenon, <1>0, <2>0, <3>1, AgainTimerTimes, SetTimersTimes
    <2>5. CASE CloseTimer(t)
      <3>1. SetTimers(StopTimer(ClosingTimer(t), t))
        BY Zenon, <2>5 DEF CloseTimer, ClosingTimer
      <3>2. /\ ClosingTimer(t).timeout = timeout /\ ClosingTimer(t).repeat = repeat
            /\ ClosingTimer(t).wanted = wanted
        BY DEF ClosingTimer, TimerState
      <3>3. /\ TimerState.timeout = timeout /\ TimerState.repeat = repeat
            /\ TimerState.wanted = wanted
        BY Zenon DEF TimerState
      <3>4. TimersOK(ClosingTimer(t)) /\ TimesOK(ClosingTimer(t))
        BY Zenon, <1>0, <3>2, <3>3, ClosingTimerOK DEF TimesOK
      <3> QED BY Zenon, <2>0, <3>1, <3>4, StopTimerTimes, SetTimersTimes
    <2> QED BY Zenon, <1>1, <2>1, <2>2, <2>3, <2>4, <2>5
  <1>2. CASE FireTimer
    <2> DEFINE t == Head(timer_heap)
               z == StopTimer(TimerState, t)
    <2>1. t \in Timers
      BY Zenon, <1>2, TailIn DEF FireTimer, TimerDue, LoopInv, Holds
    <2>2. SetTimers(AgainTimer(z, t)) /\ UNCHANGED <<timer_cb, clock, time>>
      BY Zenon, <1>2 DEF FireTimer, envVars
    <2> HIDE DEF t
    <2>3. TimersOK(z) /\ TimesOK(z)
      BY Zenon, <1>0, <2>1, StopTimerOK, StopTimerTimes
    <2> HIDE DEF z
    <2>4. TimesOK(AgainTimer(z, t))
      BY Zenon, <2>1, <2>3, AgainTimerTimes
    <2> QED BY Zenon, <1>0, <2>2, <2>4, SetTimersTimes
  <1>3. CASE Tick
    <2>1. UNCHANGED <<timeout, repeat, wanted, timer_cb, time>> /\ TimerState' = TimerState
      BY Zenon, <1>3 DEF Tick, timerVars, handleVars, TimerState
    <2>2. clock' \in 0..MaxClock /\ time \in 0..clock'
      BY <1>3, BoundsAssumption DEF Tick, TimesInv
    <2> QED BY Zenon, <2>1, <2>2 DEF TimesInv
  <1>4. ASSUME UNCHANGED timerVars, clock' = clock, time' \in {time, clock} PROVE TimesInv'
    BY Zenon, <1>0, <1>4, SameTimersTimes DEF timerVars
  <1> USE DEF handleVars, runVars, envVars
  <1>5. ASSUME \/ \E t \in Timers : TimerDeinit(t)
               \/ \E h \in Idles : IdleInit(h) \/ IdleStart(h) \/ IdleStop(h) \/ CloseIdle(h)
               \/ \E h \in Asyncs : AsyncInit(h) \/ CloseAsync(h)
               \/ \E h \in Handles \ {WqAsync} : Ref(h) \/ Unref(h)
               \/ \E r \in Reqs : QueueWork(r) \/ FeedRequest(r)
               \/ Stop \/ UpdateTime \/ LoopClose
        PROVE  TimesInv'
    BY Zenon, <1>4, <1>5 DEF TimerDeinit, IdleInit, IdleStart, IdleStop, CloseIdle, AsyncInit,
       CloseAsync, Ref, Unref, Stop, UpdateTime, LoopClose, QueueWork, FeedRequest
  <1>6. ASSUME \/ CallbackReturns \/ TimersDone \/ RequestDone \/ PendingDone \/ WorkDone
               \/ RunIdle \/ IdleDone \/ PollNothing
               \/ PollTimesOut \/ AsyncIo \/ AsyncNext \/ AsyncDone \/ FinishClose
        PROVE  TimesInv'
    BY Zenon, <1>4, <1>6 DEF CallbackReturns, TimersDone, RequestDone, PendingDone, WorkDone,
       RunIdle, IdleDone, PollNothing, PollTimesOut, AsyncIo, AsyncNext, AsyncDone,
       FinishClose
  <1>7. ASSUME \/ CloseDone \/ OnceDone \/ RunNothing \/ RunBegin \/ PollInterrupted
               \/ ThreadStep
               \/ UNCHANGED vars
        PROVE  TimesInv'
    BY Zenon, <1>4, <1>7 DEF CloseDone, OnceDone, RunAgain, RunNothing, RunBegin,
       PollInterrupted, ThreadStep, SendWrite, Send, WorkerDone, vars
  <1> QED BY Zenon, <1>1, <1>2, <1>3, <1>5, <1>6, <1>7 DEF Next, UserCall, LoopStep

LEMMA TimesInvariance == Spec => []TimesInv
  BY TimesInvInit, TimesInvNext, LoopInvariance, PTL DEF Spec

\* No timer fires before the time it was started for, although the sum of the
\* time and the timeout may not fit into 64 bits (timer.c:104-106, 188-205).
THEOREM TimersAreNotEarly == Spec => TimersNeverEarly
  <1>1. LoopInv /\ ReqInv /\ TimesInv /\ [Next]_vars =>
          [cb' \in Timers \ {cb} /\ pc # "closing" => wanted[cb'] <= clock]_vars
    <2> SUFFICES ASSUME LoopInv, ReqInv, TimesInv, [Next]_vars, cb' \in Timers, cb' # cb,
                        pc # "closing"
                 PROVE  wanted[cb'] <= clock
      BY Zenon
    <2>0. cb' # NoHandle
      BY Zenon, HandlesAssumption DEF Handles
    <2>1. FireTimer \/ RunIdle \/ AsyncNext
      <3>1. ~FinishClose
        BY Zenon DEF FinishClose, At
      <3>2. ~RequestDone
        BY Zenon, RequestDoneStep, HandlesAssumption DEF Handles
      <3> QED BY Zenon, <2>0, <3>1, <3>2, CallbackSteps
    <2>2. ~RunIdle
      <3>1. ASSUME RunIdle PROVE cb' \in Idles
        <4>1. pc = "idle" /\ queue # <<>> /\ cb' = Head(queue)
          BY Zenon, <3>1 DEF RunIdle, At, MakeCallback
        <4> QED BY Zenon, <4>1, TailIn DEF LoopInv, IdlesOK, Holds
      <3> QED BY Zenon, <3>1, TypesAreApart DEF TypesApart
    <2>3. ~AsyncNext
      <3>1. ASSUME AsyncNext PROVE cb' \in Asyncs
        <4>1. pc = "async" /\ queue # <<>> /\ cb' = Head(queue)
          BY Zenon, <3>1 DEF AsyncNext, At, MakeCallback
        <4> QED BY Zenon, <4>1, TailIn DEF LoopInv, AsyncsOK, Holds
      <3> QED BY Zenon, <3>1, TypesAreApart DEF TypesApart
    <2>4. timeout[cb'] <= time
      BY Zenon, <2>1, <2>2, <2>3 DEF FireTimer, TimerDue, MakeCallback
    <2> DEFINE u == cb'
    <2>5. /\ timeout[u] \in 0..UintMax /\ wanted[u] \in Nat
          /\ wanted[u] <= timeout[u] \/ timeout[u] = UintMax
      <3>1. /\ TimerState.timeout = timeout /\ TimerState.wanted = wanted
        BY Zenon DEF TimerState
      <3> QED BY Zenon, <3>1 DEF TimesInv, TimesOK, Due
    <2>6. timeout[u] <= time
      BY Zenon, <2>4
    <2> HIDE DEF u
    <2>7. wanted[u] <= clock
      BY <2>5, <2>6, BoundsAssumption DEF TimesInv
    <2> QED BY Zenon, <2>7 DEF u
  <1> QED BY <1>1, LoopInvariance, ReqInvariance, TimesInvariance, PTL DEF Spec,
     TimersNeverEarly

-----------------------------------------------------------------------------
(***************************************************************************)
(* The rest of the state has its type.                                     *)
(***************************************************************************)
Polls == [timeout : Int, real : Int, base : Nat, wait : Nat]

RunInv ==
    /\ stop_flag \in BOOLEAN /\ mode \in {"default", "once", "nowait"} /\ pc \in Pcs
    /\ cb \in Handles \cup Reqs \cup {NoHandle} /\ called \in {0, 1}

WalkInv == queue \in Seq(Handles) /\ Once(queue)

CountInv == calls \in 0..MaxCalls /\ sends \in 0..MaxSends /\ signals \in 0..MaxSignals

AsyncInv ==
    /\ pending \in [Asyncs -> {0, 1}]
    /\ async_fd \in {"closed", "empty", "readable"}
    /\ sending \in [Threads -> Asyncs \cup {NoHandle}]

RestInv == RunInv /\ WalkInv /\ CountInv /\ AsyncInv /\ poll \in Polls

LEMMA RestInvInit == Init => RestInv
  <1> SUFFICES ASSUME Init PROVE RestInv
    OBVIOUS
  <1>1. RunInv
    BY Zenon DEF Init, RunInv, Pcs
  <1>2. WalkInv
    BY Zenon, EmptyIn DEF Init, WalkInv
  <1>3. CountInv
    BY BoundsAssumption DEF Init, CountInv
  <1>4. AsyncInv
    BY DEF Init, AsyncInv
  <1>5. poll \in Polls
    BY DEF Init, NoPoll, Polls
  <1> QED BY Zenon, <1>1, <1>2, <1>3, <1>4, <1>5 DEF RestInv

\* One lemma for each conjunct.  A callback is made for a handle of the list that
\* is being walked.
LEMMA HeadIsHandle ==
    ASSUME NEW q \in Seq(Handles), q # <<>>
    PROVE  Head(q) \in Handles
  OBVIOUS

LEMMA RunInvNext ==
    ASSUME LoopInv, ReqInv, RestInv, [Next]_vars
    PROVE  RunInv'
  <1> USE DEF runVars
  <1>1. UserCall => UNCHANGED <<mode, cb, called>> /\ stop_flag' \in {stop_flag, TRUE}
                    /\ pc' \in {pc, "closed"}
    BY Zenon DEF UserCall, TimerInit, TimerDeinit, TimerStart, TimerStop, TimerAgain,
       TimerSetRepeat, CloseTimer, IdleInit, IdleStart, IdleStop, CloseIdle, AsyncInit,
       CloseAsync, Ref, Unref, Stop, UpdateTime, LoopClose, QueueWork, FeedRequest
  <1>2. CASE UserCall
    BY Zenon, <1>1, <1>2 DEF RestInv, RunInv, Pcs
  <1>3. CASE FireTimer \/ RequestDone \/ RunIdle \/ AsyncNext \/ FinishClose
    <2>1. UNCHANGED <<stop_flag, mode, pc>>
      BY Zenon, <1>3 DEF FireTimer, RequestDone, RunIdle, AsyncNext, FinishClose
    <2>2. Head(timer_heap) \in Handles \/ ~FireTimer
      BY Zenon, TailIn DEF FireTimer, TimerDue, LoopInv, Holds, Handles
    <2>3. Head(queue) \in Handles \/ queue = <<>>
      BY Zenon, HeadIsHandle DEF RestInv, WalkInv
    <2>4. cb' \in Handles \cup Reqs \cup {NoHandle} /\ called' \in {0, 1}
      BY Zenon, <1>3, <2>2, <2>3, RequestDoneStep DEF FireTimer, RequestDone, RunIdle,
         AsyncNext, FinishClose, MakeCallback, RestInv, RunInv
    <2> QED BY Zenon, <2>1, <2>4 DEF RestInv, RunInv
  <1>4. CASE \/ CallbackReturns \/ TimersDone \/ PendingDone \/ WorkDone \/ IdleDone
             \/ PollNothing \/ PollTimesOut
             \/ AsyncIo \/ AsyncDone \/ PollInterrupted
    <2>1. /\ UNCHANGED <<stop_flag, mode, called>> /\ cb' \in {cb, NoHandle}
          /\ pc' \in {pc, "pending", "idle", "poll", "closing", "async"}
      BY Zenon, <1>4 DEF CallbackReturns, TimersDone, PendingDone, WorkDone, IdleDone,
         PollNothing, PollTimesOut, AsyncIo, AsyncDone, PollInterrupted, PollReturn,
         UpdateTimeout
    <2> QED BY <2>1 DEF RestInv, RunInv, Pcs
  <1>5. CASE \/ CloseDone \/ OnceDone \/ RunNothing \/ RunBegin \/ Tick
             \/ ThreadStep
             \/ UNCHANGED vars
    <2>1. /\ stop_flag' \in {stop_flag, FALSE} /\ cb' = cb
          /\ pc' \in {pc, "timers_once", "timers", "user", "aborted"} /\ called' \in {called, 0}
      BY Zenon, <1>5 DEF CloseDone, OnceDone, RunAgain, RunNothing, RunBegin, Tick,
         ThreadStep, SendWrite, Send, WorkerDone, vars
    <2>2. mode' = mode \/ mode' \in Modes
      BY Zenon, <1>5 DEF CloseDone, OnceDone, RunNothing, RunBegin, Tick, ThreadStep,
         SendWrite, Send, WorkerDone, vars
    <2>3. mode' \in {"default", "once", "nowait"}
      BY Zenon, <2>2, BoundsAssumption DEF RestInv, RunInv
    <2> QED BY Zenon, <2>1, <2>3 DEF RestInv, RunInv, Pcs
  <1> QED BY Zenon, <1>2, <1>3, <1>4, <1>5 DEF Next, LoopStep

LEMMA WalkInvNext ==
    ASSUME LoopInv, RestInv, [Next]_vars
    PROVE  WalkInv'
  <1> USE DEF runVars
  <1>1. ASSUME NEW S, S \subseteq Handles, NEW q \in Seq(S) PROVE q \in Seq(Handles)
    BY <1>1
  <1>2. /\ idle_handles \in Seq(Handles) /\ Once(idle_handles)
        /\ async_handles \in Seq(Handles) /\ Once(async_handles)
        /\ closing_handles \in Seq(Handles) /\ Once(closing_handles)
    BY Zenon, <1>1, TypesAreApart DEF LoopInv, IdlesOK, AsyncsOK, ClosingOK, Holds, Waits,
       TypesApart
  <1>3. \A h : Remove(queue, h) \in Seq(Handles) /\ Once(Remove(queue, h))
    BY Zenon, RemoveIn DEF RestInv, WalkInv, Remove
  <1>4. queue # <<>> => Tail(queue) \in Seq(Handles) /\ Once(Tail(queue))
    BY Zenon, TailIn DEF RestInv, WalkInv
  <1>5. CASE UserCall
    <2>1. queue' = queue \/ \E h \in Handles : queue' = Remove(queue, h)
      BY Zenon, <1>5, TypesAreApart DEF UserCall, TimerInit, TimerDeinit, TimerStart,
         TimerStop, TimerAgain, TimerSetRepeat, CloseTimer, IdleInit, IdleStart, IdleStop,
         CloseIdle, AsyncInit, CloseAsync, Ref, Unref, Stop, UpdateTime, LoopClose, QueueWork,
         FeedRequest, TypesApart
    <2> QED BY Zenon, <1>3, <2>1 DEF RestInv, WalkInv
  <1>6. CASE ~UserCall
    <2>1. \/ queue' \in {queue, idle_handles, async_handles, closing_handles}
          \/ queue # <<>> /\ queue' = Tail(queue)
      <3>1. CASE LoopStep
        BY Zenon, <3>1 DEF LoopStep, CallbackReturns, FireTimer, TimersDone, RequestDone,
           PendingDone, WorkDone, RunIdle, IdleDone, PollNothing, PollTimesOut, AsyncIo,
           AsyncNext, AsyncDone, FinishClose, CloseDone, OnceDone, PollReturn, UpdateTimeout
      <3>2. CASE \/ RunNothing \/ RunBegin \/ PollInterrupted \/ Tick
                 \/ ThreadStep
                 \/ UNCHANGED vars
        BY Zenon, <3>2 DEF RunNothing, RunBegin, PollInterrupted, Tick, ThreadStep, SendWrite,
           Send, WorkerDone, vars, PollReturn, UpdateTimeout
      <3> QED BY Zenon, <1>6, <3>1, <3>2 DEF Next
    <2> QED BY Zenon, <1>2, <1>4, <2>1 DEF RestInv, WalkInv
  <1> QED BY Zenon, <1>5, <1>6

LEMMA CountInvNext ==
    ASSUME RestInv, [Next]_vars
    PROVE  CountInv'
  <1> USE DEF envVars
  <1>1. CASE UserCall
    <2>1. Call /\ UNCHANGED <<sends, signals>>
      BY Zenon, <1>1 DEF UserCall, TimerInit, TimerDeinit, TimerStart, TimerStop, TimerAgain,
         TimerSetRepeat, CloseTimer, IdleInit, IdleStart, IdleStop, CloseIdle, AsyncInit,
         CloseAsync, Ref, Unref, Stop, UpdateTime, LoopClose, QueueWork, FeedRequest
    <2> QED BY <2>1, BoundsAssumption DEF Call, RestInv, CountInv
  <1>2. CASE ~UserCall
    <2>1. /\ calls' = calls
          /\ sends' = sends \/ (sends < MaxSends /\ sends' = sends + 1)
          /\ signals' = signals \/ (signals < MaxSignals /\ signals' = signals + 1)
      <3>1. CASE LoopStep
        BY Zenon, <3>1 DEF LoopStep, CallbackReturns, FireTimer, TimersDone, RequestDone,
           PendingDone, WorkDone, RunIdle, IdleDone, PollNothing, PollTimesOut, AsyncIo,
           AsyncNext, AsyncDone, FinishClose, CloseDone, OnceDone
      <3>2. CASE \/ RunNothing \/ RunBegin \/ PollInterrupted \/ Tick
                 \/ ThreadStep
                 \/ UNCHANGED vars
        BY Zenon, <3>2 DEF RunNothing, RunBegin, PollInterrupted, Tick, ThreadStep,
           SendWrite, Send, WorkerDone, vars
      <3> QED BY Zenon, <1>2, <3>1, <3>2 DEF Next
    <2> QED BY <2>1, BoundsAssumption DEF RestInv, CountInv
  <1> QED BY Zenon, <1>1, <1>2

LEMMA AsyncInvNext ==
    ASSUME LoopInv, RestInv, [Next]_vars
    PROVE  AsyncInv'
  <1> USE DEF asyncVars
  <1>0. AsyncInv
    BY Zenon DEF RestInv
  <1>1. ASSUME \/ \E h \in Asyncs : AsyncInit(h) \/ CloseAsync(h)
               \/ LoopClose
               \/ ThreadStep
        PROVE  AsyncInv'
    <2>1. \/ pending' = pending
          \/ \E h \in Asyncs, v \in {0, 1} : pending' = [pending EXCEPT ![h] = v]
      BY Zenon, <1>1, HandlesAssumption DEF AsyncInit, CloseAsync, LoopClose, ThreadStep,
         SendWrite, Send, WorkerDone
    <2>2. async_fd' \in {async_fd, "empty", "closed", "readable"}
      BY Zenon, <1>1 DEF AsyncInit, CloseAsync, LoopClose, ThreadStep, SendWrite, Send,
         WorkerDone
    <2>3. \/ sending' = sending
          \/ \E s \in Threads, h \in Asyncs \cup {NoHandle} : sending' = [sending EXCEPT ![s] = h]
      BY Zenon, <1>1, HandlesAssumption DEF AsyncInit, CloseAsync, LoopClose, ThreadStep,
         SendWrite, Send, WorkerDone
    <2>4. pending' \in [Asyncs -> {0, 1}]
      BY Zenon, <1>0, <2>1 DEF AsyncInv
    <2>5. sending' \in [Threads -> Asyncs \cup {NoHandle}]
      BY Zenon, <1>0, <2>3 DEF AsyncInv
    <2> QED BY <1>0, <2>2, <2>4, <2>5 DEF AsyncInv
  <1>2. CASE AsyncIo
    BY Zenon, <1>0, <1>2 DEF AsyncIo, AsyncInv
  <1>3. CASE AsyncNext
    <2>1. /\ pending' = [pending EXCEPT ![Head(queue)] = 0]
          /\ UNCHANGED <<async_fd, sending>>
      BY Zenon, <1>3 DEF AsyncNext
    <2> QED BY Zenon, <1>0, <2>1 DEF AsyncInv
  <1>4. ASSUME UNCHANGED <<pending, async_fd, sending>> PROVE AsyncInv'
    BY Zenon, <1>0, <1>4 DEF AsyncInv
  <1>5. CASE \/ \E t \in Timers : \/ TimerInit(t) \/ TimerDeinit(t) \/ TimerStart(t)
                                  \/ TimerStop(t) \/ TimerAgain(t) \/ TimerSetRepeat(t)
                                  \/ CloseTimer(t)
             \/ \E h \in Idles : IdleInit(h) \/ IdleStart(h) \/ IdleStop(h) \/ CloseIdle(h)
             \/ \E h \in Handles \ {WqAsync} : Ref(h) \/ Unref(h)
             \/ \E r \in Reqs : QueueWork(r) \/ FeedRequest(r)
             \/ Stop \/ UpdateTime
    BY Zenon, <1>4, <1>5 DEF TimerInit, TimerDeinit, TimerStart, TimerStop, TimerAgain,
       TimerSetRepeat, CloseTimer, IdleInit, IdleStart, IdleStop, CloseIdle, Ref, Unref, Stop,
       UpdateTime, QueueWork, FeedRequest
  <1>6. CASE \/ CallbackReturns \/ FireTimer \/ TimersDone \/ RequestDone \/ PendingDone
             \/ WorkDone \/ RunIdle \/ IdleDone
             \/ PollNothing \/ PollTimesOut \/ AsyncDone \/ FinishClose \/ CloseDone
             \/ OnceDone \/ RunNothing \/ RunBegin \/ PollInterrupted \/ Tick
             \/ UNCHANGED vars
    BY Zenon, <1>4, <1>6 DEF CallbackReturns, FireTimer, TimersDone, RequestDone, PendingDone,
       WorkDone, RunIdle, IdleDone, PollNothing, PollTimesOut, AsyncDone, FinishClose,
       CloseDone, OnceDone, RunNothing, RunBegin, PollInterrupted, Tick, vars
  <1> QED BY Zenon, <1>1, <1>2, <1>3, <1>5, <1>6 DEF Next, UserCall, LoopStep

\* uv_backend_timeout is -1 or a number of milliseconds.
LEMMA BackendTimeoutType ==
    ASSUME LoopInv, TimesInv
    PROVE  BackendTimeout \in Int /\ (BackendTimeout # -1 => BackendTimeout \in Nat)
  <1>1. time \in Nat /\ IntMax \in Nat
    BY BoundsAssumption DEF TimesInv
  <1>2. NextTimeout \in Int /\ (NextTimeout # -1 => NextTimeout \in Nat)
    <2>1. CASE timer_heap = <<>>
      BY <2>1 DEF NextTimeout
    <2>2. CASE timer_heap # <<>>
      <3> DEFINE d == timeout[Head(timer_heap)]
      <3>1. Head(timer_heap) \in Timers /\ TimerState.timeout = timeout
        BY Zenon, <2>2, TailIn DEF LoopInv, Holds, TimerState
      <3>2. d \in 0..UintMax
        BY Zenon, <3>1 DEF TimesInv, TimesOK
      <3>3. d \in Nat
        BY <3>2, BoundsAssumption
      <3>4. NextTimeout = IF d <= time THEN 0 ELSE IF d - time > IntMax THEN IntMax ELSE d - time
        BY Zenon, <2>2 DEF NextTimeout
      <3> HIDE DEF d
      <3> QED BY <1>1, <3>3, <3>4
    <2> QED BY Zenon, <2>1, <2>2
  <1>3. BackendTimeout = 0 \/ BackendTimeout = NextTimeout
    BY Zenon DEF BackendTimeout
  <1> HIDE DEF BackendTimeout, NextTimeout
  <1> QED BY <1>2, <1>3

LEMMA PollNext ==
    ASSUME LoopInv, TimesInv, RestInv, [Next]_vars
    PROVE  poll' \in Polls
  <1> USE DEF runVars
  <1>0. poll \in Polls /\ NoPoll \in Polls
    BY DEF RestInv, NoPoll, Polls
  <1>1. CASE IdleDone
    <2> DEFINE d == IF mode = "nowait" \/ (mode = "once" /\ reqs.ran_pending)
                    THEN 0 ELSE BackendTimeout
    <2>1. d \in Int /\ (d # -1 => d \in Nat)
      BY BackendTimeoutType
    <2>2. poll' = [timeout |-> d, real |-> d, base |-> time, wait |-> IF d = -1 THEN 0 ELSE d]
      BY Zenon, <1>1 DEF IdleDone
    <2>3. time \in Nat
      BY BoundsAssumption DEF TimesInv
    <2> HIDE DEF d
    <2> QED BY <2>1, <2>2, <2>3 DEF Polls
  <1>2. CASE PollTimesOut \/ PollInterrupted
    <2> DEFINE left == poll.real - (clock - poll.base)
    <2>1. left \in Int
      BY <1>0, BoundsAssumption DEF Polls, TimesInv
    <2>2. \/ poll' \in {poll, NoPoll}
          \/ ~(left <= 0) /\ poll' = [poll EXCEPT !.timeout = left, !.real = left, !.wait = left]
      BY Zenon, <1>2 DEF PollTimesOut, PollInterrupted, PollReturn, UpdateTimeout
    <2> HIDE DEF left
    <2>3. ~(left <= 0) => left \in Nat
      BY <2>1
    <2>4. ~(left <= 0) => [poll EXCEPT !.timeout = left, !.real = left, !.wait = left] \in Polls
      BY Zenon, <1>0, <2>1, <2>3 DEF Polls
    <2> QED BY Zenon, <1>0, <2>2, <2>4
  <1>3. CASE Tick
    <2>1. poll' = poll \/ (poll.wait > 0 /\ poll' = [poll EXCEPT !.wait = @ - 1])
      BY Zenon, <1>3 DEF Tick
    <2> QED BY <1>0, <2>1 DEF Polls
  <1>4. CASE UserCall
    <2>1. poll' = poll
      BY Zenon, <1>4 DEF UserCall, TimerInit, TimerDeinit, TimerStart, TimerStop, TimerAgain,
         TimerSetRepeat, CloseTimer, IdleInit, IdleStart, IdleStop, CloseIdle, AsyncInit,
         CloseAsync, Ref, Unref, Stop, UpdateTime, LoopClose, QueueWork, FeedRequest
    <2> QED BY Zenon, <1>0, <2>1
  <1>5. CASE \/ CallbackReturns \/ FireTimer \/ TimersDone \/ RequestDone \/ PendingDone
             \/ WorkDone \/ RunIdle \/ PollNothing
             \/ AsyncIo \/ AsyncNext \/ AsyncDone \/ FinishClose \/ CloseDone \/ OnceDone
             \/ RunNothing \/ RunBegin \/ UNCHANGED vars
             \/ ThreadStep
    <2>1. poll' \in {poll, NoPoll}
      BY Zenon, <1>5 DEF CallbackReturns, FireTimer, TimersDone, RequestDone, PendingDone,
         WorkDone, RunIdle, PollNothing, AsyncIo, AsyncNext, AsyncDone, FinishClose,
         CloseDone, OnceDone, RunNothing, RunBegin, ThreadStep, SendWrite, Send, WorkerDone,
         vars, PollReturn
    <2> QED BY Zenon, <1>0, <2>1
  <1> QED BY Zenon, <1>1, <1>2, <1>3, <1>4, <1>5 DEF Next, LoopStep

LEMMA RestInvariance == Spec => []RestInv
  <1>1. LoopInv /\ ReqInv /\ TimesInv /\ RestInv /\ [Next]_vars => RestInv'
    BY Zenon, RunInvNext, WalkInvNext, CountInvNext, AsyncInvNext, PollNext DEF RestInv
  <1> QED BY <1>1, RestInvInit, LoopInvariance, ReqInvariance, TimesInvariance, PTL DEF Spec

LEMMA TypeCorrect ==
    ASSUME LoopInv, ReqInv, TimesInv, RestInv
    PROVE  TypeOK
  <1>1. hs \in [flags : [Handles -> SUBSET Flags], active_handles : Nat]
    <2>1. Counted(hs, Handles) \subseteq Handles
      BY Zenon DEF Counted
    <2>2. IsFiniteSet(Counted(hs, Handles))
      BY Zenon, <2>1, FS_Subset, HandlesAssumption
    <2>3. hs.active_handles \in Nat
      BY Zenon, <2>2, FS_CardinalityType DEF LoopInv, Exact
    <2>4. hs \in [flags : [Handles -> SUBSET Flags], active_handles : Int]
      BY Zenon DEF LoopInv, Exact
    <2> QED BY <2>3, <2>4
  <1>2. /\ handle_queue \subseteq Handles /\ closing_handles \in Seq(Handles)
        /\ timer_heap \in Seq(Timers) /\ idle_handles \in Seq(Idles)
        /\ async_handles \in Seq(Asyncs)
    BY Zenon DEF LoopInv, IdlesOK, AsyncsOK, ClosingOK, Holds, Waits
  <1>3. /\ timeout \in [Timers -> 0..UintMax] /\ repeat \in [Timers -> 0..UintMax]
        /\ timer_cb \subseteq Timers /\ wanted \in [Timers -> Nat]
        /\ clock \in 0..MaxClock /\ time \in 0..clock
    BY Zenon DEF TimesInv, TimesOK, TimerState
  <1>4. RunInv /\ WalkInv /\ CountInv /\ AsyncInv /\ poll \in Polls
    BY Zenon DEF RestInv
  <1> QED BY Zenon, <1>1, <1>2, <1>3, <1>4
          DEF TypeOK, ReqInv, ReqState, RunInv, WalkInv, CountInv, AsyncInv, Polls

-----------------------------------------------------------------------------
(***************************************************************************)
(* The lists of the loop agree with the flags.                             *)
(***************************************************************************)

\* How often a handle is in a list in which no handle is twice.
LEMMA TimesIs ==
    ASSUME NEW S, NEW q \in Seq(S), Once(q), NEW h
    PROVE  Times(q, h) = IF In(q, h) THEN 1 ELSE 0
  <1> DEFINE D == {i \in DOMAIN q : q[i] = h}
  <1>0. DOMAIN q = 1..Len(q)
    OBVIOUS
  <1>1. CASE In(q, h)
    <2>1. PICK k \in 1..Len(q) : q[k] = h
      BY Zenon, <1>1 DEF In
    <2>2. D = {k}
      BY Zenon, <1>0, <2>1 DEF Once
    <2>3. Cardinality({k}) = 1
      BY Zenon, FS_Singleton
    <2> QED BY Zenon, <1>1, <2>2, <2>3 DEF Times
  <1>2. CASE ~In(q, h)
    <2>1. D = {}
      BY Zenon, <1>0, <1>2 DEF In
    <2>2. Cardinality({}) = 0
      BY Zenon, FS_EmptySet
    <2> QED BY Zenon, <1>2, <2>1, <2>2 DEF Times
  <1> QED BY Zenon, <1>1, <1>2

LEMMA LinkedOnce ==
    ASSUME LoopInv, LinkedInv, RestInv, pc # "aborted"
    PROVE  ActiveMeansLinked
  <1> SUFFICES ASSUME NEW h \in Handles
               PROVE  Times(timer_heap, h) + Times(idle_handles, h) + Times(async_handles, h)
                        + (IF pc \in {"idle", "async"} THEN Times(queue, h) ELSE 0)
                      = IF IsActive(hs, h) THEN 1 ELSE 0
    BY Zenon DEF ActiveMeansLinked
  <1> DEFINE walked == pc \in {"idle", "async"} /\ In(queue, h)
             n == IF pc \in {"idle", "async"} THEN Times(queue, h) ELSE 0
  <1>1. /\ Times(timer_heap, h) = IF In(timer_heap, h) THEN 1 ELSE 0
        /\ Times(idle_handles, h) = IF In(idle_handles, h) THEN 1 ELSE 0
        /\ Times(async_handles, h) = IF In(async_handles, h) THEN 1 ELSE 0
    BY Zenon, TimesIs DEF LoopInv, IdlesOK, AsyncsOK, Holds
  <1>2. n = IF walked THEN 1 ELSE 0
    <2>1. Times(queue, h) = IF In(queue, h) THEN 1 ELSE 0
      BY Zenon, TimesIs DEF RestInv, WalkInv
    <2> QED BY Zenon, <2>1
  <1>3. IsActive(hs, h) <=> \/ In(timer_heap, h) \/ In(idle_handles, h) \/ In(async_handles, h)
                            \/ walked
    <2>1. IsActive(hs, h) => Linked(h)
      BY Zenon DEF LinkedInv
    <2>2. Linked(h) => IsActive(hs, h)
      BY Zenon DEF Linked, LoopInv, IdlesOK, AsyncsOK, Holds
    <2> QED BY Zenon, <2>1, <2>2 DEF Linked
  <1>4. /\ In(timer_heap, h) => h \in Timers
        /\ In(idle_handles, h) => h \in Idles
        /\ In(async_handles, h) => h \in Asyncs
    BY Zenon, InSeq DEF LoopInv, IdlesOK, AsyncsOK, Holds
  <1>5. walked => \/ h \in Idles /\ ~In(idle_handles, h)
                  \/ h \in Asyncs /\ ~In(async_handles, h)
    BY Zenon, InSeq DEF LoopInv, IdlesOK, AsyncsOK, Holds, Apart
  <1> DEFINE a == In(timer_heap, h)
             b == In(idle_handles, h)
             c == In(async_handles, h)
  <1>6. /\ ~(a /\ b) /\ ~(a /\ c) /\ ~(b /\ c)
        /\ ~(walked /\ a) /\ ~(walked /\ b) /\ ~(walked /\ c)
    BY Zenon, <1>4, <1>5, TypesAreApart DEF TypesApart
  <1> HIDE DEF walked, n, a, b, c
  <1>7. /\ Times(timer_heap, h) = IF a THEN 1 ELSE 0
        /\ Times(idle_handles, h) = IF b THEN 1 ELSE 0
        /\ Times(async_handles, h) = IF c THEN 1 ELSE 0
        /\ IsActive(hs, h) <=> a \/ b \/ c \/ walked
    BY Zenon, <1>1, <1>3 DEF a, b, c
  <1>8. Times(timer_heap, h) + Times(idle_handles, h) + Times(async_handles, h) + n
        = IF IsActive(hs, h) THEN 1 ELSE 0
    BY <1>2, <1>6, <1>7
  <1> QED BY Zenon, <1>8 DEF n

LEMMA ClosingOnce ==
    ASSUME LoopInv, RestInv, pc # "aborted"
    PROVE  ClosingInOnePlace
  <1> SUFFICES ASSUME NEW h \in Handles
               PROVE  Times(closing_handles, h)
                        + (IF pc = "closing" THEN Times(queue, h) ELSE 0)
                      = IF {"closing", "closed"} \cap hs.flags[h] = {"closing"} THEN 1 ELSE 0
    BY Zenon DEF ClosingInOnePlace
  <1> DEFINE a == In(closing_handles, h)
             b == pc = "closing" /\ In(queue, h)
             n == IF pc = "closing" THEN Times(queue, h) ELSE 0
             w == {"closing", "closed"} \cap hs.flags[h] = {"closing"}
  <1>1. Times(closing_handles, h) = IF a THEN 1 ELSE 0
    BY Zenon, TimesIs DEF LoopInv, ClosingOK, Waits
  <1>2. n = IF b THEN 1 ELSE 0
    <2>1. Times(queue, h) = IF In(queue, h) THEN 1 ELSE 0
      BY Zenon, TimesIs DEF RestInv, WalkInv
    <2> QED BY Zenon, <2>1
  <1>3. w <=> Owed(hs, h)
    BY DEF Owed
  <1>4. Owed(hs, h) <=> a \/ b
    BY Zenon DEF LoopInv, ClosingOK, OwedOK, Waits
  <1>5. ~(a /\ b)
    BY Zenon DEF LoopInv, ClosingOK, Apart
  <1> HIDE DEF a, b, n, w
  <1>6. Times(closing_handles, h) + n = IF w THEN 1 ELSE 0
    BY <1>1, <1>2, <1>3, <1>4, <1>5
  <1> QED BY Zenon, <1>6 DEF n, w

\* Every active handle is linked once, in the list of its type or in the part that a
\* walk took over, and every handle that was closed waits once for its callback
\* (loop-watcher.c:47-80, async.c:96-124, core.c:176-182, 251-264), whatever the
\* callbacks start, stop and close.
THEOREM ListsAreSound == Spec => []ListsSound
  <1>1. LoopInv /\ ReqInv /\ LinkedInv /\ TimesInv /\ RestInv => ListsSound
    BY Zenon, TypeCorrect, LinkedOnce, ClosingOnce DEF ListsSound
  <1> QED BY <1>1, LoopInvariance, ReqInvariance, LinkedInvariance, TimesInvariance,
          RestInvariance, PTL

-----------------------------------------------------------------------------
(***************************************************************************)
(* Sends.  An open async handle is active and therefore in the list that   *)
(* uv__async_io takes over, so a pending send that the eventfd announced   *)
(* is in front of the walk.  Only uv_loop_close closes the eventfd, and,   *)
(* if it is not called too early, after that no thread sends.              *)
(***************************************************************************)
SendInv ==
    /\ \A h \in Asyncs : Open(h) => IsActive(hs, h)
    /\ async_fd = "closed" => pc = "closed" /\ \A s \in Threads : sending[s] = NoHandle
    /\ pc # "aborted" /\ NoLostSend

\* What a step may do to an async handle: it stays open and active, is opened, or
\* is not open afterwards.
StaysOpen(h) ==
    Open(h)' => \/ Open(h) /\ (IsActive(hs, h) => IsActive(hs', h))
                \/ IsActive(hs', h) /\ pending'[h] = 0

\* A step that changes the flags of a handle k.
LEMMA StaysOpenStep ==
    ASSUME NEW k \in Handles, Only(hs, hs', k), handle_queue' \subseteq handle_queue \cup {k},
           k \in Asyncs => StaysOpen(k), NEW h \in Asyncs
    PROVE  StaysOpen(h)
  <1>1. CASE h = k
    BY Zenon, <1>1
  <1>2. CASE h # k
    <2>1. h \in Handles /\ hs'.flags[h] = hs.flags[h]
      BY Zenon, <1>2 DEF Only, Handles
    <2>2. Open(h)' => Open(h)
      BY Zenon, <1>2, <2>1 DEF Open, IsClosing
    <2> QED BY Zenon, <2>1, <2>2 DEF StaysOpen, IsActive
  <1> QED BY Zenon, <1>1, <1>2

LEMMA TimerStaysOpen ==
    ASSUME LoopInv, NEW t \in Timers, NEW h \in Asyncs,
           \/ TimerInit(t) \/ TimerDeinit(t) \/ TimerStart(t) \/ TimerStop(t) \/ TimerAgain(t)
           \/ TimerSetRepeat(t) \/ CloseTimer(t)
    PROVE  StaysOpen(h)
  <1>0. t \in Handles /\ t \notin Asyncs /\ TimersOK(TimerState) /\ TimerState.hs = hs
    BY Zenon, TimerStateOK, TypesAreApart DEF TypesApart
  <1>1. handle_queue' \subseteq handle_queue \cup {t}
    BY Zenon DEF TimerInit, TimerDeinit, TimerStart, TimerStop, TimerAgain, TimerSetRepeat,
       CloseTimer, handleVars
  <1>2. Only(hs, hs', t)
    <2>1. CASE TimerInit(t)
      <3>1. ~IsActive(hs, t) /\ hs' = HandleInit(hs, t)
        BY Zenon, <1>0, <2>1 DEF TimerInit, NotOpen, LoopInv, ActiveOK
      <3> QED BY Zenon, <1>0, <3>1, InitExact DEF LoopInv, Sets
    <2>2. CASE TimerDeinit(t) \/ TimerSetRepeat(t)
      BY Zenon, <2>2 DEF TimerDeinit, TimerSetRepeat, handleVars, Only
    <2>3. CASE TimerStart(t)
      <3>1. PICK d \in Timeouts, rep \in Repeats : hs' = StartTimer(TimerState, t, d, rep).hs
        BY Zenon, <2>3 DEF TimerStart, SetTimers
      <3> QED BY Zenon, <1>0, <3>1, StartTimerOK DEF Sets
    <2>4. CASE TimerStop(t)
      <3>1. hs' = StopTimer(TimerState, t).hs
        BY Zenon, <2>4 DEF TimerStop, SetTimers
      <3> QED BY Zenon, <1>0, <3>1, StopTimerOK DEF Sets
    <2>5. CASE TimerAgain(t)
      <3>1. hs' = AgainTimer(TimerState, t).hs
        BY Zenon, <2>5 DEF TimerAgain, SetTimers
      <3> QED BY Zenon, <1>0, <3>1, AgainTimerOK DEF Sets
    <2>6. CASE CloseTimer(t)
      <3>1. hs' = StopTimer(ClosingTimer(t), t).hs
        BY Zenon, <2>6 DEF CloseTimer, ClosingTimer, SetTimers
      <3>2. /\ TimersOK(ClosingTimer(t)) /\ Only(hs, ClosingTimer(t).hs, t)
        BY Zenon, ClosingTimerOK DEF Sets
      <3>3. Only(ClosingTimer(t).hs, hs', t)
        BY Zenon, <3>1, <3>2, StopTimerOK DEF Sets
      <3> QED BY Zenon, <3>2, <3>3 DEF Only
    <2> QED BY Zenon, <2>1, <2>2, <2>3, <2>4, <2>5, <2>6
  <1> QED BY Zenon, <1>0, <1>1, <1>2, StaysOpenStep

LEMMA FireTimerStaysOpen ==
    ASSUME LoopInv, FireTimer, NEW h \in Asyncs
    PROVE  StaysOpen(h)
  <1> DEFINE t == Head(timer_heap)
             z == StopTimer(TimerState, t)
  <1>1. t \in Timers
    BY Zenon, TailIn DEF FireTimer, TimerDue, LoopInv, Holds
  <1>2. hs' = AgainTimer(z, t).hs /\ handle_queue' = handle_queue
    BY Zenon DEF FireTimer, SetTimers
  <1> HIDE DEF t
  <1>3. TimersOK(z) /\ Only(hs, z.hs, t)
    BY Zenon, <1>1, TimerStateOK, StopTimerOK DEF Sets
  <1> HIDE DEF z
  <1>4. Only(z.hs, hs', t)
    BY Zenon, <1>1, <1>2, <1>3, AgainTimerOK DEF Sets
  <1>5. Only(hs, hs', t) /\ t \in Handles /\ t \notin Asyncs
    BY Zenon, <1>1, <1>3, <1>4, TypesAreApart DEF Only, TypesApart
  <1> QED BY Zenon, <1>2, <1>5, StaysOpenStep

LEMMA WatcherStaysOpen ==
    ASSUME LoopInv, NEW k \in Idles, NEW h \in Asyncs,
           IdleInit(k) \/ IdleStart(k) \/ IdleStop(k) \/ CloseIdle(k)
    PROVE  StaysOpen(h)
  <1>0. k \in Handles /\ k \notin Asyncs
    BY Zenon, TypesAreApart DEF TypesApart
  <1>1. handle_queue' \subseteq handle_queue \cup {k}
    BY Zenon DEF IdleInit, IdleStart, IdleStop, CloseIdle
  <1>2. Only(hs, hs', k)
    <2>1. CASE IdleInit(k)
      <3>1. ~IsActive(hs, k) /\ hs' = HandleInit(hs, k)
        BY Zenon, <1>0, <2>1 DEF IdleInit, NotOpen, LoopInv, ActiveOK
      <3> QED BY Zenon, <1>0, <3>1, InitExact DEF LoopInv, Sets
    <2>2. CASE IdleStart(k)
      BY Zenon, <1>0, <2>2, StartExact DEF IdleStart, LoopInv, Sets
    <2>3. CASE IdleStop(k)
      BY Zenon, <1>0, <2>3, StopExact DEF IdleStop, LoopInv, Sets
    <2>4. CASE CloseIdle(k)
      <3>1. Sets(hs, SetFlag(hs, k, "closing"), k, hs.flags[k] \cup {"closing"})
        BY Zenon, <1>0, SetFlagExact DEF LoopInv
      <3>2. Only(SetFlag(hs, k, "closing"), hs', k)
        BY Zenon, <1>0, <2>4, <3>1, StopExact DEF CloseIdle, Sets
      <3> QED BY Zenon, <3>1, <3>2 DEF Sets, Only
    <2> QED BY Zenon, <2>1, <2>2, <2>3, <2>4
  <1> QED BY Zenon, <1>0, <1>1, <1>2, StaysOpenStep

LEMMA CallStaysOpen ==
    ASSUME LoopInv, LinkedInv, RestInv, NEW h \in Asyncs,
           \/ \E k \in Asyncs : AsyncInit(k) \/ CloseAsync(k)
           \/ \E k \in Handles : Ref(k) \/ Unref(k)
           \/ LoopClose
    PROVE  StaysOpen(h)
  <1>1. ASSUME NEW k \in Asyncs, AsyncInit(k) PROVE StaysOpen(h)
    <2>1. k \in Handles /\ IsActive(hs', k) /\ Only(hs, hs', k)
      BY Zenon, <1>1, AsyncInitLinks DEF Handles
    <2>2. handle_queue' = handle_queue \cup {k} /\ pending' = [pending EXCEPT ![k] = 0]
      BY Zenon, <1>1 DEF AsyncInit
    <2>3. StaysOpen(k)
      BY Zenon, <2>1, <2>2 DEF StaysOpen, RestInv, AsyncInv
    <2> QED BY Zenon, <2>1, <2>2, <2>3, StaysOpenStep
  <1>2. ASSUME NEW k \in Asyncs, CloseAsync(k) PROVE StaysOpen(h)
    <2> DEFINE x == SetFlag(hs, k, "closing")
    <2>1. k \in Handles /\ hs' = HandleStop(x, k) /\ handle_queue' = handle_queue
      BY Zenon, <1>2 DEF CloseAsync, Handles
    <2>2. Sets(hs, x, k, hs.flags[k] \cup {"closing"})
      BY Zenon, <2>1, SetFlagExact DEF LoopInv
    <2> HIDE DEF x
    <2>3. Sets(x, hs', k, x.flags[k] \ {"active"})
      BY Zenon, <2>1, <2>2, StopExact DEF Sets
    <2>4. Only(hs, hs', k) /\ "closing" \in hs'.flags[k]
      BY Zenon, <2>2, <2>3 DEF Sets, Only
    <2>5. StaysOpen(k)
      BY Zenon, <2>4 DEF StaysOpen, Open, IsClosing
    <2> QED BY Zenon, <2>1, <2>4, <2>5, StaysOpenStep
  <1>3. ASSUME NEW k \in Handles, Ref(k) \/ Unref(k) PROVE StaysOpen(h)
    <2>1. hs' \in {HandleRef(hs, k), HandleUnref(hs, k)} /\ handle_queue' = handle_queue
      BY Zenon, <1>3 DEF Ref, Unref
    <2>2. Sets(hs, hs', k, hs.flags[k] \cup {"ref"}) \/ Sets(hs, hs', k, hs.flags[k] \ {"ref"})
      BY Zenon, <2>1, RefExact, UnrefExact DEF LoopInv
    <2>3. /\ Only(hs, hs', k) /\ (IsActive(hs, k) => IsActive(hs', k))
          /\ IsClosing(hs, k) => IsClosing(hs', k)
      BY Zenon, <2>2 DEF Sets, IsActive, IsClosing
    <2>4. StaysOpen(k)
      BY Zenon, <2>1, <2>3 DEF StaysOpen, Open
    <2> QED BY Zenon, <2>1, <2>3, <2>4, StaysOpenStep
  <1>4. CASE LoopClose
    <2>1. WqAsync \in Handles /\ handle_queue' = handle_queue \ {WqAsync}
      BY Zenon, <1>4, HandlesAssumption DEF LoopClose, Handles
    <2>2. Only(hs, hs', WqAsync)
      BY Zenon, <1>4, LoopCloseLinks
    <2>3. StaysOpen(WqAsync)
      BY Zenon, <2>1 DEF StaysOpen, Open
    <2> QED BY Zenon, <2>1, <2>2, <2>3, StaysOpenStep
  <1> QED BY Zenon, <1>1, <1>2, <1>3, <1>4

LEMMA FinishCloseStaysOpen ==
    ASSUME LoopInv, FinishClose, NEW h \in Asyncs
    PROVE  StaysOpen(h)
  <1>0. PICK k : k = Head(queue)
    OBVIOUS
  <1> DEFINE x == SetFlag(hs, k, "closed")
  <1>1. /\ pc = "closing" /\ queue # <<>> /\ hs' = HandleUnref(x, k)
        /\ handle_queue' = handle_queue \ {k}
    BY Zenon, <1>0 DEF FinishClose, At
  <1>2. k \in Handles
    BY Zenon, <1>0, <1>1, TailIn DEF LoopInv, ClosingOK, Waits
  <1>3. Sets(hs, x, k, hs.flags[k] \cup {"closed"})
    BY Zenon, <1>2, SetFlagExact DEF LoopInv
  <1> HIDE DEF x
  <1>4. Only(x, hs', k)
    BY Zenon, <1>1, <1>2, <1>3, UnrefExact DEF Sets
  <1>5. Only(hs, hs', k) /\ StaysOpen(k)
    BY Zenon, <1>1, <1>3, <1>4 DEF Sets, Only, StaysOpen, Open
  <1> QED BY Zenon, <1>1, <1>2, <1>5, StaysOpenStep

\* The steps of the loop, the clock and the threads that leave flags alone.
FlagsNext ==
    \/ \E r \in Reqs : QueueWork(r) \/ FeedRequest(r)
    \/ Stop \/ UpdateTime \/ CallbackReturns \/ TimersDone \/ RequestDone \/ PendingDone
    \/ WorkDone \/ RunIdle \/ IdleDone
    \/ PollNothing \/ PollTimesOut \/ AsyncIo \/ AsyncNext \/ AsyncDone \/ CloseDone
    \/ OnceDone \/ RunNothing \/ RunBegin \/ PollInterrupted \/ Tick
    \/ ThreadStep
    \/ UNCHANGED vars

LEMMA AllStayOpen ==
    ASSUME LoopInv, LinkedInv, RestInv, [Next]_vars, NEW h \in Asyncs
    PROVE  StaysOpen(h)
  <1>1. CASE FlagsNext
    <2>1. UNCHANGED <<hs, handle_queue>>
      BY Zenon, <1>1 DEF FlagsNext, QueueWork, FeedRequest, Stop, UpdateTime, CallbackReturns,
         TimersDone, RequestDone, PendingDone, WorkDone, RunIdle, IdleDone, PollNothing,
         PollTimesOut, AsyncIo, AsyncNext, AsyncDone, CloseDone, OnceDone, RunNothing,
         RunBegin, PollInterrupted, Tick, ThreadStep, SendWrite, Send, WorkerDone, vars,
         handleVars
    <2> QED BY Zenon, <2>1 DEF StaysOpen, Open
  <1>2. CASE UserCall /\ ~FlagsNext
    BY Zenon, <1>2, TimerStaysOpen, WatcherStaysOpen, CallStaysOpen DEF UserCall, FlagsNext
  <1> QED BY Zenon, <1>1, <1>2, FireTimerStaysOpen, FinishCloseStaysOpen
          DEF Next, LoopStep, FlagsNext

\* The eventfd is closed only when the loop is, and nobody writes to it then.
LEMMA FdStep ==
    ASSUME ~CloseEarly, LoopInv, RestInv, SendInv, [Next]_vars
    PROVE  /\ (async_fd = "closed" => pc = "closed" /\ \A s \in Threads : sending[s] = NoHandle)'
           /\ pc' # "aborted" /\ (async_fd = "readable" => async_fd' = "readable" \/ AsyncIo \/ LoopClose)
           /\ LoopClose => handle_queue' = {}
  <1> USE DEF asyncVars, runVars
  <1>0. /\ async_fd = "closed" => pc = "closed" /\ \A s \in Threads : sending[s] = NoHandle
        /\ pc # "aborted" /\ sending \in [Threads -> Asyncs \cup {NoHandle}]
    BY Zenon DEF SendInv, RestInv, AsyncInv
  <1>1. CASE LoopClose
    <2>1. handle_queue' = {}
      BY Zenon, <1>1 DEF LoopClose
    <2> QED BY Zenon, <1>1, <2>1 DEF LoopClose
  <1>2. ASSUME NEW s \in Threads, SendWrite(s), ~LoopClose
        PROVE  async_fd' = "readable" /\ pc' = pc
    BY Zenon, <1>0, <1>2 DEF SendWrite
  <1>3. ASSUME NEW s \in Threads, NEW h \in Asyncs, Send(s, h)
        PROVE  async_fd # "closed" /\ UNCHANGED <<async_fd, pc>>
    BY Zenon, <1>0, <1>3 DEF Send
  <1>4. CASE AsyncIo
    BY Zenon, <1>0, <1>4 DEF AsyncIo, LoopClose, At
  <1>5. CASE \E h \in Asyncs : AsyncInit(h)
    BY Zenon, <1>0, <1>5 DEF AsyncInit, LoopClose
  <1>6. ASSUME UNCHANGED <<async_fd, sending>>, pc' # "aborted", pc = "closed" => pc' = "closed",
               ~LoopClose
        PROVE  /\ (async_fd = "closed" => pc = "closed" /\ \A s \in Threads : sending[s] = NoHandle)'
               /\ pc' # "aborted" /\ (async_fd = "readable" => async_fd' = "readable")
    BY Zenon, <1>0, <1>6
  <1>7. CASE UserCall /\ ~LoopClose /\ ~(\E h \in Asyncs : AsyncInit(h))
    <2>1. UNCHANGED <<async_fd, sending, pc>>
      BY Zenon, <1>7 DEF UserCall, TimerInit, TimerDeinit, TimerStart, TimerStop, TimerAgain,
         TimerSetRepeat, CloseTimer, IdleInit, IdleStart, IdleStop, CloseIdle, CloseAsync,
         Ref, Unref, Stop, UpdateTime, QueueWork, FeedRequest
    <2> QED BY Zenon, <1>0, <1>6, <1>7, <2>1
  <1>8. CASE \/ CallbackReturns \/ FireTimer \/ TimersDone \/ RequestDone \/ PendingDone
             \/ WorkDone \/ RunIdle \/ IdleDone
             \/ PollNothing \/ PollTimesOut \/ AsyncNext \/ AsyncDone \/ FinishClose
             \/ CloseDone \/ OnceDone \/ RunNothing \/ RunBegin \/ PollInterrupted \/ Tick
             \/ UNCHANGED vars
    <2>1. UNCHANGED <<async_fd, sending>>
      BY Zenon, <1>8 DEF CallbackReturns, FireTimer, TimersDone, RequestDone, PendingDone,
         WorkDone, RunIdle, IdleDone, PollNothing, PollTimesOut, AsyncNext, AsyncDone,
         FinishClose, CloseDone, OnceDone, RunNothing, RunBegin, PollInterrupted, Tick, vars
    <2>2. pc' # "aborted" /\ (pc = "closed" => pc' = "closed")
      BY Zenon, <1>0, <1>8 DEF CallbackReturns, FireTimer, TimersDone, RequestDone,
         PendingDone, WorkDone, RunIdle, IdleDone, PollNothing, PollTimesOut, AsyncNext,
         AsyncDone, FinishClose, CloseDone, OnceDone, RunNothing, RunBegin, PollInterrupted,
         Tick, vars, At, PollReturn, UpdateTimeout, RunAgain
    <2> QED BY Zenon, <1>1, <1>6, <2>1, <2>2
  <1>10. ASSUME NEW s \in Threads, NEW r \in Reqs, WorkerDone(s, r)
         PROVE  async_fd # "closed" /\ UNCHANGED <<async_fd, pc>>
    BY Zenon, <1>0, <1>10 DEF WorkerDone
  <1>9. CASE ThreadStep
    BY Zenon, <1>0, <1>1, <1>2, <1>3, <1>9, <1>10 DEF ThreadStep
  <1> QED BY Zenon, <1>1, <1>4, <1>5, <1>7, <1>8, <1>9 DEF Next, UserCall, LoopStep

\* The wakeup that a pending send relies on.
Announced(h) ==
    \/ async_fd = "readable"
    \/ \E s \in DOMAIN sending : sending[s] = h
    \/ pc = "async" /\ Member(queue, h)

LEMMA MemberIs == ASSUME NEW S, NEW q \in Seq(S), NEW h PROVE Member(q, h) <=> In(q, h)
  BY DEF Member, In

LEMMA AnnouncedNext ==
    ASSUME ~CloseEarly, LoopInv, LinkedInv, RestInv, SendInv, [Next]_vars,
           NEW h \in Asyncs, Open(h)', pending'[h] = 1
    PROVE  Announced(h)'
  <1> USE DEF asyncVars, runVars
  <1>0. /\ pending \in [Asyncs -> {0, 1}] /\ sending \in [Threads -> Asyncs \cup {NoHandle}]
        /\ queue \in Seq(Handles) /\ Once(queue) /\ h # NoHandle /\ h \in Handles
        /\ pc # "aborted"
    BY Zenon, HandlesAssumption DEF RestInv, AsyncInv, WalkInv, SendInv, Handles
  <1>1. Open(h)
    <2>1. StaysOpen(h)
      BY Zenon, AllStayOpen
    <2>2. pending'[h] # 0
      OBVIOUS
    <2> QED BY Zenon, <2>1, <2>2 DEF StaysOpen
  <1>2. pending[h] = 1 => Announced(h)
    BY Zenon, <1>1 DEF SendInv, NoLostSend, Announced
  <1>3. ASSUME pending[h] = 1, async_fd = "readable" => async_fd' = "readable",
               sending' = sending,
               pc = "async" /\ Member(queue, h) => pc' = "async" /\ Member(queue', h)
        PROVE  Announced(h)'
    BY Zenon, <1>2, <1>3 DEF Announced
  <1>4. ASSUME NEW s \in Threads, NEW k \in Asyncs, sending[s] = NoHandle,
               pending' = [pending EXCEPT ![k] = 1], sending' = [sending EXCEPT ![s] = k],
               UNCHANGED <<async_fd, pc, queue>>
        PROVE  Announced(h)'
    <2>1. /\ sending[s] = NoHandle /\ pending' = [pending EXCEPT ![k] = 1]
          /\ sending' = [sending EXCEPT ![s] = k] /\ UNCHANGED <<async_fd, pc, queue>>
      BY Zenon, <1>4
    <2>2. CASE h = k
      BY Zenon, <1>0, <2>1, <2>2 DEF Announced
    <2>3. CASE h # k
      <3>1. Announced(h)
        BY Zenon, <1>0, <1>2, <2>1, <2>3
      <3>2. \A u \in DOMAIN sending : sending[u] = h => u \in DOMAIN sending' /\ sending'[u] = h
        BY Zenon, <1>0, <2>1
      <3> QED BY Zenon, <2>1, <3>1, <3>2 DEF Announced
    <2> QED BY Zenon, <2>2, <2>3
  <1>5. ASSUME NEW s \in Threads, SendWrite(s) PROVE Announced(h)'
    BY Zenon, <1>5 DEF SendWrite, SendInv, Announced
  <1>18. ASSUME NEW s \in Threads, NEW k \in Asyncs, Send(s, k) PROVE Announced(h)'
    BY Zenon, <1>4, <1>18 DEF Send
  <1>19. ASSUME NEW s \in Threads, NEW r \in Reqs, WorkerDone(s, r) PROVE Announced(h)'
    <2>1. sending[s] = NoHandle /\ UNCHANGED <<async_fd, pc, queue>>
      BY Zenon, <1>19 DEF WorkerDone
    <2>2. \/ UNCHANGED <<pending, sending>>
          \/ /\ pending' = [pending EXCEPT ![WqAsync] = 1]
             /\ sending' = [sending EXCEPT ![s] = WqAsync]
      BY Zenon, <1>19 DEF WorkerDone
    <2>3. CASE UNCHANGED <<pending, sending>>
      BY Zenon, <1>3, <2>1, <2>3
    <2> QED BY Zenon, <1>4, <2>1, <2>2, <2>3, HandlesAssumption
  <1>6. CASE AsyncIo
    <2>1. /\ pc = "poll" /\ pc' = "async" /\ queue' = async_handles
      BY Zenon, <1>6 DEF AsyncIo, At
    <2>2. In(async_handles, h)
      <3>1. Linked(h)
        BY Zenon, <1>0, <1>1 DEF SendInv, LinkedInv
      <3> QED BY Zenon, <2>1, <3>1, LinkedByType
    <2>3. Member(async_handles, h)
      BY Zenon, <2>2, MemberIs DEF LoopInv, AsyncsOK, Holds
    <2> QED BY Zenon, <2>1, <2>3 DEF Announced
  <1>7. CASE AsyncNext
    <2> DEFINE k == Head(queue)
    <2>1. /\ queue # <<>> /\ queue' = Tail(queue) /\ pending' = [pending EXCEPT ![k] = 0]
          /\ UNCHANGED <<async_fd, sending, pc>>
      BY Zenon, <1>7 DEF AsyncNext
    <2>2. /\ Tail(queue) \in Seq(Handles)
          /\ \A r : In(Tail(queue), r) <=> In(queue, r) /\ r # k
      BY Zenon, <1>0, <2>1, TailIn
    <2> HIDE DEF k
    <2>3. h # k /\ pending[h] = 1
      <3>1. h = k => pending'[h] = 0
        BY Zenon, <1>0, <2>1
      <3>2. h # k
        BY <3>1
      <3> QED BY Zenon, <1>0, <2>1, <3>2
    <2>4. Member(queue, h) => Member(queue', h)
      BY Zenon, <1>0, <2>1, <2>2, <2>3, MemberIs
    <2> QED BY Zenon, <1>3, <2>1, <2>3, <2>4
  <1>8. ASSUME NEW k \in Asyncs, AsyncInit(k) PROVE Announced(h)'
    <2>1. /\ pending' = [pending EXCEPT ![k] = 0] /\ UNCHANGED <<sending, pc, queue>>
          /\ async_fd = "readable" => async_fd' = "readable"
      BY Zenon, <1>8 DEF AsyncInit
    <2>2. h # k
      <3>1. h = k => pending'[h] = 0
        BY Zenon, <1>0, <2>1
      <3> QED BY <3>1
    <2>3. pending[h] = 1
      BY Zenon, <1>0, <2>1, <2>2
    <2> QED BY Zenon, <1>3, <2>1, <2>3
  <1>9. CASE LoopClose
    BY Zenon, <1>9, FdStep DEF Open
  <1>10. ASSUME NEW k \in Handles, IdleStop(k) \/ CloseIdle(k) \/ CloseAsync(k), k # h
         PROVE  Announced(h)'
    <2>1. queue' = Remove(queue, k) /\ UNCHANGED <<pending, async_fd, sending, pc>>
      BY Zenon, <1>10 DEF IdleStop, CloseIdle, CloseAsync
    <2>2. /\ Remove(queue, k) \in Seq(Handles)
          /\ \A r : In(Remove(queue, k), r) <=> In(queue, r) /\ r # k
      BY Zenon, <1>0, RemoveIn DEF Remove
    <2>3. Member(queue, h) => Member(queue', h)
      BY Zenon, <1>0, <1>10, <2>1, <2>2, MemberIs
    <2> QED BY Zenon, <1>3, <2>1, <2>3
  <1>11. ~CloseAsync(h)
    <2> SUFFICES ASSUME CloseAsync(h) PROVE FALSE
      OBVIOUS
    <2> DEFINE x == SetFlag(hs, h, "closing")
    <2>1. hs' = HandleStop(x, h)
      BY Zenon DEF CloseAsync
    <2>2. Sets(hs, x, h, hs.flags[h] \cup {"closing"})
      BY Zenon, <1>0, SetFlagExact DEF LoopInv
    <2> HIDE DEF x
    <2>3. Exact(x) /\ x.flags[h] = hs.flags[h] \cup {"closing"}
      BY Zenon, <2>2 DEF Sets
    <2>4. Sets(x, HandleStop(x, h), h, x.flags[h] \ {"active"})
      BY Zenon, <1>0, <2>3, StopExact
    <2>5. hs'.flags[h] = x.flags[h] \ {"active"}
      BY Zenon, <2>1, <2>4 DEF Sets
    <2>6. "closing" \in hs'.flags[h]
      BY SMT, <2>3, <2>5
    <2> QED BY Zenon, <2>6 DEF Open, IsClosing
  <1>12. ASSUME UNCHANGED <<pending, async_fd, sending>>,
                \/ UNCHANGED <<pc, queue>>
                \/ pc # "async"
                \/ queue = <<>>
         PROVE  Announced(h)'
    <2>1. ~Member(<<>>, h)
      BY EmptyIn DEF Member
    <2> QED BY Zenon, <1>3, <1>12, <2>1
  <1>13. CASE \/ \E t \in Timers : \/ TimerInit(t) \/ TimerDeinit(t) \/ TimerStart(t)
                                   \/ TimerStop(t) \/ TimerAgain(t) \/ TimerSetRepeat(t)
                                   \/ CloseTimer(t)
              \/ \E k \in Idles : IdleInit(k) \/ IdleStart(k)
              \/ \E k \in Handles \ {WqAsync} : Ref(k) \/ Unref(k)
              \/ \E r \in Reqs : QueueWork(r) \/ FeedRequest(r)
              \/ Stop \/ UpdateTime
    BY Zenon, <1>12, <1>13 DEF TimerInit, TimerDeinit, TimerStart, TimerStop, TimerAgain,
       TimerSetRepeat, CloseTimer, IdleInit, IdleStart, Ref, Unref, Stop, UpdateTime,
       QueueWork, FeedRequest
  <1>14. CASE \/ FireTimer \/ TimersDone \/ PendingDone \/ RunIdle \/ IdleDone
              \/ PollNothing \/ PollTimesOut
              \/ AsyncDone \/ FinishClose \/ CloseDone \/ OnceDone \/ RunBegin
              \/ PollInterrupted
    <2>1. UNCHANGED <<pending, async_fd, sending>>
      BY Zenon, <1>14 DEF FireTimer, TimersDone, PendingDone, RunIdle, IdleDone, PollNothing,
         PollTimesOut, AsyncDone, FinishClose, CloseDone, OnceDone, RunBegin, PollInterrupted
    <2>2. pc # "async" \/ queue = <<>>
      BY Zenon, <1>14 DEF FireTimer, TimersDone, PendingDone, RunIdle, IdleDone, PollNothing,
         PollTimesOut, AsyncDone, FinishClose, CloseDone, OnceDone, RunBegin, PollInterrupted,
         At
    <2> QED BY Zenon, <1>12, <2>1, <2>2
  <1>15. CASE CallbackReturns \/ RequestDone \/ WorkDone \/ RunNothing \/ Tick \/ UNCHANGED vars
    BY Zenon, <1>12, <1>15 DEF CallbackReturns, RequestDone, WorkDone, RunNothing, Tick, vars
  <1>16. ASSUME NEW k \in Idles, IdleStop(k) \/ CloseIdle(k) PROVE Announced(h)'
    BY Zenon, <1>10, <1>16, TypesAreApart DEF TypesApart
  <1>17. ASSUME NEW k \in Asyncs, CloseAsync(k) PROVE Announced(h)'
    BY Zenon, <1>10, <1>11, <1>17, TypesAreApart DEF TypesApart
  <1> QED BY Zenon, <1>5, <1>6, <1>7, <1>8, <1>9, <1>13, <1>14, <1>15, <1>16, <1>17, <1>18, <1>19
          DEF Next, UserCall, LoopStep, ThreadStep

\* A send whose callback is outstanding will wake the loop, and no send meets a
\* closed eventfd (async.c:84-93, 102-124, 171-202), unless uv_loop_close is called
\* while handles are open.
THEOREM SendsAreKept == ASSUME ~CloseEarly PROVE Spec => []SendsKept
  <1>1. Init => SendInv
    <2> SUFFICES ASSUME Init PROVE SendInv
      OBVIOUS
    <2>1. hs.flags = [h \in Handles |-> IF h = WqAsync THEN {"active", "internal"} ELSE {}]
      BY DEF Init
    <2>2. \A h \in Asyncs : Open(h) => IsActive(hs, h)
      BY <2>1 DEF Init, Open, IsActive, Handles
    <2>3. NoLostSend
      BY DEF Init, NoLostSend
    <2> QED BY <2>2, <2>3 DEF Init, SendInv
  <1>2. LoopInv /\ LinkedInv /\ RestInv /\ SendInv /\ [Next]_vars => SendInv'
    <2> SUFFICES ASSUME LoopInv, LinkedInv, RestInv, SendInv, [Next]_vars PROVE SendInv'
      OBVIOUS
    <2>1. ASSUME NEW h \in Asyncs, Open(h)' PROVE IsActive(hs', h)
      BY Zenon, <2>1, AllStayOpen DEF StaysOpen, SendInv
    <2>2. NoLostSend'
      BY Zenon, AnnouncedNext DEF NoLostSend, Announced
    <2> QED BY Zenon, <2>1, <2>2, FdStep DEF SendInv
  <1>3. SendInv => SendsKept
    BY Zenon DEF SendInv, SendsKept, NeverAborts
  <1> QED BY <1>1, <1>2, <1>3, LoopInvariance, LinkedInvariance, RestInvariance, PTL DEF Spec
=============================================================================
