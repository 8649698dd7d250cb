-------------------------- MODULE ThreadPoolProofs --------------------------
(***************************************************************************)
(* Proofs about ThreadPool, for any number of workers, loops and requests: *)
(* types, and the count of idle workers.                                   *)
(***************************************************************************)
EXTENDS ThreadPool, FiniteSetTheorems, TLAPS

-----------------------------------------------------------------------------
(***************************************************************************)
(* Queues of request nodes.  In(q, r): node r is linked into q.            *)
(* Once(q): no request node occurs twice.                                  *)
(***************************************************************************)
In(q, r) == \E i \in 1..Len(q) : q[i] = r
Once(q) == \A i, j \in 1..Len(q) : q[i] = q[j] /\ q[i] \in Reqs => i = j

\* QUEUE_INSERT_TAIL adds exactly its node.
LEMMA AppendIn ==
    ASSUME NEW S, NEW q \in Seq(S), NEW x \in S
    PROVE  /\ Append(q, x) \in Seq(S)
           /\ \A r : In(Append(q, x), r) <=> In(q, r) \/ r = x
           /\ Once(q) /\ ~In(q, x) => Once(Append(q, x))
           /\ Once(q) /\ x \notin Reqs => Once(Append(q, x))
  <1>1. Append(q, x) \in Seq(S) /\ Len(Append(q, x)) = Len(q) + 1
    OBVIOUS
  <1>2. /\ \A i \in 1..Len(q) : Append(q, x)[i] = q[i]
        /\ Append(q, x)[Len(q) + 1] = x
    OBVIOUS
  <1>3. Len(q) \in Nat
    OBVIOUS
  <1>4. ASSUME NEW r PROVE In(Append(q, x), r) <=> In(q, r) \/ r = x
    <2>1. In(Append(q, x), r) => In(q, r) \/ r = x
      BY <1>1, <1>2, <1>3 DEF In
    <2>2. In(q, r) => In(Append(q, x), r)
      BY <1>1, <1>2, <1>3 DEF In
    <2>3. r = x => In(Append(q, x), r)
      BY <1>1, <1>2, <1>3 DEF In
    <2> QED BY Zenon, <2>1, <2>2, <2>3
  <1>5. Once(q) /\ ~In(q, x) => Once(Append(q, x))
    BY <1>1, <1>2, <1>3 DEF In, Once
  <1>6. Once(q) /\ x \notin Reqs => Once(Append(q, x))
    BY <1>1, <1>2, <1>3 DEF In, Once
  <1> QED BY Zenon, <1>1, <1>4, <1>5, <1>6

\* Taking the head of a queue removes exactly that node.
LEMMA TailIn ==
    ASSUME NEW S, NEW q \in Seq(S), q # <<>>
    PROVE  /\ Head(q) \in S /\ In(q, Head(q))
           /\ Tail(q) \in Seq(S)
           /\ \A r : In(Tail(q), r) => In(q, r)
           /\ \A r : In(q, r) /\ r # Head(q) => In(Tail(q), r)
           /\ Once(q) => Once(Tail(q))
           /\ Once(q) /\ Head(q) \in Reqs => ~In(Tail(q), Head(q))
  <1>1. Len(q) \in Nat /\ Len(q) > 0 /\ Head(q) = q[1] /\ Head(q) \in S
    OBVIOUS
  <1>2. Tail(q) \in Seq(S) /\ Len(Tail(q)) = Len(q) - 1
    OBVIOUS
  <1>3. \A i \in 1..Len(Tail(q)) : Tail(q)[i] = q[i + 1]
    OBVIOUS
  <1>4. \A i \in 1..Len(Tail(q)) : i + 1 \in 1..Len(q) /\ i + 1 # 1
    BY <1>1, <1>2
  <1>5. 1 \in 1..Len(q)
    BY <1>1
  <1>6. In(q, Head(q))
    BY Zenon, <1>1, <1>5 DEF In
  <1>7. \A r : In(Tail(q), r) => In(q, r)
    BY Zenon, <1>3, <1>4 DEF In
  <1>8. Once(q) => Once(Tail(q))
    <2> SUFFICES ASSUME Once(q), NEW i \in 1..Len(Tail(q)), NEW j \in 1..Len(Tail(q)),
                        Tail(q)[i] = Tail(q)[j], Tail(q)[i] \in Reqs
                 PROVE  i = j
      BY Zenon DEF Once
    <2>1. i + 1 = j + 1
      BY Zenon, <1>3, <1>4 DEF Once
    <2> QED BY <2>1
  <1>9. Once(q) /\ Head(q) \in Reqs => ~In(Tail(q), Head(q))
    BY Zenon, <1>1, <1>3, <1>4, <1>5 DEF Once, In
  <1>10. \A r : In(q, r) /\ r # Head(q) => In(Tail(q), r)
    <2> SUFFICES ASSUME NEW r, NEW j \in 1..Len(q), q[j] = r, r # Head(q) PROVE In(Tail(q), r)
      BY Zenon DEF In
    <2>1. j # 1
      BY Zenon, <1>1
    <2>2. j - 1 \in 1..Len(Tail(q)) /\ (j - 1) + 1 = j
      BY <1>1, <1>2, <2>1
    <2>3. Tail(q)[j - 1] = r
      BY Zenon, <1>3, <2>2
    <2> QED BY Zenon, <2>2, <2>3 DEF In
  <1> QED BY Zenon, <1>1, <1>2, <1>6, <1>7, <1>8, <1>9, <1>10

\* u is q without its k-th entry.
Without(q, u, k) ==
    /\ Len(u) = Len(q) - 1
    /\ \A i \in 1..Len(u) : u[i] = IF i < k THEN q[i] ELSE q[i + 1]

\* QUEUE_REMOVE closes the gap that its node leaves.
LEMMA UnlinkAt ==
    ASSUME NEW S, NEW q \in Seq(S), NEW x, In(q, x)
    PROVE  /\ Unlink(q, x) \in Seq(S)
           /\ \E k \in 1..Len(q) : q[k] = x /\ Without(q, Unlink(q, x), k)
  <1> DEFINE k == CHOOSE i \in 1..Len(q) : q[i] = x
             u == SubSeq(q, 1, k - 1) \o SubSeq(q, k + 1, Len(q))
  <1>1. k \in 1..Len(q) /\ q[k] = x
    BY Zenon DEF In
  <1>2. Unlink(q, x) = u
    BY Zenon DEF Unlink, In
  <1> HIDE DEF k
  <1>3. u = SubSeq(q, 1, k - 1) \o SubSeq(q, k + 1, Len(q))
    OBVIOUS
  <1> HIDE DEF u
  <1>4. Len(q) \in Nat
    OBVIOUS
  <1>5. /\ SubSeq(q, 1, k - 1) \in Seq(S) /\ Len(SubSeq(q, 1, k - 1)) = k - 1
        /\ \A i \in 1..k - 1 : SubSeq(q, 1, k - 1)[i] = q[i]
    BY <1>1, <1>4
  <1>6. /\ SubSeq(q, k + 1, Len(q)) \in Seq(S)
        /\ Len(SubSeq(q, k + 1, Len(q))) = Len(q) - k
        /\ \A i \in 1..Len(q) - k : SubSeq(q, k + 1, Len(q))[i] = q[k + i]
    BY <1>1, <1>4
  <1> DEFINE a == SubSeq(q, 1, k - 1)
             b == SubSeq(q, k + 1, Len(q))
  <1>7. u = a \o b
    BY Zenon, <1>3
  <1>8. a \in Seq(S) /\ b \in Seq(S) /\ Len(a) = k - 1 /\ Len(b) = Len(q) - k
    BY Zenon, <1>5, <1>6
  <1>9. \A i \in 1..k - 1 : a[i] = q[i]
    BY Zenon, <1>5
  <1>10. \A i \in 1..Len(q) - k : b[i] = q[k + i]
    BY Zenon, <1>6
  <1> HIDE DEF a, b
  <1>11. /\ a \o b \in Seq(S)
         /\ Len(a \o b) = Len(a) + Len(b)
         /\ \A i \in 1..Len(a) + Len(b) :
               (a \o b)[i] = IF i <= Len(a) THEN a[i] ELSE b[i - Len(a)]
    BY SMTT(60), <1>8
  <1>12. Len(u) = Len(q) - 1
    BY <1>1, <1>4, <1>7, <1>8, <1>11
  <1>13. ASSUME NEW i \in 1..Len(u) PROVE u[i] = IF i < k THEN q[i] ELSE q[i + 1]
    <2>1. i \in 1..Len(q) - 1 /\ i \in 1..Len(a) + Len(b)
      BY <1>1, <1>4, <1>8, <1>12
    <2>2. CASE i < k
      BY <1>1, <1>4, <1>7, <1>8, <1>9, <1>11, <2>1, <2>2
    <2>3. CASE ~(i < k)
      <3>1. u[i] = b[i - (k - 1)] /\ i - (k - 1) \in 1..Len(q) - k
        BY SMTT(60), <1>1, <1>4, <1>7, <1>8, <1>11, <2>1, <2>3
      <3>2. k + (i - (k - 1)) = i + 1
        BY <1>1, <2>1
      <3> QED BY Zenon, <1>10, <2>3, <3>1, <3>2
    <2> QED BY Zenon, <2>2, <2>3
  <1>14. Unlink(q, x) \in Seq(S)
    BY Zenon, <1>2, <1>7, <1>11
  <1>15. Without(q, u, k)
    BY Zenon, <1>12, <1>13 DEF Without
  <1> QED BY Zenon, <1>1, <1>2, <1>14, <1>15

\* QUEUE_REMOVE removes exactly its node.
LEMMA UnlinkIn ==
    ASSUME NEW S, NEW q \in Seq(S), NEW x
    PROVE  /\ Unlink(q, x) \in Seq(S)
           /\ Len(Unlink(q, x)) \in Nat /\ Len(Unlink(q, x)) <= Len(q)
           /\ \A r : In(Unlink(q, x), r) => In(q, r)
           /\ \A r : In(q, r) /\ r # x => In(Unlink(q, x), r)
           /\ Once(q) => Once(Unlink(q, x))
           /\ Once(q) /\ x \in Reqs => ~In(Unlink(q, x), x)
  <1>1. Len(q) \in Nat /\ Len(q) <= Len(q)
    OBVIOUS
  <1>2. CASE ~In(q, x)
    BY Zenon, <1>1, <1>2 DEF Unlink, In
  <1>3. CASE In(q, x)
    <2> DEFINE u == Unlink(q, x)
    <2>0. u \in Seq(S) /\ \E k \in 1..Len(q) : q[k] = x /\ Without(q, u, k)
      BY Zenon, <1>3, UnlinkAt
    <2>1. PICK k \in 1..Len(q) : q[k] = x /\ Without(q, u, k)
      BY Zenon, <2>0
    <2> DEFINE at(i) == IF i < k THEN i ELSE i + 1
               back(j) == IF j < k THEN j ELSE j - 1
    <2> HIDE DEF u
    <2>2. \A i \in 1..Len(u) : u[i] = q[at(i)] /\ at(i) \in 1..Len(q) /\ at(i) # k
      BY <1>1, <2>1 DEF Without
    <2>3. \A i, j \in 1..Len(u) : at(i) = at(j) => i = j
      BY <1>1, <2>1 DEF Without
    <2>4. \A j \in 1..Len(q) : j # k => back(j) \in 1..Len(u) /\ at(back(j)) = j
      BY <1>1, <2>1 DEF Without
    <2>5. Len(u) \in Nat /\ Len(u) <= Len(q)
      BY <1>1, <2>1 DEF Without
    <2> HIDE DEF at, back
    <2>6. \A r : In(u, r) => In(q, r)
      BY Zenon, <2>2 DEF In
    <2>7. \A r : In(q, r) /\ r # x => In(u, r)
      <3> SUFFICES ASSUME NEW r, NEW j \in 1..Len(q), q[j] = r, r # x PROVE In(u, r)
        BY Zenon DEF In
      <3>1. j # k
        BY Zenon, <2>1
      <3>2. back(j) \in 1..Len(u) /\ at(back(j)) = j
        BY Zenon, <2>4, <3>1
      <3>3. u[back(j)] = r
        BY Zenon, <2>2, <3>2
      <3> QED BY Zenon, <3>2, <3>3 DEF In
    <2>8. Once(q) => Once(u)
      BY Zenon, <2>2, <2>3 DEF Once
    <2>9. Once(q) /\ x \in Reqs => ~In(u, x)
      <3> SUFFICES ASSUME Once(q), x \in Reqs, NEW i \in 1..Len(u), u[i] = x PROVE FALSE
        BY Zenon DEF In
      <3>1. q[at(i)] = q[k] /\ at(i) \in 1..Len(q) /\ at(i) # k
        BY Zenon, <2>1, <2>2
      <3> QED BY Zenon, <2>1, <3>1 DEF Once
    <2> QED BY Zenon, <2>0, <2>5, <2>6, <2>7, <2>8, <2>9 DEF u
  <1> QED BY Zenon, <1>2, <1>3

LEMMA UnlinkSeq == ASSUME NEW S, NEW q \in Seq(S), NEW x PROVE Unlink(q, x) \in Seq(S)
  BY Zenon, UnlinkIn

-----------------------------------------------------------------------------
(***************************************************************************)
(* Type correctness.  idle_threads stays a natural number only because it  *)
(* counts the sleeping workers exactly, and cur is a request only at the   *)
(* labels where the code holds one, so these facts are proved together.    *)
(***************************************************************************)
BusyPcs == {"call", "exec", "finish", "send", "write", "unlock", "post", "posting",
            "cancel", "cancel_loop", "cancel_test", "cancelled", "requeue", "requeueing"}

\* A thread works on a request of its own loop while it is inside a call.
CurOK == \A t \in Threads : pc[t] \in BusyPcs =>
            cur[t] \in Reqs /\ (t \in Loops => LoopOf[cur[t]] = t)

\* A worker has been created iff it has a program counter, and is in the
\* condition variable's wait set iff it is at the wait.
WorkersOK == \A w \in Workers : /\ w \in threads <=> pc[w] # "none"
                                /\ w \in waiting <=> pc[w] = "waiting"

Asleep == {w \in Workers : pc[w] \in {"waiting", "woken"}}

TypeInv == TypeOK /\ CurOK /\ WorkersOK /\ IdleCountExact

LEMMA AsleepFinite == IsFiniteSet(Asleep) /\ Cardinality(Asleep) \in Nat
  <1>1. IsFiniteSet(Asleep)
    BY Zenon, ThreadsAssumption, FS_Subset DEF Asleep
  <1> QED BY Zenon, <1>1, FS_CardinalityType

LEMMA TypeInvInit == Init => TypeInv
  <1> SUFFICES ASSUME Init PROVE TypeInv
    OBVIOUS
  <1> USE ThreadsAssumption, ReqsAssumption DEF Init
  <1>1. TypeOK
    BY DEF TypeOK, Threads, WorkerPcs, LoopPcs
  <1>2. CurOK
    BY Zenon DEF CurOK, BusyPcs, Threads
  <1>3. WorkersOK
    BY Zenon DEF WorkersOK, Threads
  <1>4. IdleCountExact
    <2>1. {w \in Workers : pc[w] \in {"waiting", "woken"}} = {}
      BY Zenon DEF Threads
    <2> QED BY Zenon, <2>1, FS_EmptySet DEF IdleCountExact
  <1> QED BY Zenon, <1>1, <1>2, <1>3, <1>4 DEF TypeInv

\* What uv_cond_signal does to the program counters, in a step that also moves
\* thread t to a label: only workers that leave the wait set change, to "woken".
Signalled(t, label) ==
    /\ waiting' \subseteq waiting
    /\ pc' \in [Threads -> WorkerPcs \cup LoopPcs]
    /\ pc'[t] = label
    /\ \A u \in Threads \ {t} : pc'[u] = IF u \in waiting \ waiting' THEN "woken" ELSE pc[u]

LEMMA CondSignalStep ==
    ASSUME TypeInv, NEW t \in Threads, pc[t] # "waiting",
           NEW label \in WorkerPcs \cup LoopPcs, CondSignal([pc EXCEPT ![t] = label])
    PROVE  Signalled(t, label)
  <1> USE ThreadsAssumption DEF TypeInv, TypeOK, WorkersOK, Threads, Signalled
  <1> DEFINE next == [pc EXCEPT ![t] = label]
  <1>1. /\ next \in [Threads -> WorkerPcs \cup LoopPcs]
        /\ next[t] = label
        /\ \A u \in Threads \ {t} : next[u] = pc[u]
        /\ t \notin waiting
    OBVIOUS
  <1> HIDE DEF next
  <1>2. CASE waiting = {}
    BY Zenon, <1>1, <1>2 DEF CondSignal, next
  <1>3. CASE waiting # {}
    <2>1. PICK w \in waiting : waiting' = waiting \ {w} /\ pc' = [next EXCEPT ![w] = "woken"]
      BY Zenon, <1>3 DEF CondSignal, next
    <2>2. w \in Threads /\ w # t /\ waiting \ waiting' = {w}
      BY <1>1, <2>1
    <2>3. /\ pc' \in [Threads -> WorkerPcs \cup LoopPcs]
          /\ pc'[w] = "woken"
          /\ \A u \in Threads \ {w} : pc'[u] = next[u]
      BY Zenon, <1>1, <2>1, <2>2 DEF WorkerPcs
    <2> QED BY Zenon, <1>1, <2>1, <2>2, <2>3
  <1> QED BY Zenon, <1>2, <1>3

LEMMA PostStep ==
    ASSUME TypeInv, NEW t \in Threads, pc[t] # "waiting", NEW q,
           NEW label \in WorkerPcs \cup LoopPcs, Post(q, [pc EXCEPT ![t] = label])
    PROVE  Signalled(t, label) /\ wq' = Append(wq, q)
  <1>1. CASE idle_threads > 0
    BY Zenon, <1>1, CondSignalStep DEF Post
  <1>2. CASE ~(idle_threads > 0)
    BY ZenonT(60), <1>2 DEF Post, Signalled, TypeInv, TypeOK, Threads
  <1> QED BY Zenon, <1>1, <1>2 DEF Post

\* A signal keeps the wait set in step with the program counters.
LEMMA SignalledWorkers ==
    ASSUME TypeInv, NEW t \in Threads, NEW label \in WorkerPcs \cup LoopPcs, Signalled(t, label),
           pc[t] \notin {"none", "waiting"}, label \notin {"none", "waiting"}
    PROVE  \A x \in Workers : /\ pc'[x] = "none" <=> pc[x] = "none"
                              /\ x \in waiting' <=> pc'[x] = "waiting"
  <1> SUFFICES ASSUME NEW x \in Workers
               PROVE  /\ pc'[x] = "none" <=> pc[x] = "none"
                      /\ x \in waiting' <=> pc'[x] = "waiting"
    OBVIOUS
  <1>1. waiting' \subseteq waiting /\ (x \in waiting <=> pc[x] = "waiting") /\ x \in Threads
    BY Zenon DEF Signalled, TypeInv, WorkersOK, Threads
  <1>2. CASE x = t
    BY Zenon, <1>1, <1>2 DEF Signalled
  <1>3. CASE x # t
    BY Zenon, <1>1, <1>3 DEF Signalled
  <1> QED BY Zenon, <1>2, <1>3

LEMMA TypeInvNext == TypeInv /\ [Next]_vars => TypeInv'
  <1> SUFFICES ASSUME TypeInv, [Next]_vars PROVE TypeInv'
    OBVIOUS
  <1> USE ThreadsAssumption, ReqsAssumption
           DEF TypeInv, TypeOK, CurOK, WorkersOK, Threads, BusyPcs, WorkerPcs, LoopPcs,
               poolVars, loopVars, reqVars, asyncVars, ctlVars, Goto
  <1>1. ASSUME NEW w \in Workers, WorkerLock(w)
        PROVE  /\ (TypeOK /\ CurOK /\ WorkersOK)'
               /\ idle_threads' = idle_threads /\ Asleep' = Asleep
    BY SMTT(60), <1>1 DEF WorkerLock, Asleep
  <1>2. ASSUME NEW w \in Workers, WorkerWait(w)
        PROVE  /\ (TypeOK /\ CurOK /\ WorkersOK)'
               /\ idle_threads' = idle_threads + 1 /\ w \notin Asleep /\ Asleep' = Asleep \cup {w}
    BY SMTT(60), <1>2 DEF WorkerWait, Asleep
  <1>3. ASSUME NEW w \in Workers, SpuriousWakeup(w)
        PROVE  /\ (TypeOK /\ CurOK /\ WorkersOK)'
               /\ idle_threads' = idle_threads /\ Asleep' = Asleep
    BY SMTT(60), <1>3 DEF SpuriousWakeup, Asleep
  <1>4. ASSUME NEW w \in Workers, WorkerWoken(w)
        PROVE  /\ (TypeOK /\ CurOK /\ WorkersOK)'
               /\ idle_threads' = idle_threads - 1 /\ w \in Asleep /\ Asleep' = Asleep \ {w}
    <2>1. w \in Asleep /\ Asleep' = Asleep \ {w}
      BY SMTT(60), <1>4 DEF WorkerWoken, Asleep
    <2>2. Cardinality(Asleep) > 0
      BY SMTT(60), <2>1, AsleepFinite, FS_EmptySet
    <2>3. idle_threads' \in Nat
      BY SMTT(60), <1>4, <2>2, AsleepFinite DEF WorkerWoken, IdleCountExact, Asleep
    <2> QED BY Zenon, <1>4, <2>1, <2>3 DEF WorkerWoken
  <1>5. ASSUME NEW w \in Workers, WorkerTake(w)
        PROVE  /\ (TypeOK /\ CurOK /\ WorkersOK)'
               /\ idle_threads' = idle_threads /\ Asleep' = Asleep
    BY SMTT(60), <1>5 DEF WorkerTake, Asleep
  <1>6. ASSUME NEW w \in Workers, WorkerExit(w)
        PROVE  /\ (TypeOK /\ CurOK /\ WorkersOK)'
               /\ idle_threads' = idle_threads /\ Asleep' = Asleep
    <2>1. w \in Threads /\ pc[w] # "waiting" /\ "exited" \in WorkerPcs \cup LoopPcs
      BY Zenon, <1>6 DEF WorkerExit
    <2>2. Signalled(w, "exited")
      BY Zenon, <1>6, <2>1, CondSignalStep DEF WorkerExit
    <2>3. /\ pc' \in [Threads -> WorkerPcs \cup LoopPcs]
          /\ \A x \in Workers : pc'[x] \in WorkerPcs
          /\ \A x \in Loops : pc'[x] \in LoopPcs
      BY ZenonT(60), <1>6, <2>1, <2>2 DEF WorkerExit, Signalled
    <2>4. TypeOK'
      BY Zenon, <1>6, <2>2, <2>3 DEF WorkerExit, Signalled
    <2>5. CurOK'
      BY ZenonT(60), <1>6, <2>2 DEF WorkerExit, Signalled
    <2>6. \A x \in Workers : /\ pc'[x] = "none" <=> pc[x] = "none"
                             /\ x \in waiting' <=> pc'[x] = "waiting"
      BY Zenon, <1>6, <2>1, <2>2, SignalledWorkers DEF WorkerExit
    <2>7. WorkersOK'
      BY Zenon, <1>6, <2>6 DEF WorkerExit
    <2>8. Asleep' = Asleep
      BY Zenon, <1>6, <2>2 DEF WorkerExit, Signalled, Asleep
    <2> QED BY Zenon, <1>6, <2>4, <2>5, <2>7, <2>8 DEF WorkerExit
  <1>7. ASSUME NEW w \in Workers, WorkerCall(w)
        PROVE  /\ (TypeOK /\ CurOK /\ WorkersOK)'
               /\ idle_threads' = idle_threads /\ Asleep' = Asleep
    <2>1. CASE work[cur[w]] = "fn"
      <3>1. pc' = [pc EXCEPT ![w] = "exec"] /\ ran' \subseteq Reqs
        BY SMTT(60), <1>7, <2>1 DEF WorkerCall
      <3> QED BY SMTT(60), <1>7, <3>1 DEF WorkerCall, Asleep
    <2>2. CASE work[cur[w]] # "fn"
      <3>1. pc' = [pc EXCEPT ![w] = "aborted"] /\ UNCHANGED ran
        BY Zenon, <1>7, <2>2 DEF WorkerCall
      <3> QED BY SMTT(60), <1>7, <3>1 DEF WorkerCall, Asleep
    <2> QED BY Zenon, <2>1, <2>2
  <1>8. ASSUME NEW w \in Workers, WorkerLockLoop(w)
        PROVE  /\ (TypeOK /\ CurOK /\ WorkersOK)'
               /\ idle_threads' = idle_threads /\ Asleep' = Asleep
    BY SMTT(60), <1>8 DEF WorkerLockLoop, Asleep
  <1>9. ASSUME NEW w \in Workers, WorkerFinish(w)
        PROVE  /\ (TypeOK /\ CurOK /\ WorkersOK)'
               /\ idle_threads' = idle_threads /\ Asleep' = Asleep
    <2>1. loop_wq' \in [Loops -> Seq(Reqs)]
      BY <1>9 DEF WorkerFinish
    <2> QED BY SMTT(60), <1>9, <2>1 DEF WorkerFinish, Asleep
  <1>10. ASSUME NEW t \in Threads, AsyncSend(t)
        PROVE  /\ (TypeOK /\ CurOK /\ WorkersOK)'
               /\ idle_threads' = idle_threads /\ Asleep' = Asleep
    BY SMTT(60), <1>10 DEF AsyncSend, Asleep
  <1>11. ASSUME NEW t \in Threads, AsyncWrite(t)
        PROVE  /\ (TypeOK /\ CurOK /\ WorkersOK)'
               /\ idle_threads' = idle_threads /\ Asleep' = Asleep
    <2>1. TypeOK' /\ idle_threads' = idle_threads
      BY <1>11 DEF AsyncWrite
    <2>2. CurOK'
      BY Zenon, <1>11 DEF AsyncWrite
    <2>3. WorkersOK' /\ Asleep' = Asleep
      BY <1>11 DEF AsyncWrite, Asleep
    <2> QED BY ZenonT(60), <2>1, <2>2, <2>3
  <1>12. ASSUME NEW t \in Threads, UnlockLoop(t)
        PROVE  /\ (TypeOK /\ CurOK /\ WorkersOK)'
               /\ idle_threads' = idle_threads /\ Asleep' = Asleep
    BY <1>12 DEF UnlockLoop, Asleep
  <1>13. ASSUME NEW l \in Loops, PostLock(l)
        PROVE  /\ (TypeOK /\ CurOK /\ WorkersOK)'
               /\ idle_threads' = idle_threads /\ Asleep' = Asleep
    BY SMTT(60), <1>13 DEF PostLock, Asleep
  <1>14. ASSUME NEW l \in Loops, PostInsert(l)
        PROVE  /\ (TypeOK /\ CurOK /\ WorkersOK)'
               /\ idle_threads' = idle_threads /\ Asleep' = Asleep
    <2>1. l \in Threads /\ pc[l] # "waiting" /\ "user" \in WorkerPcs \cup LoopPcs
      BY Zenon, <1>14 DEF PostInsert
    <2>2. Signalled(l, "user") /\ wq' = Append(wq, cur[l])
      BY ZenonT(60), <1>14, <2>1, PostStep DEF PostInsert
    <2>3. /\ pc' \in [Threads -> WorkerPcs \cup LoopPcs]
          /\ \A x \in Workers : pc'[x] \in WorkerPcs
          /\ \A x \in Loops : pc'[x] \in LoopPcs
      BY ZenonT(60), <1>14, <2>1, <2>2 DEF PostInsert, Signalled
    <2>4. TypeOK'
      BY SMTT(60), <1>14, <2>2, <2>3 DEF PostInsert, Signalled
    <2>5. CurOK'
      BY ZenonT(60), <1>14, <2>2 DEF PostInsert, Signalled
    <2>6. \A x \in Workers : /\ pc'[x] = "none" <=> pc[x] = "none"
                             /\ x \in waiting' <=> pc'[x] = "waiting"
      BY Zenon, <1>14, <2>1, <2>2, SignalledWorkers DEF PostInsert
    <2>7. WorkersOK'
      BY Zenon, <1>14, <2>6 DEF PostInsert
    <2>8. Asleep' = Asleep
      BY Zenon, <1>14, <2>2 DEF PostInsert, Signalled, Asleep
    <2> QED BY Zenon, <1>14, <2>4, <2>5, <2>7, <2>8 DEF PostInsert
  <1>15. ASSUME NEW l \in Loops, CancelLock(l)
        PROVE  /\ (TypeOK /\ CurOK /\ WorkersOK)'
               /\ idle_threads' = idle_threads /\ Asleep' = Asleep
    BY SMTT(60), <1>15 DEF CancelLock, Asleep
  <1>16. ASSUME NEW l \in Loops, CancelLockLoop(l)
        PROVE  /\ (TypeOK /\ CurOK /\ WorkersOK)'
               /\ idle_threads' = idle_threads /\ Asleep' = Asleep
    BY <1>16 DEF CancelLockLoop, Asleep
  <1>17. ASSUME NEW l \in Loops, CancelTest(l)
        PROVE  /\ (TypeOK /\ CurOK /\ WorkersOK)'
               /\ idle_threads' = idle_threads /\ Asleep' = Asleep
    <2>0. /\ Unlink(wq, cur[l]) \in Seq(Reqs \cup {ExitMsg})
          /\ Unlink(loop_wq[l], cur[l]) \in Seq(Reqs)
          /\ Unlink(local_wq[l], cur[l]) \in Seq(Reqs)
      <3>1. /\ wq \in Seq(Reqs \cup {ExitMsg})
            /\ loop_wq[l] \in Seq(Reqs) /\ local_wq[l] \in Seq(Reqs)
        BY ZenonT(60)
      <3> QED BY Zenon, <3>1, UnlinkSeq
    <2>1. /\ wq' \in Seq(Reqs \cup {ExitMsg})
          /\ loop_wq' \in [Loops -> Seq(Reqs)]
          /\ local_wq' \in [Loops -> Seq(Reqs)]
      <3>1. \/ /\ wq' = Unlink(wq, cur[l])
               /\ loop_wq' = [loop_wq EXCEPT ![l] = Unlink(loop_wq[l], cur[l])]
               /\ local_wq' = [local_wq EXCEPT ![l] = Unlink(local_wq[l], cur[l])]
            \/ UNCHANGED <<wq, loop_wq, local_wq>>
        BY Zenon, <1>17 DEF CancelTest
      <3>2. CASE UNCHANGED <<wq, loop_wq, local_wq>>
        BY Zenon, <3>2
      <3>3. CASE /\ wq' = Unlink(wq, cur[l])
                 /\ loop_wq' = [loop_wq EXCEPT ![l] = Unlink(loop_wq[l], cur[l])]
                 /\ local_wq' = [local_wq EXCEPT ![l] = Unlink(local_wq[l], cur[l])]
        <4>1. wq' \in Seq(Reqs \cup {ExitMsg})
          BY Zenon, <2>0, <3>3
        <4>2. loop_wq' \in [Loops -> Seq(Reqs)]
          BY Zenon, <2>0, <3>3
        <4>3. local_wq' \in [Loops -> Seq(Reqs)]
          BY Zenon, <2>0, <3>3
        <4> QED BY Zenon, <4>1, <4>2, <4>3
      <3> QED BY Zenon, <3>1, <3>2, <3>3
    <2>2. CASE linked[cur[l]] /\ work[cur[l]] # "null"
      <3>1. pc' = [pc EXCEPT ![l] = "cancelled"] /\ cur' = cur
        BY Zenon, <1>17, <2>2 DEF CancelTest
      <3>2. TypeOK'
        BY ZenonT(60), <1>17, <2>1, <3>1 DEF CancelTest
      <3>3. (CurOK /\ WorkersOK)' /\ Asleep' = Asleep
        BY SMTT(60), <1>17, <3>1 DEF CancelTest, Asleep
      <3> QED BY Zenon, <1>17, <3>2, <3>3 DEF CancelTest
    <2>3. CASE ~(linked[cur[l]] /\ work[cur[l]] # "null")
      <3>1. pc' = [pc EXCEPT ![l] = "user"] /\ cur' = [cur EXCEPT ![l] = NoReq]
        BY Zenon, <1>17, <2>3 DEF CancelTest
      <3>2. TypeOK'
        BY Zenon, <1>17, <2>1, <3>1 DEF CancelTest
      <3>3. (CurOK /\ WorkersOK)' /\ Asleep' = Asleep
        BY SMTT(60), <1>17, <3>1 DEF CancelTest, Asleep
      <3> QED BY Zenon, <1>17, <3>2, <3>3 DEF CancelTest
    <2> QED BY Zenon, <2>2, <2>3
  <1>18. ASSUME NEW l \in Loops, CancelMark(l)
        PROVE  /\ (TypeOK /\ CurOK /\ WorkersOK)'
               /\ idle_threads' = idle_threads /\ Asleep' = Asleep
    BY SMTT(60), <1>18 DEF CancelMark, Asleep
  <1>19. ASSUME NEW l \in Loops, CancelRelock(l)
        PROVE  /\ (TypeOK /\ CurOK /\ WorkersOK)'
               /\ idle_threads' = idle_threads /\ Asleep' = Asleep
    <2>1. TypeOK' /\ idle_threads' = idle_threads
      BY Zenon, <1>19 DEF CancelRelock
    <2>2. CurOK'
      BY Zenon, <1>19 DEF CancelRelock
    <2>3. WorkersOK' /\ Asleep' = Asleep
      BY <1>19 DEF CancelRelock, Asleep
    <2> QED BY Zenon, <2>1, <2>2, <2>3
  <1>20. ASSUME NEW l \in Loops, CancelInsert(l)
        PROVE  /\ (TypeOK /\ CurOK /\ WorkersOK)'
               /\ idle_threads' = idle_threads /\ Asleep' = Asleep
    BY <1>20 DEF CancelInsert, Asleep
  <1>21. ASSUME NEW l \in Loops, AsyncIo(l)
        PROVE  /\ (TypeOK /\ CurOK /\ WorkersOK)'
               /\ idle_threads' = idle_threads /\ Asleep' = Asleep
    BY SMTT(60), <1>21 DEF AsyncIo, Asleep
  <1>22. ASSUME NEW l \in Loops, AsyncEvent(l)
        PROVE  /\ (TypeOK /\ CurOK /\ WorkersOK)'
               /\ idle_threads' = idle_threads /\ Asleep' = Asleep
    BY <1>22 DEF AsyncEvent, Asleep
  <1>23. ASSUME NEW l \in Loops, WorkDoneLock(l)
        PROVE  /\ (TypeOK /\ CurOK /\ WorkersOK)'
               /\ idle_threads' = idle_threads /\ Asleep' = Asleep
    BY <1>23 DEF WorkDoneLock, Asleep
  <1>24. ASSUME NEW l \in Loops, WorkDoneMove(l)
        PROVE  /\ (TypeOK /\ CurOK /\ WorkersOK)'
               /\ idle_threads' = idle_threads /\ Asleep' = Asleep
    <2>1. TypeOK' /\ idle_threads' = idle_threads
      BY SMTT(60), <1>24 DEF WorkDoneMove
    <2>2. CurOK'
      BY Zenon, <1>24 DEF WorkDoneMove
    <2>3. WorkersOK' /\ Asleep' = Asleep
      BY <1>24 DEF WorkDoneMove, Asleep
    <2> QED BY Zenon, <2>1, <2>2, <2>3
  <1>25. ASSUME NEW l \in Loops, WorkDonePop(l)
        PROVE  /\ (TypeOK /\ CurOK /\ WorkersOK)'
               /\ idle_threads' = idle_threads /\ Asleep' = Asleep
    <2>1. Head(local_wq[l]) \in Reqs /\ Tail(local_wq[l]) \in Seq(Reqs)
      BY <1>25 DEF WorkDonePop
    <2>2. TypeOK'
      BY ZenonT(60), <1>25, <2>1 DEF WorkDonePop
    <2>3. (CurOK /\ WorkersOK)' /\ Asleep' = Asleep
      BY SMTT(60), <1>25 DEF WorkDonePop, Asleep
    <2> QED BY ZenonT(60), <1>25, <2>2, <2>3 DEF WorkDonePop
  <1>26. ASSUME NEW l \in Loops, CallbackReturns(l)
        PROVE  /\ (TypeOK /\ CurOK /\ WorkersOK)'
               /\ idle_threads' = idle_threads /\ Asleep' = Asleep
    <2>1. TypeOK' /\ idle_threads' = idle_threads
      BY Zenon, <1>26 DEF CallbackReturns
    <2>2. CurOK'
      BY Zenon, <1>26 DEF CallbackReturns
    <2>3. WorkersOK' /\ Asleep' = Asleep
      BY <1>26 DEF CallbackReturns, Asleep
    <2> QED BY Zenon, <2>1, <2>2, <2>3
  <1>27. ASSUME NEW l \in Loops, WorkDoneEnd(l)
        PROVE  /\ (TypeOK /\ CurOK /\ WorkersOK)'
               /\ idle_threads' = idle_threads /\ Asleep' = Asleep
    <2>1. TypeOK'
      BY Zenon, <1>27 DEF WorkDoneEnd
    <2>2. (CurOK /\ WorkersOK)' /\ Asleep' = Asleep
      BY SMTT(60), <1>27 DEF WorkDoneEnd, Asleep
    <2> QED BY Zenon, <1>27, <2>1, <2>2 DEF WorkDoneEnd
  <1>28. ASSUME NEW l \in Loops, Cleanup(l)
        PROVE  /\ (TypeOK /\ CurOK /\ WorkersOK)'
               /\ idle_threads' = idle_threads /\ Asleep' = Asleep
    <2>1. TypeOK' /\ idle_threads' = idle_threads
      BY Zenon, <1>28 DEF Cleanup
    <2>2. CurOK'
      BY Zenon, <1>28 DEF Cleanup
    <2>3. WorkersOK' /\ Asleep' = Asleep
      BY <1>28 DEF Cleanup, Asleep
    <2> QED BY Zenon, <2>1, <2>2, <2>3
  <1>29. ASSUME NEW l \in Loops, ExitLock(l)
        PROVE  /\ (TypeOK /\ CurOK /\ WorkersOK)'
               /\ idle_threads' = idle_threads /\ Asleep' = Asleep
    <2>1. TypeOK' /\ idle_threads' = idle_threads
      BY Zenon, <1>29 DEF ExitLock
    <2>2. CurOK'
      BY Zenon, <1>29 DEF ExitLock
    <2>3. WorkersOK' /\ Asleep' = Asleep
      BY <1>29 DEF ExitLock, Asleep
    <2> QED BY Zenon, <2>1, <2>2, <2>3
  <1>30. ASSUME NEW l \in Loops, ExitInsert(l)
        PROVE  /\ (TypeOK /\ CurOK /\ WorkersOK)'
               /\ idle_threads' = idle_threads /\ Asleep' = Asleep
    <2>1. l \in Threads /\ pc[l] # "waiting" /\ "join" \in WorkerPcs \cup LoopPcs
      BY Zenon, <1>30 DEF ExitInsert
    <2>2. Signalled(l, "join") /\ wq' = Append(wq, ExitMsg)
      BY ZenonT(60), <1>30, <2>1, PostStep DEF ExitInsert
    <2>3. /\ pc' \in [Threads -> WorkerPcs \cup LoopPcs]
          /\ \A x \in Workers : pc'[x] \in WorkerPcs
          /\ \A x \in Loops : pc'[x] \in LoopPcs
      BY ZenonT(60), <1>30, <2>1, <2>2 DEF ExitInsert, Signalled
    <2>4. TypeOK'
      BY SMTT(60), <1>30, <2>2, <2>3 DEF ExitInsert, Signalled
    <2>5. CurOK'
      BY ZenonT(60), <1>30, <2>2 DEF ExitInsert, Signalled
    <2>6. \A x \in Workers : /\ pc'[x] = "none" <=> pc[x] = "none"
                             /\ x \in waiting' <=> pc'[x] = "waiting"
      BY ZenonT(60), <1>30, <2>1, <2>2, SignalledWorkers DEF ExitInsert
    <2>7. WorkersOK'
      BY Zenon, <1>30, <2>6 DEF ExitInsert
    <2>8. Asleep' = Asleep
      BY Zenon, <1>30, <2>2 DEF ExitInsert, Signalled, Asleep
    <2> QED BY Zenon, <1>30, <2>4, <2>5, <2>7, <2>8 DEF ExitInsert
  <1>31. ASSUME NEW l \in Loops, Join(l)
        PROVE  /\ (TypeOK /\ CurOK /\ WorkersOK)'
               /\ idle_threads' = idle_threads /\ Asleep' = Asleep
    <2>1. TypeOK' /\ idle_threads' = idle_threads
      BY Zenon, <1>31 DEF Join
    <2>2. CurOK'
      BY Zenon, <1>31 DEF Join
    <2>3. WorkersOK' /\ Asleep' = Asleep
      BY <1>31 DEF Join, Asleep
    <2> QED BY Zenon, <2>1, <2>2, <2>3
  <1>32. ASSUME NEW l \in Loops, NEW r \in Reqs, QueueWork(l, r)
        PROVE  /\ (TypeOK /\ CurOK /\ WorkersOK)'
               /\ idle_threads' = idle_threads /\ Asleep' = Asleep
    <2>1. CASE threads = {}
      <3>1. PICK ws \in (SUBSET Workers) \ {{}} :
                /\ threads' = ws
                /\ wq' = <<>>
                /\ pc' = [t \in Threads |-> IF t \in ws THEN "lock"
                                           ELSE IF t = l THEN "post" ELSE pc[t]]
        BY ZenonT(60), <1>32, <2>1 DEF QueueWork
      <3>2. TypeOK'
        BY SMTT(60), <1>32, <3>1 DEF QueueWork
      <3>3. CurOK' /\ WorkersOK'
        BY Zenon, <1>32, <2>1, <3>1 DEF QueueWork
      <3>4. Asleep' = Asleep
        BY ZenonT(60), <1>32, <2>1, <3>1 DEF QueueWork, Asleep
      <3> QED BY Zenon, <1>32, <3>2, <3>3, <3>4 DEF QueueWork
    <2>2. CASE threads # {}
      <3>1. pc' = [pc EXCEPT ![l] = "post"] /\ UNCHANGED <<threads, wq>>
        BY Zenon, <1>32, <2>2 DEF QueueWork
      <3> QED BY SMTT(60), <1>32, <3>1 DEF QueueWork, Asleep
    <2> QED BY Zenon, <2>1, <2>2
  <1>33. ASSUME NEW l \in Loops, NEW r \in Reqs, Cancel(l, r)
        PROVE  /\ (TypeOK /\ CurOK /\ WorkersOK)'
               /\ idle_threads' = idle_threads /\ Asleep' = Asleep
    BY SMTT(60), <1>33 DEF Cancel, Asleep
  <1>34. ASSUME UNCHANGED vars
        PROVE  (TypeOK /\ CurOK /\ WorkersOK)' /\ idle_threads' = idle_threads /\ Asleep' = Asleep
    BY SMTT(60), <1>34 DEF vars, Asleep
  <1>35. /\ (TypeOK /\ CurOK /\ WorkersOK)'
        /\ \/ idle_threads' = idle_threads /\ Asleep' = Asleep
           \/ \E w \in Workers : idle_threads' = idle_threads + 1 /\ w \notin Asleep /\ Asleep' = Asleep \cup {w}
           \/ \E w \in Workers : idle_threads' = idle_threads - 1 /\ w \in Asleep /\ Asleep' = Asleep \ {w}
    <2> HIDE DEF TypeInv, TypeOK, CurOK, WorkersOK
    <2> QED BY Zenon, <1>1, <1>2, <1>3, <1>4, <1>5, <1>6, <1>7, <1>8, <1>9, <1>10, <1>11, <1>12, <1>13, <1>14, <1>15, <1>16, <1>17, <1>18, <1>19, <1>20, <1>21, <1>22, <1>23, <1>24, <1>25, <1>26, <1>27, <1>28, <1>29, <1>30, <1>31, <1>32, <1>33, <1>34 DEF Next, WorkerStep, LoopStep, ProgramStep
  <1>36. IdleCountExact'
    <2>1. idle_threads = Cardinality(Asleep) /\ (IdleCountExact' <=> idle_threads' = Cardinality(Asleep'))
      BY Zenon DEF IdleCountExact, Asleep
    <2>2. CASE idle_threads' = idle_threads /\ Asleep' = Asleep
      BY Zenon, <2>1, <2>2
    <2>3. ASSUME NEW w \in Workers, idle_threads' = idle_threads + 1, w \notin Asleep,
                 Asleep' = Asleep \cup {w}
          PROVE  IdleCountExact'
      BY Zenon, <2>1, <2>3, AsleepFinite, FS_AddElement
    <2>4. ASSUME NEW w \in Workers, idle_threads' = idle_threads - 1, w \in Asleep,
                 Asleep' = Asleep \ {w}
          PROVE  IdleCountExact'
      BY Zenon, <2>1, <2>4, AsleepFinite, FS_RemoveElement
    <2> QED BY Zenon, <1>35, <2>2, <2>3, <2>4
  <1> QED BY Zenon, <1>35, <1>36

\* Types, whose request a thread works on, who is in the wait set and the idle
\* count hold together, through every call and every step of a worker.
THEOREM TypeInvariance == Spec => []TypeInv
  <1>1. TypeInv /\ [Next]_vars => TypeInv'
    BY Zenon, TypeInvNext
  <1> QED BY TypeInvInit, <1>1, PTL DEF Spec

\* The pool's variables keep their types (threadpool.c:59-68), for every pool size.
THEOREM TypeCorrectness == Spec => []TypeOK
  BY TypeInvariance, PTL DEF TypeInv

\* idle_threads is the number of workers inside uv_cond_wait, in every
\* interleaving and across cleanup and re-initialisation.
THEOREM IdleCount == Spec => []IdleCountExact
  BY TypeInvariance, PTL DEF TypeInv
=============================================================================
