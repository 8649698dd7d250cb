-------------------------- MODULE ThreadPoolWakeup --------------------------
(***************************************************************************)
(* Proof that no wakeup is lost, neither a worker's nor a loop's, for any  *)
(* number of workers, loops and requests.                                  *)
(***************************************************************************)
EXTENDS ThreadPoolProofs

-----------------------------------------------------------------------------
(***************************************************************************)
(* The condition variable.  Coming: the workers on their way to the queue. *)
(***************************************************************************)
Comes == {"lock", "locked", "woken"}
Coming == {w \in Workers : pc[w] \in Comes}

WorkSeen == waiting = {} \/ Len(wq) <= Cardinality(Coming)

LEMMA ComingFinite ==
    /\ IsFiniteSet(Coming) /\ Cardinality(Coming) \in Nat
    /\ IsFiniteSet(Coming') /\ Cardinality(Coming') \in Nat
  <1>1. IsFiniteSet(Coming) /\ IsFiniteSet(Coming')
    BY Zenon, ThreadsAssumption, FS_Subset DEF Coming
  <1> QED BY Zenon, <1>1, FS_CardinalityType

\* Steps after which as many workers are coming and no more work is queued.
LEMMA WorkSeenFrame ==
    ASSUME WorkSeen, Len(wq) \in Nat, Len(wq') \in Nat,
           waiting' \subseteq waiting, Coming \subseteq Coming', Len(wq') <= Len(wq)
    PROVE  WorkSeen'
  <1>1. CASE waiting = {}
    BY Zenon, <1>1 DEF WorkSeen
  <1>2. CASE Len(wq) <= Cardinality(Coming)
    <2>1. Cardinality(Coming) <= Cardinality(Coming')
      BY Zenon, ComingFinite, FS_Subset
    <2>2. Len(wq') <= Cardinality(Coming')
      BY <1>2, <2>1, ComingFinite
    <2> QED BY Zenon, <2>2 DEF WorkSeen
  <1> QED BY Zenon, <1>1, <1>2 DEF WorkSeen

\* One thread moves, and does not turn away from the queue.
LEMMA MoveSeen ==
    ASSUME TypeInv, WorkSeen, NEW t \in Threads, NEW label, pc' = [pc EXCEPT ![t] = label],
           pc[t] \notin Comes \/ label \in Comes, waiting' \subseteq waiting, wq' = wq
    PROVE  WorkSeen'
  <1>1. Coming \subseteq Coming'
    BY Zenon DEF Coming, TypeInv, TypeOK, Threads
  <1>2. Len(wq) \in Nat
    BY DEF TypeInv, TypeOK
  <1>3. Len(wq') <= Len(wq) /\ Len(wq') \in Nat
    BY <1>2
  <1> QED BY Zenon, <1>1, <1>2, <1>3, WorkSeenFrame

\* uv_cond_signal by thread t: if anybody waits, one more worker comes.
LEMMA SignalSeen ==
    ASSUME TypeInv, NEW t \in Threads, pc[t] # "waiting", NEW label, label \notin Comes,
           CondSignal([pc EXCEPT ![t] = label])
    PROVE  \/ waiting' = {}
           \/ \E w \in Workers \ Coming : w # t /\ Coming' = (Coming \ {t}) \cup {w}
  <1> DEFINE next == [pc EXCEPT ![t] = label]
  <1>1. CASE waiting = {}
    BY Zenon, <1>1 DEF CondSignal
  <1>2. CASE waiting # {}
    <2>1. PICK w \in waiting : pc' = [next EXCEPT ![w] = "woken"]
      BY Zenon, <1>2 DEF CondSignal
    <2>2. w \in Workers /\ pc[w] = "waiting" /\ w # t /\ w \in Threads
      BY Zenon DEF TypeInv, TypeOK, WorkersOK, Threads
    <2>3. next \in [Threads -> WorkerPcs \cup LoopPcs \cup {label}]
      BY Zenon DEF TypeInv, TypeOK
    <2>4. next[t] = label /\ \A u \in Threads \ {t} : next[u] = pc[u]
      BY Zenon DEF TypeInv, TypeOK
    <2> HIDE DEF next
    <2>5. pc'[w] = "woken" /\ \A u \in Threads \ {w} : pc'[u] = next[u]
      BY Zenon, <2>1, <2>2, <2>3
    <2>6. pc'[t] = label /\ \A u \in Threads \ {w, t} : pc'[u] = pc[u]
      BY Zenon, <2>2, <2>4, <2>5
    <2>7. \A u \in Workers : u \in Coming' <=> (u \in Coming /\ u # t) \/ u = w
      <3> SUFFICES ASSUME NEW u \in Workers
                   PROVE  u \in Coming' <=> (u \in Coming /\ u # t) \/ u = w
        OBVIOUS
      <3>1. CASE u = w
        BY Zenon, <2>5, <3>1 DEF Coming, Comes
      <3>2. CASE u = t
        BY Zenon, <2>2, <2>6, <3>2 DEF Coming, Comes
      <3>3. CASE u # w /\ u # t
        BY Zenon, <2>6, <3>3 DEF Coming, Threads
      <3> QED BY Zenon, <3>1, <3>2, <3>3
    <2>8. Coming' = (Coming \ {t}) \cup {w} /\ w \notin Coming
      <3>1. w \notin Coming
        BY Zenon, <2>2 DEF Coming, Comes
      <3>2. Coming' \subseteq Workers /\ Coming \subseteq Workers
        BY Zenon DEF Coming
      <3> QED BY Zenon, <2>2, <2>7, <3>1, <3>2
    <2> QED BY Zenon, <2>2, <2>8
  <1> QED BY Zenon, <1>1, <1>2

\* post() by thread t: if anybody sleeps, the new entry has a worker.
LEMMA PostSeen ==
    ASSUME TypeInv, WorkSeen, NEW t \in Loops, NEW label, label \notin Comes,
           NEW q \in Reqs \cup {ExitMsg}, Post(q, [pc EXCEPT ![t] = label])
    PROVE  WorkSeen'
  <1>1. t \in Threads /\ pc[t] # "waiting" /\ t \notin Coming
    BY Zenon, ThreadsAssumption DEF TypeInv, TypeOK, Threads, LoopPcs, Coming
  <1>2. Len(wq') = Len(wq) + 1 /\ Len(wq) \in Nat
    BY DEF Post, TypeInv, TypeOK
  <1>3. CASE idle_threads > 0
    <2>1. \/ waiting' = {}
          \/ \E w \in Workers \ Coming : w # t /\ Coming' = (Coming \ {t}) \cup {w}
      BY Zenon, <1>1, <1>3, SignalSeen DEF Post
    <2>2. ASSUME NEW w \in Workers \ Coming, Coming' = (Coming \ {t}) \cup {w}, waiting # {}
          PROVE  Len(wq') <= Cardinality(Coming')
      <3>1. Coming' = Coming \cup {w}
        BY Zenon, <1>1, <2>2
      <3>2. Cardinality(Coming \cup {w}) = Cardinality(Coming) + 1
        BY Zenon, ComingFinite, FS_AddElement
      <3>3. Len(wq) <= Cardinality(Coming)
        BY Zenon, <2>2 DEF WorkSeen
      <3>4. Cardinality(Coming') = Cardinality(Coming) + 1
        BY Zenon, <3>1, <3>2
      <3> QED BY <1>2, <3>3, <3>4, ComingFinite
    <2>3. waiting = {} => waiting' = {}
      BY Zenon, <1>3 DEF Post, CondSignal
    <2> QED BY Zenon, <2>1, <2>2, <2>3 DEF WorkSeen
  <1>4. CASE ~(idle_threads > 0)
    <2>1. idle_threads = 0 /\ idle_threads = Cardinality(Asleep)
      BY <1>4 DEF TypeInv, TypeOK, IdleCountExact, Asleep
    <2>2. Asleep = {}
      BY Zenon, <2>1, AsleepFinite, FS_EmptySet
    <2>3. waiting = {}
      BY Zenon, <2>2 DEF Asleep, TypeInv, TypeOK, WorkersOK
    <2> QED BY Zenon, <1>4, <2>3 DEF Post, WorkSeen
  <1> QED BY Zenon, <1>3, <1>4

\* The exit message stays in the queue and is passed on with a signal.
LEMMA ExitSeen ==
    ASSUME TypeInv, WorkSeen, NEW w \in Workers, WorkerExit(w)
    PROVE  WorkSeen'
  <1>1. w \in Threads /\ pc[w] = "locked" /\ wq' = wq /\ w \in Coming
    BY Zenon DEF WorkerExit, Threads, Coming, Comes
  <1>2. \/ waiting' = {}
        \/ \E v \in Workers \ Coming : v # w /\ Coming' = (Coming \ {w}) \cup {v}
    BY Zenon, <1>1, SignalSeen DEF WorkerExit, Comes
  <1>3. waiting = {} => waiting' = {}
    BY Zenon DEF WorkerExit, CondSignal
  <1>4. ASSUME NEW v \in Workers \ Coming, Coming' = (Coming \ {w}) \cup {v}, waiting # {}
        PROVE  Len(wq') <= Cardinality(Coming')
    <2>1. IsFiniteSet(Coming \ {w}) /\ Cardinality(Coming \ {w}) = Cardinality(Coming) - 1
      BY Zenon, <1>1, ComingFinite, FS_RemoveElement
    <2>2. Cardinality((Coming \ {w}) \cup {v}) = Cardinality(Coming \ {w}) + 1
      BY Zenon, <2>1, FS_AddElement
    <2>3. Cardinality(Coming') = (Cardinality(Coming) - 1) + 1
      BY Zenon, <1>4, <2>1, <2>2
    <2>4. Len(wq) <= Cardinality(Coming)
      BY Zenon, <1>4 DEF WorkSeen
    <2>5. Cardinality(Coming') = Cardinality(Coming)
      BY <2>3, ComingFinite
    <2> QED BY Zenon, <1>1, <2>4, <2>5
  <1> QED BY Zenon, <1>2, <1>3, <1>4 DEF WorkSeen

\* A worker and the entry it takes leave together.
LEMMA TakeSeen ==
    ASSUME TypeInv, WorkSeen, NEW w \in Workers, WorkerTake(w)
    PROVE  WorkSeen'
  <1>1. pc[w] = "locked" /\ pc' = [pc EXCEPT ![w] = "call"] /\ waiting' = waiting /\ w \in Threads
    BY Zenon DEF WorkerTake, Goto, Threads
  <1>2. Len(wq') = Len(wq) - 1 /\ Len(wq) \in Nat /\ Len(wq) > 0
    BY DEF WorkerTake, TypeInv, TypeOK
  <1>3. w \in Coming /\ Coming' = Coming \ {w}
    <2>1. w \in Coming
      BY Zenon, <1>1 DEF Coming, Comes
    <2>2. \A u \in Workers : u \in Coming' <=> u \in Coming /\ u # w
      BY Zenon, <1>1 DEF Coming, Comes, TypeInv, TypeOK, Threads
    <2>3. Coming' \subseteq Workers /\ Coming \subseteq Workers
      BY Zenon DEF Coming
    <2> QED BY Zenon, <2>1, <2>2, <2>3
  <1>4. Cardinality(Coming') = Cardinality(Coming) - 1
    <2>1. Cardinality(Coming \ {w}) = Cardinality(Coming) - 1
      BY Zenon, <1>3, ComingFinite, FS_RemoveElement
    <2> QED BY Zenon, <1>3, <2>1
  <1>5. Len(wq) <= Cardinality(Coming) => Len(wq') <= Cardinality(Coming')
    BY <1>2, <1>4, ComingFinite
  <1> QED BY Zenon, <1>1, <1>5 DEF WorkSeen

\* QUEUE_REMOVE makes no queue longer.
LEMMA CancelSeen ==
    ASSUME TypeInv, WorkSeen, NEW l \in Loops, CancelTest(l)
    PROVE  WorkSeen'
  <1>1. Len(wq) \in Nat /\ Len(wq') \in Nat /\ Len(wq') <= Len(wq)
    <2>1. PICK S : wq \in Seq(S)
      BY Zenon DEF TypeInv, TypeOK
    <2>2. Len(wq) \in Nat /\ Len(wq) <= Len(wq)
      BY <2>1
    <2>3. wq' = wq \/ wq' = Unlink(wq, cur[l])
      BY Zenon DEF CancelTest
    <2> QED BY Zenon, <2>1, <2>2, <2>3, UnlinkIn
  <1>2. waiting' = waiting
    BY Zenon DEF CancelTest
  <1>3. Coming \subseteq Coming'
    <2>1. PICK label : pc' = [pc EXCEPT ![l] = label]
      BY Zenon DEF CancelTest, Goto
    <2> QED BY Zenon, <2>1, ThreadsAssumption DEF Coming, TypeInv, TypeOK, Threads
  <1> QED BY Zenon, <1>1, <1>2, <1>3, WorkSeenFrame

LEMMA WorkSeenNext == TypeInv /\ WorkSeen /\ [Next]_vars => WorkSeen'
  <1> SUFFICES ASSUME TypeInv, WorkSeen, [Next]_vars PROVE WorkSeen'
    OBVIOUS
  <1> USE DEF poolVars, Goto, Comes
  <1>1. ASSUME NEW w \in Workers, WorkerStep(w) \/ SpuriousWakeup(w) PROVE WorkSeen'
    <2>1. w \in Threads
      BY Zenon DEF Threads
    <2>2. CASE WorkerLock(w)
      BY Zenon, <2>1, <2>2, MoveSeen DEF WorkerLock
    <2>3. CASE WorkerWait(w)
      <3>1. wq' = <<>>
        BY Zenon, <2>3 DEF WorkerWait
      <3>2. Len(wq') <= Cardinality(Coming')
        BY <3>1, ComingFinite
      <3> QED BY Zenon, <3>2 DEF WorkSeen
    <2>4. CASE WorkerWoken(w)
      BY Zenon, <2>1, <2>4, MoveSeen DEF WorkerWoken
    <2>5. CASE WorkerTake(w)
      BY Zenon, <2>5, TakeSeen
    <2>6. CASE WorkerExit(w)
      BY Zenon, <2>6, ExitSeen
    <2>7. CASE WorkerCall(w)
      BY Zenon, <2>1, <2>7, MoveSeen DEF WorkerCall
    <2>8. CASE WorkerLockLoop(w)
      BY Zenon, <2>1, <2>8, MoveSeen DEF WorkerLockLoop
    <2>9. CASE WorkerFinish(w)
      BY Zenon, <2>1, <2>9, MoveSeen DEF WorkerFinish
    <2>10. CASE AsyncSend(w)
      BY Zenon, <2>1, <2>10, MoveSeen DEF AsyncSend
    <2>11. CASE AsyncWrite(w)
      BY Zenon, <2>1, <2>11, MoveSeen DEF AsyncWrite
    <2>12. CASE UnlockLoop(w)
      BY Zenon, <2>1, <2>12, MoveSeen DEF UnlockLoop
    <2>13. CASE SpuriousWakeup(w)
      <3>1. pc' = [pc EXCEPT ![w] = "woken"] /\ waiting' \subseteq waiting /\ wq' = wq
        BY Zenon, <2>13 DEF SpuriousWakeup
      <3> QED BY Zenon, <2>1, <3>1, MoveSeen
    <2> QED BY Zenon, <1>1, <2>2, <2>3, <2>4, <2>5, <2>6, <2>7, <2>8, <2>9, <2>10, <2>11, <2>12,
               <2>13 DEF WorkerStep
  <1>2. ASSUME NEW l \in Loops PROVE l \in Threads /\ pc[l] \notin Comes
    BY Zenon, <1>2 DEF Threads, TypeInv, TypeOK, LoopPcs
  <1>3. ASSUME NEW l \in Loops, LoopStep(l) PROVE WorkSeen'
    <2>1. l \in Threads /\ pc[l] \notin Comes
      BY Zenon, <1>2
    <2> HIDE DEF Comes
    <2>2. CASE PostLock(l)
      BY Zenon, <2>1, <2>2, MoveSeen DEF PostLock
    <2>3. CASE PostInsert(l)
      <3>1. cur[l] \in Reqs \cup {ExitMsg}
        BY Zenon, <2>1, <2>3 DEF PostInsert, TypeInv, CurOK, BusyPcs
      <3> QED BY Zenon, <2>3, <3>1, PostSeen DEF PostInsert, Comes
    <2>4. CASE CancelLock(l)
      BY Zenon, <2>1, <2>4, MoveSeen DEF CancelLock
    <2>5. CASE CancelLockLoop(l)
      BY Zenon, <2>1, <2>5, MoveSeen DEF CancelLockLoop
    <2>6. CASE CancelTest(l)
      BY Zenon, <2>6, CancelSeen
    <2>7. CASE CancelMark(l)
      BY Zenon, <2>1, <2>7, MoveSeen DEF CancelMark
    <2>8. CASE CancelRelock(l)
      BY Zenon, <2>1, <2>8, MoveSeen DEF CancelRelock
    <2>9. CASE CancelInsert(l)
      BY Zenon, <2>1, <2>9, MoveSeen DEF CancelInsert
    <2>10. CASE AsyncSend(l)
      BY Zenon, <2>1, <2>10, MoveSeen DEF AsyncSend
    <2>11. CASE AsyncWrite(l)
      BY Zenon, <2>1, <2>11, MoveSeen DEF AsyncWrite
    <2>12. CASE UnlockLoop(l)
      BY Zenon, <2>1, <2>12, MoveSeen DEF UnlockLoop
    <2>13. CASE AsyncEvent(l)
      BY Zenon, <2>1, <2>13, MoveSeen DEF AsyncEvent
    <2>14. CASE WorkDoneLock(l)
      BY Zenon, <2>1, <2>14, MoveSeen DEF WorkDoneLock
    <2>15. CASE WorkDoneMove(l)
      BY Zenon, <2>1, <2>15, MoveSeen DEF WorkDoneMove
    <2>16. CASE WorkDonePop(l)
      BY Zenon, <2>1, <2>16, MoveSeen DEF WorkDonePop
    <2>17. CASE WorkDoneEnd(l)
      BY Zenon, <2>1, <2>17, MoveSeen DEF WorkDoneEnd
    <2>18. CASE ExitLock(l)
      BY Zenon, <2>1, <2>18, MoveSeen DEF ExitLock
    <2>19. CASE ExitInsert(l)
      BY Zenon, <2>19, PostSeen DEF ExitInsert, Comes
    <2>20. CASE Join(l)
      <3>1. waiting' = waiting /\ wq' = wq
        BY Zenon, <2>20 DEF Join
      <3>2. Coming \subseteq Coming'
        BY Zenon, <2>20, ThreadsAssumption DEF Join, Coming, Comes, Threads
      <3>3. Len(wq) \in Nat
        BY DEF TypeInv, TypeOK
      <3>4. Len(wq') \in Nat /\ Len(wq') <= Len(wq)
        BY <3>1, <3>3
      <3> QED BY Zenon, <3>1, <3>2, <3>3, <3>4, WorkSeenFrame
    <2> QED BY Zenon, <1>3, <2>2, <2>3, <2>4, <2>5, <2>6, <2>7, <2>8, <2>9, <2>10, <2>11, <2>12,
               <2>13, <2>14, <2>15, <2>16, <2>17, <2>18, <2>19, <2>20 DEF LoopStep
  <1>4. ASSUME NEW l \in Loops, ProgramStep(l) PROVE WorkSeen'
    <2>1. l \in Threads /\ pc[l] \notin Comes
      BY Zenon, <1>2
    <2> HIDE DEF Comes
    <2>2. ASSUME NEW r \in Reqs, QueueWork(l, r) PROVE WorkSeen'
      <3>1. CASE threads = {}
        <4>1. wq' = <<>>
          BY Zenon, <2>2, <3>1 DEF QueueWork
        <4>2. Len(wq') <= Cardinality(Coming')
          BY <4>1, ComingFinite
        <4> QED BY Zenon, <4>2 DEF WorkSeen
      <3>2. CASE threads # {}
        BY Zenon, <2>1, <2>2, <3>2, MoveSeen DEF QueueWork
      <3> QED BY Zenon, <3>1, <3>2
    <2>3. ASSUME NEW r \in Reqs, Cancel(l, r) PROVE WorkSeen'
      BY Zenon, <2>1, <2>3, MoveSeen DEF Cancel
    <2>4. CASE Cleanup(l)
      BY Zenon, <2>1, <2>4, MoveSeen DEF Cleanup
    <2>5. CASE AsyncIo(l)
      BY Zenon, <2>1, <2>5, MoveSeen DEF AsyncIo
    <2>6. CASE CallbackReturns(l)
      BY Zenon, <2>1, <2>6, MoveSeen DEF CallbackReturns
    <2> QED BY Zenon, <1>4, <2>2, <2>3, <2>4, <2>5, <2>6 DEF ProgramStep
  <1>5. CASE UNCHANGED vars
    <2>1. waiting' = waiting /\ wq' = wq /\ Coming' = Coming
      BY Zenon, <1>5 DEF vars, ctlVars, Coming
    <2> QED BY Zenon, <2>1 DEF WorkSeen
  <1> QED BY Zenon, <1>1, <1>3, <1>4, <1>5 DEF Next

-----------------------------------------------------------------------------
(***************************************************************************)
(* The loop's wakeup.  pending is a token: while it is set, exactly one of *)
(* these has it: the eventfd, uv__async_io between draining the eventfd    *)
(* and clearing pending, or a thread about to write to the eventfd.        *)
(***************************************************************************)
Side(t) ==
    CASE pc[t] = "send" -> "send"
      [] pc[t] = "write" -> "write"
      [] pc[t] = "event" -> "event"
      [] pc[t] \in {"done", "move"} -> "done"
      [] OTHER -> "none"

Sends(t, l) == Side(t) = "send" /\ LoopOf[cur[t]] = l
Writes(t, l) == Side(t) = "write" /\ LoopOf[cur[t]] = l

Token(l) ==
    /\ pending[l] = 0 => /\ efd[l] = 0 /\ Side(l) # "event"
                         /\ \A t \in Threads : ~Writes(t, l)
    /\ pending[l] = 1 => \/ efd[l] # 0 \/ Side(l) = "event"
                         \/ \E t \in Threads : Writes(t, l)
    /\ efd[l] # 0 => Side(l) # "event"
    /\ \A t \in Threads : Writes(t, l) =>
           /\ efd[l] = 0 /\ Side(l) # "event"
           /\ \A u \in Threads : Writes(u, l) => u = t

\* Completed work is covered by the token, by a thread about to set pending,
\* or by uv__work_done on its way to the queue.
Covered(l) == loop_wq[l] # <<>> => \/ pending[l] = 1
                                   \/ Side(l) = "done"
                                   \/ \E t \in Threads : Sends(t, l)

DoneSeen == \A l \in Loops : Token(l) /\ Covered(l)

\* Thread t keeps its part in the sending.
SameSide(t) == Side(t)' = Side(t) /\ (Side(t) \in {"send", "write"} => cur'[t] = cur[t])

LEMMA SameSideSame ==
    ASSUME NEW t, SameSide(t), NEW l
    PROVE  (Writes(t, l)' <=> Writes(t, l)) /\ (Sends(t, l)' <=> Sends(t, l))
  BY Zenon DEF SameSide, Writes, Sends

\* A loop that a step does not concern.
LEMMA TokenFrame ==
    ASSUME NEW l, Token(l), Covered(l),
           pending'[l] = pending[l], efd'[l] = efd[l], Side(l)' = Side(l),
           loop_wq'[l] # <<>> => loop_wq[l] # <<>>,
           \A t \in Threads : (Writes(t, l)' <=> Writes(t, l)) /\ (Sends(t, l)' <=> Sends(t, l))
    PROVE  Token(l)' /\ Covered(l)'
  <1>1. Token(l)'
    BY Zenon DEF Token
  <1>2. Covered(l)'
    BY Zenon DEF Covered
  <1> QED BY Zenon, <1>1, <1>2

\* Steps that take no part in the sending.
LEMMA DoneFrame ==
    ASSUME DoneSeen, UNCHANGED asyncVars,
           \A l \in Loops : loop_wq'[l] # <<>> => loop_wq[l] # <<>>,
           \A t \in Threads : SameSide(t)
    PROVE  DoneSeen'
  <1> SUFFICES ASSUME NEW l \in Loops PROVE Token(l)' /\ Covered(l)'
    BY Zenon DEF DoneSeen
  <1>1. pending'[l] = pending[l] /\ efd'[l] = efd[l] /\ Token(l) /\ Covered(l)
    BY Zenon DEF asyncVars, DoneSeen
  <1>2. Side(l)' = Side(l)
    BY Zenon DEF SameSide, Threads
  <1>3. \A t \in Threads : (Writes(t, l)' <=> Writes(t, l)) /\ (Sends(t, l)' <=> Sends(t, l))
    BY Zenon, SameSideSame
  <1> QED BY Zenon, <1>1, <1>2, <1>3, TokenFrame

\* A step of thread x that concerns loop l0 only.
LEMMA DoneStep ==
    ASSUME DoneSeen, NEW x \in Threads, NEW l0 \in Loops, x \in Loops => x = l0,
           \A t \in Threads \ {x} : SameSide(t),
           \A l \in Loops \ {l0} :
               /\ ~Writes(x, l) /\ ~Writes(x, l)' /\ ~Sends(x, l) /\ ~Sends(x, l)'
               /\ pending'[l] = pending[l] /\ efd'[l] = efd[l] /\ loop_wq'[l] = loop_wq[l],
           Token(l0)', Covered(l0)'
    PROVE  DoneSeen'
  <1> SUFFICES ASSUME NEW l \in Loops, l # l0 PROVE Token(l)' /\ Covered(l)'
    BY Zenon DEF DoneSeen
  <1>1. pending'[l] = pending[l] /\ efd'[l] = efd[l] /\ loop_wq'[l] = loop_wq[l]
    BY Zenon
  <1>2. Token(l) /\ Covered(l)
    BY Zenon DEF DoneSeen
  <1>3. Side(l)' = Side(l)
    BY Zenon DEF SameSide, Threads
  <1>4. \A t \in Threads : (Writes(t, l)' <=> Writes(t, l)) /\ (Sends(t, l)' <=> Sends(t, l))
    BY Zenon, SameSideSame
  <1> QED BY Zenon, <1>1, <1>2, <1>3, <1>4, TokenFrame

SidePcs == {"send", "write", "event", "done", "move"}

\* Only thread x moves.
LEMMA OthersSame ==
    ASSUME TypeInv, NEW x \in Threads, NEW label, pc' = [pc EXCEPT ![x] = label],
           \A t \in Threads \ {x} : cur'[t] = cur[t]
    PROVE  /\ \A t \in Threads \ {x} : SameSide(t)
           /\ pc'[x] = label
           /\ pc[x] \notin SidePcs /\ label \notin SidePcs => \A t \in Threads : SameSide(t)
  <1>1. pc'[x] = label /\ \A t \in Threads \ {x} : pc'[t] = pc[t]
    BY Zenon DEF TypeInv, TypeOK
  <1>2. \A t \in Threads \ {x} : SameSide(t)
    BY Zenon, <1>1 DEF SameSide, Side
  <1>3. ASSUME pc[x] \notin SidePcs, label \notin SidePcs PROVE SameSide(x)
    BY Zenon, <1>1, <1>3 DEF SameSide, Side, SidePcs
  <1> QED BY Zenon, <1>1, <1>2, <1>3

-----------------------------------------------------------------------------
\* The compare-and-swap of uv_async_send: the winner is to write.
LEMMA SendDone ==
    ASSUME TypeInv, DoneSeen, NEW x \in Threads, AsyncSend(x)
    PROVE  DoneSeen'
  <1>1. PICK l0 : l0 = LoopOf[cur[x]]
    OBVIOUS
  <1>2. l0 \in Loops /\ (x \in Loops => x = l0)
    BY Zenon, <1>1, ReqsAssumption DEF AsyncSend, TypeInv, CurOK, BusyPcs
  <1>3. /\ pc[x] = "send" /\ pc' = [pc EXCEPT ![x] = IF pending[l0] = 0 THEN "write" ELSE "unlock"]
        /\ pending' = [pending EXCEPT ![l0] = 1] /\ UNCHANGED <<efd, cur, loop_wq>>
    BY Zenon, <1>1 DEF AsyncSend, Goto, loopVars
  <1>4. (\A t \in Threads \ {x} : SameSide(t)) /\ pc'[x] = IF pending[l0] = 0 THEN "write" ELSE "unlock"
    BY Zenon, <1>3, OthersSame
  <1>5. /\ Side(x) = "send" /\ cur'[x] = cur[x] /\ Side(x)' \in {"write", "none"}
        /\ Side(x)' = "write" <=> pending[l0] = 0
    <2>1. Side(x) = "send" /\ cur'[x] = cur[x]
      BY Zenon, <1>3 DEF Side
    <2>2. CASE pending[l0] = 0
      <3>1. pc'[x] = "write"
        BY Zenon, <1>4, <2>2
      <3> QED BY Zenon, <2>1, <2>2, <3>1 DEF Side
    <2>3. CASE pending[l0] # 0
      <3>1. pc'[x] = "unlock"
        BY Zenon, <1>4, <2>3
      <3> QED BY Zenon, <2>1, <2>3, <3>1 DEF Side
    <2> QED BY Zenon, <2>2, <2>3
  <1>6. /\ pending'[l0] = 1 /\ efd'[l0] = efd[l0]
        /\ \A l \in Loops \ {l0} : pending'[l] = pending[l] /\ efd'[l] = efd[l] /\ loop_wq'[l] = loop_wq[l]
    BY Zenon, <1>2, <1>3 DEF TypeInv, TypeOK
  <1>7. pending[l0] \in {0, 1} /\ 0 # 1 /\ Token(l0)
    BY <1>2 DEF TypeInv, TypeOK, DoneSeen
  <1>8. \A t \in Threads \ {x} : Writes(t, l0)' <=> Writes(t, l0)
    BY Zenon, <1>4, SameSideSame
  <1>9. Side(l0)' = "event" <=> Side(l0) = "event"
    <2>1. CASE l0 = x
      BY Zenon, <1>5, <2>1
    <2>2. CASE l0 # x
      BY Zenon, <1>2, <1>4, <2>2 DEF SameSide, Threads
    <2> QED BY Zenon, <2>1, <2>2
  <1>10. ~Writes(x, l0)
    BY Zenon, <1>5 DEF Writes
  <1>11. Token(l0)'
    <2>1. CASE pending[l0] = 0
      <3>1. \A t \in Threads : Writes(t, l0)' <=> t = x
        <4>1. \A t \in Threads : ~Writes(t, l0)
          BY Zenon, <1>7, <2>1 DEF Token
        <4>2. Writes(x, l0)'
          BY Zenon, <1>1, <1>5, <2>1 DEF Writes
        <4> QED BY Zenon, <1>8, <4>1, <4>2
      <3> QED BY Zenon, <1>6, <1>7, <1>9, <2>1, <3>1 DEF Token
    <2>2. CASE pending[l0] = 1
      <3>1. \A t \in Threads : Writes(t, l0)' <=> Writes(t, l0)
        BY Zenon, <1>5, <1>7, <1>8, <1>10, <2>2 DEF Writes
      <3> QED BY Zenon, <1>6, <1>7, <1>9, <2>2, <3>1 DEF Token
    <2> QED BY Zenon, <1>7, <2>1, <2>2
  <1>12. Covered(l0)'
    BY Zenon, <1>6 DEF Covered
  <1>13. \A l \in Loops \ {l0} : ~Writes(x, l) /\ ~Writes(x, l)' /\ ~Sends(x, l) /\ ~Sends(x, l)'
    BY Zenon, <1>1, <1>5 DEF Writes, Sends
  <1> QED BY Zenon, <1>2, <1>4, <1>6, <1>11, <1>12, <1>13, DoneStep

\* The token goes from the writer into the eventfd.
LEMMA WriteDone ==
    ASSUME TypeInv, DoneSeen, NEW x \in Threads, AsyncWrite(x)
    PROVE  DoneSeen'
  <1>1. PICK l0 : l0 = LoopOf[cur[x]]
    OBVIOUS
  <1>2. l0 \in Loops /\ (x \in Loops => x = l0)
    BY Zenon, <1>1, ReqsAssumption DEF AsyncWrite, TypeInv, CurOK, BusyPcs
  <1>3. /\ pc[x] = "write" /\ pc' = [pc EXCEPT ![x] = "unlock"]
        /\ efd' = [efd EXCEPT ![l0] = efd[l0] + 1] /\ UNCHANGED <<pending, cur, loop_wq>>
    BY Zenon, <1>1 DEF AsyncWrite, Goto, loopVars
  <1>4. (\A t \in Threads \ {x} : SameSide(t)) /\ pc'[x] = "unlock"
    BY Zenon, <1>3, OthersSame
  <1>5. Side(x) = "write" /\ Side(x)' = "none" /\ cur'[x] = cur[x]
    BY Zenon, <1>3, <1>4 DEF Side
  <1>6. /\ efd'[l0] = efd[l0] + 1 /\ efd[l0] \in Nat
        /\ \A l \in Loops \ {l0} : pending'[l] = pending[l] /\ efd'[l] = efd[l] /\ loop_wq'[l] = loop_wq[l]
    BY Zenon, <1>2, <1>3 DEF TypeInv, TypeOK
  <1>7. efd'[l0] # 0
    BY <1>6
  <1>8. pending[l0] \in {0, 1} /\ Token(l0) /\ Writes(x, l0)
    BY Zenon, <1>1, <1>2, <1>5 DEF TypeInv, TypeOK, DoneSeen, Writes
  <1>9. pending'[l0] = 1 /\ Side(l0) # "event" /\ (\A t \in Threads : Writes(t, l0) => t = x)
    BY Zenon, <1>3, <1>8 DEF Token
  <1>10. \A t \in Threads : ~Writes(t, l0)'
    <2>1. \A t \in Threads \ {x} : Writes(t, l0)' <=> Writes(t, l0)
      BY Zenon, <1>4, SameSideSame
    <2> QED BY Zenon, <1>5, <1>9, <2>1 DEF Writes
  <1>11. Side(l0)' # "event"
    <2>1. CASE l0 = x
      BY Zenon, <1>5, <2>1
    <2>2. CASE l0 # x
      BY Zenon, <1>2, <1>4, <1>9, <2>2 DEF SameSide, Threads
    <2> QED BY Zenon, <2>1, <2>2
  <1>12. Token(l0)' /\ Covered(l0)'
    <2>1. 0 # 1
      OBVIOUS
    <2> QED BY Zenon, <1>7, <1>9, <1>10, <1>11, <2>1 DEF Token, Covered
  <1>13. \A l \in Loops \ {l0} : ~Writes(x, l) /\ ~Writes(x, l)' /\ ~Sends(x, l) /\ ~Sends(x, l)'
    BY Zenon, <1>1, <1>5 DEF Writes, Sends
  <1> QED BY Zenon, <1>2, <1>4, <1>6, <1>12, <1>13, DoneStep

\* Thread x, a worker or uv__work_cancel, adds to the completion queue of l0.
LEMMA InsertDone ==
    ASSUME TypeInv, DoneSeen, NEW x \in Threads, WorkerFinish(x) \/ CancelInsert(x)
    PROVE  DoneSeen'
  <1>1. PICK l0 : l0 = LoopOf[cur[x]]
    OBVIOUS
  <1>2. l0 \in Loops /\ (x \in Loops => x = l0)
    BY Zenon, <1>1, ReqsAssumption DEF WorkerFinish, CancelInsert, TypeInv, CurOK, BusyPcs
  <1>3. /\ pc[x] \in {"finish", "requeueing"} /\ pc' = [pc EXCEPT ![x] = "send"]
        /\ UNCHANGED <<pending, efd, cur>>
    BY Zenon DEF WorkerFinish, CancelInsert, Goto, asyncVars
  <1>4. \A l \in Loops \ {l0} : loop_wq'[l] = loop_wq[l]
    <2>1. CASE WorkerFinish(x)
      BY Zenon, <1>1, <1>2, <2>1 DEF WorkerFinish, TypeInv, TypeOK
    <2>2. CASE CancelInsert(x)
      <3>1. x \in Loops
        BY Zenon, <2>2 DEF CancelInsert, TypeInv, TypeOK, WorkerPcs, Threads
      <3> QED BY Zenon, <1>2, <2>2, <3>1 DEF CancelInsert, TypeInv, TypeOK
    <2> QED BY Zenon, <2>1, <2>2
  <1>5. (\A t \in Threads \ {x} : SameSide(t)) /\ pc'[x] = "send"
    BY Zenon, <1>3, OthersSame
  <1>6. Side(x) = "none" /\ Side(x)' = "send" /\ cur'[x] = cur[x]
    BY Zenon, <1>3, <1>5 DEF Side
  <1>7. \A t \in Threads : Writes(t, l0)' <=> Writes(t, l0)
    <2>1. \A t \in Threads \ {x} : Writes(t, l0)' <=> Writes(t, l0)
      BY Zenon, <1>5, SameSideSame
    <2> QED BY Zenon, <1>6, <2>1 DEF Writes
  <1>8. Side(l0)' = "event" <=> Side(l0) = "event"
    <2>1. CASE l0 = x
      BY Zenon, <1>6, <2>1
    <2>2. CASE l0 # x
      BY Zenon, <1>2, <1>5, <2>2 DEF SameSide, Threads
    <2> QED BY Zenon, <2>1, <2>2
  <1>9. Token(l0)'
    BY Zenon, <1>2, <1>3, <1>7, <1>8 DEF Token, DoneSeen
  <1>10. Covered(l0)'
    BY Zenon, <1>1, <1>6 DEF Covered, Sends
  <1>11. \A l \in Loops \ {l0} : ~Writes(x, l) /\ ~Writes(x, l)' /\ ~Sends(x, l) /\ ~Sends(x, l)'
    BY Zenon, <1>1, <1>6 DEF Writes, Sends
  <1> QED BY Zenon, <1>2, <1>3, <1>4, <1>5, <1>9, <1>10, <1>11, DoneStep

\* uv__async_io and uv__async_event take the token, and uv__work_done the queue.
LEMMA LoopDone ==
    ASSUME TypeInv, DoneSeen, NEW l \in Loops, AsyncIo(l) \/ AsyncEvent(l) \/ WorkDoneMove(l)
    PROVE  DoneSeen'
  <1>1. l \in Threads /\ Token(l) /\ Covered(l) /\ pending[l] \in {0, 1} /\ 0 # 1
    BY DEF Threads, DoneSeen, TypeInv, TypeOK
  <1>2. /\ \E label : pc' = [pc EXCEPT ![l] = label]
        /\ cur' = cur
    BY Zenon DEF AsyncIo, AsyncEvent, WorkDoneMove, Goto
  <1>3. \A t \in Threads \ {l} : SameSide(t)
    BY Zenon, <1>1, <1>2, OthersSame
  <1>4. \A k \in Loops \ {l} : pending'[k] = pending[k] /\ efd'[k] = efd[k] /\ loop_wq'[k] = loop_wq[k]
    BY Zenon DEF AsyncIo, AsyncEvent, WorkDoneMove, TypeInv, TypeOK, loopVars, asyncVars
  <1>5. \A k \in Loops : \A t \in Threads \ {l} : Writes(t, k)' <=> Writes(t, k)
    BY Zenon, <1>3, SameSideSame
  <1>6. CASE AsyncIo(l)
    <2>1. /\ pc[l] = "user" /\ pc'[l] = "event" /\ efd'[l] = 0 /\ pending' = pending
      BY Zenon, <1>1, <1>6 DEF AsyncIo, Goto, TypeInv, TypeOK
    <2>2. efd[l] # 0
      BY <1>6 DEF AsyncIo
    <2>3. Side(l) = "none" /\ Side(l)' = "event"
      BY Zenon, <2>1 DEF Side
    <2>4. \A k \in Loops : ~Writes(l, k) /\ ~Writes(l, k)' /\ ~Sends(l, k) /\ ~Sends(l, k)'
      BY Zenon, <2>3 DEF Writes, Sends
    <2>5. pending[l] = 1 /\ \A t \in Threads : ~Writes(t, l)
      BY Zenon, <1>1, <2>2 DEF Token
    <2>6. \A t \in Threads : ~Writes(t, l)'
      BY Zenon, <1>5, <2>4, <2>5
    <2>7. Token(l)' /\ Covered(l)'
      BY Zenon, <1>1, <2>1, <2>3, <2>5, <2>6 DEF Token, Covered
    <2> QED BY Zenon, <1>1, <1>3, <1>4, <2>4, <2>7, DoneStep
  <1>7. CASE AsyncEvent(l)
    <2>1. /\ pc[l] = "event" /\ pc'[l] = (IF pending[l] = 1 THEN "done" ELSE "user")
          /\ efd' = efd /\ pending'[l] = 0
      BY Zenon, <1>1, <1>7 DEF AsyncEvent, Goto, TypeInv, TypeOK
    <2>2. Side(l) = "event"
      BY Zenon, <2>1 DEF Side
    <2>3. pending[l] = 1 /\ efd[l] = 0 /\ \A t \in Threads : ~Writes(t, l)
      BY Zenon, <1>1, <2>2 DEF Token
    <2>4. Side(l)' = "done"
      BY Zenon, <2>1, <2>3 DEF Side
    <2>5. \A k \in Loops : ~Writes(l, k) /\ ~Writes(l, k)' /\ ~Sends(l, k) /\ ~Sends(l, k)'
      BY Zenon, <2>2, <2>4 DEF Writes, Sends
    <2>6. \A t \in Threads : ~Writes(t, l)'
      BY Zenon, <1>5, <2>3, <2>5
    <2>7. Token(l)' /\ Covered(l)'
      BY Zenon, <1>1, <2>1, <2>3, <2>4, <2>6 DEF Token, Covered
    <2> QED BY Zenon, <1>1, <1>3, <1>4, <2>5, <2>7, DoneStep
  <1>8. CASE WorkDoneMove(l)
    <2>1. /\ pc[l] = "move" /\ pc'[l] = "pop" /\ UNCHANGED <<pending, efd>> /\ loop_wq'[l] = <<>>
      BY Zenon, <1>1, <1>8 DEF WorkDoneMove, Goto, TypeInv, TypeOK, asyncVars
    <2>2. Side(l) = "done" /\ Side(l)' = "none"
      BY Zenon, <2>1 DEF Side
    <2>3. \A k \in Loops : ~Writes(l, k) /\ ~Writes(l, k)' /\ ~Sends(l, k) /\ ~Sends(l, k)'
      BY Zenon, <2>2 DEF Writes, Sends
    <2>4. \A t \in Threads : Writes(t, l)' <=> Writes(t, l)
      BY Zenon, <1>5, <2>3
    <2>5. Token(l)'
      BY Zenon, <1>1, <2>1, <2>2, <2>4 DEF Token
    <2>6. Covered(l)'
      BY Zenon, <2>1 DEF Covered
    <2> QED BY Zenon, <1>1, <1>3, <1>4, <2>3, <2>5, <2>6, DoneStep
  <1> QED BY Zenon, <1>6, <1>7, <1>8

\* A signal moves workers from "waiting" to "woken" only.
LEMMA SignalledSame ==
    ASSUME TypeInv, NEW x \in Threads, NEW label, Signalled(x, label),
           pc[x] \notin SidePcs, label \notin SidePcs, \A t \in Threads \ {x} : cur'[t] = cur[t]
    PROVE  \A t \in Threads : SameSide(t)
  <1> SUFFICES ASSUME NEW t \in Threads PROVE SameSide(t)
    OBVIOUS
  <1>1. CASE t = x
    BY Zenon, <1>1 DEF Signalled, SameSide, Side, SidePcs
  <1>2. CASE t # x
    <2>1. pc'[t] = pc[t] \/ (pc[t] = "waiting" /\ pc'[t] = "woken")
      BY Zenon, <1>2 DEF Signalled, TypeInv, WorkersOK, TypeOK
    <2> QED BY Zenon, <1>2, <2>1 DEF SameSide, Side
  <1> QED BY Zenon, <1>1, <1>2

LEMMA UnlinkEmpty == ASSUME NEW x PROVE Unlink(<<>>, x) = <<>>
  <1>1. ~ \E i \in 1..Len(<<>>) : <<>>[i] = x
    OBVIOUS
  <1> QED BY Zenon, <1>1 DEF Unlink

LEMMA DoneSeenNext == TypeInv /\ DoneSeen /\ [Next]_vars => DoneSeen'
  <1> SUFFICES ASSUME TypeInv, DoneSeen, [Next]_vars PROVE DoneSeen'
    OBVIOUS
  <1> USE DEF loopVars, asyncVars, Goto, SidePcs
  <1>1. ASSUME NEW w \in Workers, WorkerStep(w) \/ SpuriousWakeup(w) PROVE DoneSeen'
    <2>1. w \in Threads
      BY Zenon DEF Threads
    <2>2. CASE WorkerLock(w)
      BY Zenon, <2>1, <2>2, OthersSame, DoneFrame DEF WorkerLock
    <2>3. CASE WorkerWait(w)
      BY Zenon, <2>1, <2>3, OthersSame, DoneFrame DEF WorkerWait
    <2>4. CASE WorkerWoken(w)
      BY Zenon, <2>1, <2>4, OthersSame, DoneFrame DEF WorkerWoken
    <2>5. CASE WorkerTake(w)
      <3>1. \A t \in Threads \ {w} : cur'[t] = cur[t]
        BY Zenon, <2>5 DEF WorkerTake, TypeInv, TypeOK
      <3> QED BY Zenon, <2>1, <2>5, <3>1, OthersSame, DoneFrame DEF WorkerTake
    <2>6. CASE WorkerExit(w)
      <3>1. pc[w] # "waiting" /\ "exited" \in WorkerPcs \cup LoopPcs
        BY Zenon, <2>6 DEF WorkerExit, WorkerPcs
      <3>2. Signalled(w, "exited")
        BY Zenon, <2>1, <2>6, <3>1, CondSignalStep DEF WorkerExit
      <3> QED BY Zenon, <2>1, <2>6, <3>2, SignalledSame, DoneFrame DEF WorkerExit
    <2>7. CASE WorkerCall(w)
      <3>1. CASE work[cur[w]] = "fn"
        BY Zenon, <2>1, <2>7, <3>1, OthersSame, DoneFrame DEF WorkerCall
      <3>2. CASE work[cur[w]] # "fn"
        BY Zenon, <2>1, <2>7, <3>2, OthersSame, DoneFrame DEF WorkerCall
      <3> QED BY Zenon, <3>1, <3>2
    <2>8. CASE WorkerLockLoop(w)
      BY Zenon, <2>1, <2>8, OthersSame, DoneFrame DEF WorkerLockLoop
    <2>9. CASE WorkerFinish(w)
      BY Zenon, <2>1, <2>9, InsertDone
    <2>10. CASE AsyncSend(w)
      BY Zenon, <2>1, <2>10, SendDone
    <2>11. CASE AsyncWrite(w)
      BY Zenon, <2>1, <2>11, WriteDone
    <2>12. CASE UnlockLoop(w)
      <3>1. \A t \in Threads \ {w} : cur'[t] = cur[t]
        BY Zenon, <2>12 DEF UnlockLoop, TypeInv, TypeOK
      <3> QED BY Zenon, <2>1, <2>12, <3>1, OthersSame, DoneFrame DEF UnlockLoop
    <2>13. CASE SpuriousWakeup(w)
      <3>1. pc[w] = "waiting"
        BY Zenon, <2>13 DEF SpuriousWakeup, TypeInv, WorkersOK
      <3> QED BY Zenon, <2>1, <2>13, <3>1, OthersSame, DoneFrame DEF SpuriousWakeup
    <2> QED BY Zenon, <1>1, <2>2, <2>3, <2>4, <2>5, <2>6, <2>7, <2>8, <2>9, <2>10, <2>11, <2>12,
               <2>13 DEF WorkerStep
  <1>2. ASSUME NEW l \in Loops, LoopStep(l) PROVE DoneSeen'
    <2>1. l \in Threads
      BY Zenon DEF Threads
    <2>2. CASE PostLock(l)
      BY Zenon, <2>1, <2>2, OthersSame, DoneFrame DEF PostLock
    <2>3. CASE PostInsert(l)
      <3>1. pc[l] # "waiting" /\ "user" \in WorkerPcs \cup LoopPcs
        BY Zenon, <2>3 DEF PostInsert, LoopPcs
      <3>2. Signalled(l, "user")
        BY Zenon, <2>1, <2>3, <3>1, PostStep DEF PostInsert
      <3>3. \A t \in Threads \ {l} : cur'[t] = cur[t]
        BY Zenon, <2>3 DEF PostInsert, TypeInv, TypeOK
      <3> QED BY Zenon, <2>1, <2>3, <3>2, <3>3, SignalledSame, DoneFrame DEF PostInsert
    <2>4. CASE CancelLock(l)
      BY Zenon, <2>1, <2>4, OthersSame, DoneFrame DEF CancelLock
    <2>5. CASE CancelLockLoop(l)
      BY Zenon, <2>1, <2>5, OthersSame, DoneFrame DEF CancelLockLoop
    <2>6. CASE CancelTest(l)
      <3>1. \A t \in Threads \ {l} : cur'[t] = cur[t]
        BY Zenon, <2>6 DEF CancelTest, TypeInv, TypeOK
      <3>2. PICK label : pc' = [pc EXCEPT ![l] = label] /\ label \notin SidePcs /\ pc[l] \notin SidePcs
        BY Zenon, <2>6 DEF CancelTest
      <3>3. \A k \in Loops : loop_wq'[k] # <<>> => loop_wq[k] # <<>>
        <4> SUFFICES ASSUME NEW k \in Loops, loop_wq[k] = <<>> PROVE loop_wq'[k] = <<>>
          OBVIOUS
        <4>1. loop_wq'[k] = loop_wq[k] \/ loop_wq'[k] = Unlink(loop_wq[k], cur[l])
          <5>1. loop_wq' = loop_wq \/ loop_wq' = [loop_wq EXCEPT ![l] = Unlink(loop_wq[l], cur[l])]
            BY Zenon, <2>6 DEF CancelTest
          <5> QED BY Zenon, <5>1 DEF TypeInv, TypeOK
        <4> QED BY Zenon, <4>1, UnlinkEmpty
      <3> QED BY Zenon, <2>1, <2>6, <3>1, <3>2, <3>3, OthersSame, DoneFrame DEF CancelTest
    <2>7. CASE CancelMark(l)
      BY Zenon, <2>1, <2>7, OthersSame, DoneFrame DEF CancelMark
    <2>8. CASE CancelRelock(l)
      BY Zenon, <2>1, <2>8, OthersSame, DoneFrame DEF CancelRelock
    <2>9. CASE CancelInsert(l)
      BY Zenon, <2>1, <2>9, InsertDone
    <2>10. CASE AsyncSend(l)
      BY Zenon, <2>1, <2>10, SendDone
    <2>11. CASE AsyncWrite(l)
      BY Zenon, <2>1, <2>11, WriteDone
    <2>12. CASE UnlockLoop(l)
      <3>1. \A t \in Threads \ {l} : cur'[t] = cur[t]
        BY Zenon, <2>12 DEF UnlockLoop, TypeInv, TypeOK
      <3> QED BY Zenon, <2>1, <2>12, <3>1, OthersSame, DoneFrame DEF UnlockLoop
    <2>13. CASE AsyncEvent(l) \/ WorkDoneMove(l)
      BY Zenon, <2>13, LoopDone
    <2>14. CASE WorkDoneLock(l)
      <3>1. pc[l] = "done" /\ pc'[l] = "move" /\ cur' = cur
        BY Zenon, <2>1, <2>14 DEF WorkDoneLock, TypeInv, TypeOK
      <3>2. SameSide(l)
        BY Zenon, <3>1 DEF SameSide, Side
      <3>3. \A t \in Threads : SameSide(t)
        BY Zenon, <2>1, <2>14, <3>2, OthersSame DEF WorkDoneLock
      <3> QED BY Zenon, <2>14, <3>3, DoneFrame DEF WorkDoneLock
    <2>15. CASE WorkDonePop(l)
      BY Zenon, <2>1, <2>15, OthersSame, DoneFrame DEF WorkDonePop
    <2>16. CASE WorkDoneEnd(l)
      BY Zenon, <2>1, <2>16, OthersSame, DoneFrame DEF WorkDoneEnd
    <2>17. CASE ExitLock(l)
      BY Zenon, <2>1, <2>17, OthersSame, DoneFrame DEF ExitLock
    <2>18. CASE ExitInsert(l)
      <3>1. pc[l] # "waiting" /\ "join" \in WorkerPcs \cup LoopPcs
        BY Zenon, <2>18 DEF ExitInsert, LoopPcs
      <3>2. Signalled(l, "join")
        BY Zenon, <2>1, <2>18, <3>1, PostStep DEF ExitInsert
      <3> QED BY Zenon, <2>1, <2>18, <3>2, SignalledSame, DoneFrame DEF ExitInsert
    <2>19. CASE Join(l)
      <3>1. UNCHANGED <<pending, efd, loop_wq, cur>>
        BY Zenon, <2>19 DEF Join
      <3>2. \A t \in Threads : SameSide(t)
        <4> SUFFICES ASSUME NEW t \in Threads PROVE SameSide(t)
          OBVIOUS
        <4>1. pc'[t] = pc[t] \/ (pc[t] \in {"join", "exited"} /\ pc'[t] \in {"user", "none"})
          BY Zenon, <2>19 DEF Join
        <4> QED BY Zenon, <3>1, <4>1 DEF SameSide, Side
      <3> QED BY Zenon, <3>1, <3>2, DoneFrame
    <2> QED BY Zenon, <1>2, <2>2, <2>3, <2>4, <2>5, <2>6, <2>7, <2>8, <2>9, <2>10, <2>11, <2>12,
               <2>13, <2>14, <2>15, <2>16, <2>17, <2>18, <2>19 DEF LoopStep
  <1>3. ASSUME NEW l \in Loops, ProgramStep(l) PROVE DoneSeen'
    <2>1. l \in Threads
      BY Zenon DEF Threads
    <2>2. ASSUME NEW r \in Reqs, QueueWork(l, r) PROVE DoneSeen'
      <3>1. \A t \in Threads \ {l} : cur'[t] = cur[t]
        BY Zenon, <2>2 DEF QueueWork, TypeInv, TypeOK
      <3>2. CASE threads = {}
        <4>1. PICK ws \in SUBSET Workers :
                pc' = [t \in Threads |-> IF t \in ws THEN "lock" ELSE IF t = l THEN "post" ELSE pc[t]]
          BY Zenon, <2>2, <3>2 DEF QueueWork
        <4>2. \A w \in Workers : pc[w] = "none"
          BY Zenon, <3>2 DEF TypeInv, WorkersOK
        <4>3. pc[l] = "user"
          BY Zenon, <2>2 DEF QueueWork
        <4>4. \A t \in Threads : SameSide(t)
          <5> SUFFICES ASSUME NEW t \in Threads PROVE SameSide(t)
            OBVIOUS
          <5>1. (pc'[t] = pc[t] /\ t # l) \/ (pc[t] \in {"none", "user"} /\ pc'[t] \in {"lock", "post"})
            BY Zenon, <4>1, <4>2, <4>3
          <5> QED BY Zenon, <3>1, <5>1 DEF SameSide, Side
        <4> QED BY Zenon, <2>2, <4>4, DoneFrame DEF QueueWork
      <3>3. CASE threads # {}
        <4>1. pc[l] = "user" /\ pc' = [pc EXCEPT ![l] = "post"]
          BY Zenon, <2>2, <3>3 DEF QueueWork
        <4>2. \A t \in Threads : SameSide(t)
          BY Zenon, <2>1, <3>1, <4>1, OthersSame
        <4> QED BY Zenon, <2>2, <4>2, DoneFrame DEF QueueWork
      <3> QED BY Zenon, <3>2, <3>3
    <2>3. ASSUME NEW r \in Reqs, Cancel(l, r) PROVE DoneSeen'
      <3>1. \A t \in Threads \ {l} : cur'[t] = cur[t]
        BY Zenon, <2>3 DEF Cancel, TypeInv, TypeOK
      <3> QED BY Zenon, <2>1, <2>3, <3>1, OthersSame, DoneFrame DEF Cancel
    <2>4. CASE Cleanup(l)
      BY Zenon, <2>1, <2>4, OthersSame, DoneFrame DEF Cleanup
    <2>5. CASE AsyncIo(l)
      BY Zenon, <2>5, LoopDone
    <2>6. CASE CallbackReturns(l)
      BY Zenon, <2>1, <2>6, OthersSame, DoneFrame DEF CallbackReturns
    <2> QED BY Zenon, <1>3, <2>2, <2>3, <2>4, <2>5, <2>6 DEF ProgramStep
  <1>4. CASE UNCHANGED vars
    <2>1. \A t \in Threads : SameSide(t)
      BY Zenon, <1>4 DEF vars, ctlVars, SameSide, Side
    <2> QED BY Zenon, <1>4, <2>1, DoneFrame DEF vars
  <1> QED BY Zenon, <1>1, <1>2, <1>3, <1>4 DEF Next

-----------------------------------------------------------------------------
LEMMA SeenImplies == TypeInv /\ WorkSeen /\ DoneSeen => NoLostWakeup
  <1> SUFFICES ASSUME TypeInv, WorkSeen, DoneSeen PROVE NoLostWakeup
    OBVIOUS
  <1>1. waiting = {} \/ Len(wq) <= Cardinality({w \in Workers : pc[w] \in {"lock", "locked", "woken"}})
    BY Zenon DEF WorkSeen, Coming, Comes
  <1>2. ASSUME NEW l \in Loops, loop_wq[l] # <<>>
        PROVE  \/ efd[l] > 0
               \/ pc[l] \in {"event", "done", "move"} /\ (pc[l] = "event" => pending[l] = 1)
               \/ \E t \in Threads : pc[t] \in {"send", "write"} /\ LoopOf[cur[t]] = l
    <2>1. Token(l) /\ Covered(l) /\ pending[l] \in {0, 1}
      BY Zenon DEF DoneSeen, TypeInv, TypeOK
    <2>2. CASE pending[l] = 1
      <3>1. efd[l] # 0 => efd[l] > 0
        BY DEF TypeInv, TypeOK
      <3> QED BY Zenon, <2>1, <2>2, <3>1 DEF Token, Side, Writes
    <2>3. CASE pending[l] # 1
      <3>1. Side(l) = "done" \/ \E t \in Threads : Sends(t, l)
        BY Zenon, <1>2, <2>1, <2>3 DEF Covered
      <3> QED BY Zenon, <3>1 DEF Side, Sends
    <2> QED BY Zenon, <2>2, <2>3
  <1> QED BY Zenon, <1>1, <1>2 DEF NoLostWakeup

\* No wakeup that post() or uv_async_send leaves out is missed, for any number
\* of workers, loops and requests (threadpool.c:122-128, unix/async.c:84-93).
THEOREM NoWakeupIsLost == Spec => []NoLostWakeup
  <1>1. Init => TypeInv /\ WorkSeen /\ DoneSeen
    <2> SUFFICES ASSUME Init PROVE WorkSeen /\ DoneSeen
      BY Zenon, TypeInvInit
    <2>1. WorkSeen
      BY Zenon DEF Init, WorkSeen
    <2>2. \A t \in Threads : Side(t) = "none"
      BY Zenon DEF Init, Side
    <2>3. \A t \in Threads : \A l : ~Writes(t, l)
      BY Zenon, <2>2 DEF Writes
    <2>4. 0 # 1
      OBVIOUS
    <2>5. ASSUME NEW l \in Loops PROVE Token(l) /\ Covered(l)
      <3>1. pending[l] = 0 /\ efd[l] = 0 /\ loop_wq[l] = <<>> /\ Side(l) = "none"
        BY Zenon, <2>2 DEF Init, Threads
      <3> QED BY Zenon, <2>3, <2>4, <3>1 DEF Token, Covered
    <2> QED BY Zenon, <2>1, <2>5 DEF DoneSeen
  <1>2. TypeInv /\ WorkSeen /\ DoneSeen /\ [Next]_vars => (TypeInv /\ WorkSeen /\ DoneSeen)'
    BY Zenon, TypeInvNext, WorkSeenNext, DoneSeenNext
  <1> QED BY <1>1, <1>2, SeenImplies, PTL DEF Spec
=============================================================================
