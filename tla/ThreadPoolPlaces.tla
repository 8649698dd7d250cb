-------------------------- MODULE ThreadPoolPlaces --------------------------
(***************************************************************************)
(* Where a work request is, for any number of workers, loops and requests: *)
(* it is never in two places, no worker calls a cancelled request, and the *)
(* status of a done callback is right; the pool implements the abstract    *)
(* work queue; and no request is lost.                                     *)
(***************************************************************************)
EXTENDS ThreadPoolProofs

-----------------------------------------------------------------------------
(***************************************************************************)
(* Where requests are.  Stage(t) says what thread t is doing to the        *)
(* request cur[t]; the first five stages hold the request outside every    *)
(* queue.                                                                  *)
(***************************************************************************)
Stage(t) ==
    CASE pc[t] = "call" -> "taken"
      [] pc[t] \in {"exec", "finish"} -> "ran"
      [] pc[t] \in {"post", "posting"} -> "new"
      [] pc[t] = "cancelled" -> "cancelled"
      [] pc[t] \in {"requeue", "requeueing"} -> "marked"
      [] pc[t] \in {"cancel", "cancel_loop", "cancel_test"} -> "cancelling"
      [] pc[t] = "aborted" -> "aborted"
      [] OTHER -> "none"

HoldStages == {"taken", "ran", "new", "cancelled", "marked"}

Holds(t, r) == cur[t] = r /\ Stage(t) \in HoldStages
Held(r) == \E t \in Threads : Holds(t, r)

\* A request that has been dealt with: it ran and was reset, or was cancelled.
Dealt(r) == \/ work[r] = "null" /\ r \in ran
            \/ work[r] = "cancelled" /\ r \notin ran

\* What a thread may rely on about the request it works on.
TaskOK == \A t \in Threads : Stage(t) # "none" =>
    /\ Stage(t) # "aborted"
    /\ cur[t] \in active
    /\ Stage(t) \in {"taken", "ran"} => work[cur[t]] = "fn" /\ ~linked[cur[t]]
    /\ Stage(t) = "new" => work[cur[t]] = "fn"
    /\ Stage(t) = "cancelled" => work[cur[t]] # "null"
    /\ Stage(t) = "marked" => work[cur[t]] = "cancelled"
    /\ Stage(t) = "ran" => cur[t] \in ran
    /\ Stage(t) \in {"taken", "new", "cancelled", "marked"} => cur[t] \notin ran

OneHolder == \A t, u \in Threads, r \in Reqs : Holds(t, r) /\ Holds(u, r) => t = u

WqOK == \A r \in Reqs : In(wq, r) =>
    /\ r \in active /\ r \notin ran /\ work[r] = "fn" /\ linked[r]
    /\ ~Held(r)

LoopWqOK == \A l \in Loops, r \in Reqs : In(loop_wq[l], r) =>
    /\ LoopOf[r] = l /\ r \in active /\ Dealt(r) /\ linked[r]
    /\ ~Held(r) /\ ~In(local_wq[l], r)

LocalWqOK == \A l \in Loops, r \in Reqs : In(local_wq[l], r) =>
    /\ LoopOf[r] = l /\ r \in active /\ Dealt(r) /\ linked[r]
    /\ ~Held(r)

QueuesOnce == /\ Once(wq)
              /\ \A l \in Loops : Once(loop_wq[l]) /\ Once(local_wq[l])

\* What uv__work_cancel concludes from a linked node and a non-NULL work.
LinkedOK == \A r \in active : /\ work[r] = "fn" /\ linked[r] => r \notin ran
                              /\ work[r] = "cancelled" => r \notin ran

PlaceInv == TaskOK /\ OneHolder /\ WqOK /\ LoopWqOK /\ LocalWqOK /\ QueuesOnce /\ LinkedOK

-----------------------------------------------------------------------------
(***************************************************************************)
(* Steps that do not move a request.                                       *)
(***************************************************************************)
reqState == <<wq, loop_wq, local_wq, work, linked, active, ran>>

\* Thread t does not change what it is doing to a request.
Keeps(t) == Stage(t)' = Stage(t) /\ (Stage(t) # "none" => cur'[t] = cur[t])
OthersKeep(x) == \A t \in Threads \ {x} : Keeps(t)

LEMMA PlaceFrame ==
    ASSUME PlaceInv, UNCHANGED reqState, \A t \in Threads : Keeps(t)
    PROVE  PlaceInv'
  <1> USE DEF reqState, Keeps
  <1>1. \A t \in Threads : \A r : Holds(t, r)' <=> Holds(t, r)
    BY Zenon DEF Holds, HoldStages
  <1>2. \A r : Held(r)' <=> Held(r)
    BY Zenon, <1>1 DEF Held
  <1>3. \A r : Dealt(r)' <=> Dealt(r)
    BY Zenon DEF Dealt
  <1>4. TaskOK'
    BY Zenon DEF PlaceInv, TaskOK
  <1>5. OneHolder'
    BY Zenon, <1>1 DEF PlaceInv, OneHolder
  <1>6. WqOK' /\ LoopWqOK' /\ LocalWqOK'
    <2>1. WqOK'
      BY Zenon, <1>2, <1>3 DEF PlaceInv, WqOK
    <2>2. LoopWqOK'
      BY Zenon, <1>2, <1>3 DEF PlaceInv, LoopWqOK
    <2>3. LocalWqOK'
      BY Zenon, <1>2, <1>3 DEF PlaceInv, LocalWqOK
    <2> QED BY Zenon, <2>1, <2>2, <2>3
  <1>7. QueuesOnce' /\ LinkedOK'
    BY Zenon DEF PlaceInv, QueuesOnce, LinkedOK
  <1> QED BY Zenon, <1>4, <1>5, <1>6, <1>7 DEF PlaceInv

\* Thread x comes to hold the request cur'[x].
LEMMA HeldTaken ==
    ASSUME NEW x \in Threads, OthersKeep(x), Stage(x) \notin HoldStages, Stage(x)' \in HoldStages
    PROVE  /\ \A r : Held(r)' <=> Held(r) \/ r = cur'[x]
           /\ OneHolder /\ ~Held(cur'[x]) => OneHolder'
  <1>1. \A t \in Threads \ {x} : \A r : Holds(t, r)' <=> Holds(t, r)
    BY Zenon DEF Holds, HoldStages, OthersKeep, Keeps
  <1>2. \A r : ~Holds(x, r) /\ (Holds(x, r)' <=> r = cur'[x])
    BY Zenon DEF Holds
  <1>3. \A r : Held(r)' <=> Held(r) \/ r = cur'[x]
    BY Zenon, <1>1, <1>2 DEF Held
  <1>4. OneHolder /\ ~Held(cur'[x]) => OneHolder'
    BY Zenon, <1>1, <1>2 DEF OneHolder, Held
  <1> QED BY Zenon, <1>3, <1>4

\* Thread x lets go of the request cur[x].
LEMMA HeldDropped ==
    ASSUME NEW x \in Threads, OthersKeep(x), Stage(x) \in HoldStages, Stage(x)' \notin HoldStages,
           OneHolder
    PROVE  /\ \A r \in Reqs : Held(r)' <=> Held(r) /\ r # cur[x]
           /\ OneHolder'
  <1>1. \A t \in Threads \ {x} : \A r : Holds(t, r)' <=> Holds(t, r)
    BY Zenon DEF Holds, HoldStages, OthersKeep, Keeps
  <1>2. \A r : ~Holds(x, r)' /\ (Holds(x, r) <=> r = cur[x])
    BY Zenon DEF Holds
  <1>3. \A r \in Reqs : Held(r)' <=> Held(r) /\ r # cur[x]
    BY Zenon, <1>1, <1>2 DEF Held, OneHolder
  <1>4. OneHolder'
    BY Zenon, <1>1, <1>2 DEF OneHolder
  <1> QED BY Zenon, <1>3, <1>4

\* Thread x goes on holding, or goes on not holding, the same request.
LEMMA HeldKept ==
    ASSUME NEW x \in Threads, OthersKeep(x),
           \/ Stage(x) \in HoldStages /\ Stage(x)' \in HoldStages /\ cur'[x] = cur[x]
           \/ Stage(x) \notin HoldStages /\ Stage(x)' \notin HoldStages
    PROVE  /\ \A r : Held(r)' <=> Held(r)
           /\ OneHolder => OneHolder'
  <1>1. \A t \in Threads : \A r : Holds(t, r)' <=> Holds(t, r)
    BY Zenon DEF Holds, HoldStages, OthersKeep, Keeps
  <1> QED BY Zenon, <1>1 DEF Held, OneHolder

LEMMA QuietWorkerSteps ==
    ASSUME TypeInv, NEW w \in Workers,
           \/ WorkerLock(w) \/ WorkerWait(w) \/ SpuriousWakeup(w) \/ WorkerWoken(w)
           \/ WorkerExit(w) \/ WorkerLockLoop(w)
    PROVE  UNCHANGED reqState /\ \A t \in Threads : Keeps(t)
  <1> USE ThreadsAssumption DEF TypeInv, TypeOK, WorkersOK, Threads, reqState, reqVars, poolVars,
                                loopVars, Goto, Keeps, Stage
  <1>1. CASE WorkerLock(w)
    BY Zenon, <1>1 DEF WorkerLock
  <1>2. CASE WorkerWait(w)
    BY Zenon, <1>2 DEF WorkerWait
  <1>3. CASE SpuriousWakeup(w)
    BY Zenon, <1>3 DEF SpuriousWakeup
  <1>4. CASE WorkerWoken(w)
    BY Zenon, <1>4 DEF WorkerWoken
  <1>5. CASE WorkerExit(w)
    <2>1. pc[w] = "locked" /\ "exited" \in WorkerPcs \cup LoopPcs /\ w \in Threads
      BY Zenon, <1>5 DEF WorkerExit, WorkerPcs
    <2>2. Signalled(w, "exited")
      BY Zenon, <1>5, <2>1, CondSignalStep DEF WorkerExit
    <2>3. \A t \in Threads : pc[t] = pc'[t] \/ (pc[t] \in {"locked", "waiting"} /\ pc'[t] \in {"exited", "woken"})
      BY ZenonT(60), <2>1, <2>2 DEF Signalled
    <2> QED BY Zenon, <1>5, <2>3 DEF WorkerExit
  <1>6. CASE WorkerLockLoop(w)
    BY Zenon, <1>6 DEF WorkerLockLoop
  <1> QED BY Zenon, <1>1, <1>2, <1>3, <1>4, <1>5, <1>6

LEMMA QuietSendSteps ==
    ASSUME TypeInv, NEW t \in Threads, AsyncSend(t) \/ AsyncWrite(t) \/ UnlockLoop(t)
    PROVE  UNCHANGED reqState /\ \A u \in Threads : Keeps(u)
  <1> USE DEF TypeInv, TypeOK, reqState, reqVars, poolVars, loopVars, Goto, Keeps, Stage
  <1>1. CASE AsyncSend(t)
    BY Zenon, <1>1 DEF AsyncSend
  <1>2. CASE AsyncWrite(t)
    BY Zenon, <1>2 DEF AsyncWrite
  <1>3. CASE UnlockLoop(t)
    BY Zenon, <1>3 DEF UnlockLoop
  <1> QED BY Zenon, <1>1, <1>2, <1>3

LEMMA QuietLoopSteps ==
    ASSUME TypeInv, NEW l \in Loops,
           \/ PostLock(l) \/ CancelLock(l) \/ CancelLockLoop(l) \/ CancelRelock(l)
           \/ AsyncIo(l) \/ AsyncEvent(l) \/ WorkDoneLock(l) \/ WorkDoneEnd(l)
           \/ CallbackReturns(l) \/ Cleanup(l) \/ ExitLock(l) \/ Join(l)
    PROVE  UNCHANGED reqState /\ \A t \in Threads : Keeps(t)
  <1> USE DEF TypeInv, TypeOK, WorkersOK, Threads, reqState, reqVars, poolVars, loopVars, Goto, Keeps, Stage
  <1>1. CASE PostLock(l)
    BY Zenon, <1>1 DEF PostLock
  <1>2. CASE CancelLock(l)
    BY Zenon, <1>2 DEF CancelLock
  <1>3. CASE CancelLockLoop(l)
    BY Zenon, <1>3 DEF CancelLockLoop
  <1>4. CASE CancelRelock(l)
    BY Zenon, <1>4 DEF CancelRelock
  <1>5. CASE AsyncIo(l)
    BY Zenon, <1>5 DEF AsyncIo
  <1>6. CASE AsyncEvent(l)
    BY Zenon, <1>6 DEF AsyncEvent
  <1>7. CASE WorkDoneLock(l)
    BY Zenon, <1>7 DEF WorkDoneLock
  <1>8. CASE WorkDoneEnd(l)
    BY Zenon, <1>8 DEF WorkDoneEnd
  <1>9. CASE CallbackReturns(l)
    BY Zenon, <1>9 DEF CallbackReturns
  <1>10. CASE Cleanup(l)
    BY Zenon, <1>10 DEF Cleanup
  <1>11. CASE ExitLock(l)
    BY Zenon, <1>11 DEF ExitLock
  <1>12. CASE Join(l)
    BY Zenon, <1>12 DEF Join
  <1> QED BY Zenon, <1>1, <1>2, <1>3, <1>4, <1>5, <1>6, <1>7, <1>8, <1>9, <1>10, <1>11, <1>12

-----------------------------------------------------------------------------
(***************************************************************************)
(* Steps that move a request from one place to the next.                   *)
(***************************************************************************)
\* A worker takes the head of the pool's queue.
LEMMA TakePlaces ==
    ASSUME TypeInv, PlaceInv, NEW w \in Workers, WorkerTake(w)
    PROVE  PlaceInv'
  <1> DEFINE r0 == Head(wq)
  <1>1. /\ r0 \in Reqs /\ In(wq, r0)
        /\ \A r \in Reqs : In(wq', r) => In(wq, r) /\ r # r0
        /\ Once(wq')
    BY TailIn DEF WorkerTake, TypeInv, TypeOK, PlaceInv, QueuesOnce
  <1>2. /\ w \in Threads /\ OthersKeep(w)
        /\ Stage(w) = "none" /\ Stage(w)' = "taken" /\ cur'[w] = r0
    BY Zenon DEF WorkerTake, TypeInv, TypeOK, Threads, OthersKeep, Keeps, Stage, Goto
  <1>3. /\ UNCHANGED <<loop_wq, local_wq, work, active, ran>>
        /\ linked' = [linked EXCEPT ![r0] = FALSE] /\ linked \in [Reqs -> BOOLEAN]
    BY Zenon DEF WorkerTake, loopVars, TypeInv, TypeOK
  <1>4. r0 \in active /\ r0 \notin ran /\ work[r0] = "fn" /\ ~Held(r0)
    BY Zenon, <1>1 DEF PlaceInv, WqOK
  <1> HIDE DEF r0
  <1>5. (\A r : Held(r)' <=> Held(r) \/ r = r0) /\ OneHolder'
    <2>1. Stage(w) \notin HoldStages /\ Stage(w)' \in HoldStages /\ OneHolder
      BY Zenon, <1>2 DEF HoldStages, PlaceInv
    <2> QED BY Zenon, <1>2, <1>4, <2>1, HeldTaken
  <1>6. TaskOK'
    BY <1>1, <1>2, <1>3, <1>4 DEF PlaceInv, TaskOK, OthersKeep, Keeps, TypeInv, CurOK
  <1>7. WqOK'
    BY Zenon, <1>1, <1>3, <1>5 DEF PlaceInv, WqOK
  <1>8. \A r \in Reqs : Dealt(r) => r # r0 /\ Dealt(r)'
    BY Zenon, <1>3, <1>4 DEF Dealt
  <1>9. LoopWqOK' /\ LocalWqOK'
    <2>1. LoopWqOK'
      BY Zenon, <1>3, <1>5, <1>8 DEF PlaceInv, LoopWqOK
    <2>2. LocalWqOK'
      BY Zenon, <1>3, <1>5, <1>8 DEF PlaceInv, LocalWqOK
    <2> QED BY Zenon, <2>1, <2>2
  <1>10. QueuesOnce' /\ LinkedOK'
    <2>1. QueuesOnce'
      BY Zenon, <1>1, <1>3 DEF PlaceInv, QueuesOnce, TypeInv, TypeOK
    <2>2. LinkedOK'
      BY Zenon, <1>1, <1>3 DEF PlaceInv, LinkedOK, TypeInv, TypeOK
    <2> QED BY Zenon, <2>1, <2>2
  <1> QED BY Zenon, <1>5, <1>6, <1>7, <1>9, <1>10 DEF PlaceInv

\* A worker calls the work function: its request is not a cancelled one.
LEMMA CallPlaces ==
    ASSUME TypeInv, PlaceInv, NEW w \in Workers, WorkerCall(w)
    PROVE  PlaceInv' /\ pc'[w] = "exec"
  <1> DEFINE r0 == cur[w]
  <1>1. w \in Threads /\ Stage(w) = "taken" /\ r0 \in Reqs
    BY Zenon DEF WorkerCall, TypeInv, TypeOK, CurOK, BusyPcs, Threads, Stage
  <1>2. r0 \in active /\ work[r0] = "fn" /\ ~linked[r0]
    BY Zenon, <1>1 DEF PlaceInv, TaskOK
  <1>3. pc' = [pc EXCEPT ![w] = "exec"] /\ ran' = ran \cup {r0}
    BY Zenon, <1>2 DEF WorkerCall, Goto
  <1>4. UNCHANGED <<wq, loop_wq, local_wq, work, linked, active, cur>>
    BY Zenon DEF WorkerCall, poolVars, loopVars
  <1>5. Held(r0) /\ Holds(w, r0)
    BY Zenon, <1>1 DEF Held, Holds, HoldStages
  <1>6. OthersKeep(w) /\ Stage(w)' = "ran" /\ pc'[w] = "exec"
    BY Zenon, <1>1, <1>3, <1>4 DEF TypeInv, TypeOK, OthersKeep, Keeps, Stage
  <1> HIDE DEF r0
  <1>7. (\A r : Held(r)' <=> Held(r)) /\ OneHolder'
    BY Zenon, <1>1, <1>4, <1>6, HeldKept DEF HoldStages, PlaceInv
  <1>8. TaskOK'
    <2> SUFFICES ASSUME NEW t \in Threads, Stage(t)' # "none"
                 PROVE  TaskOK!(t)'
      BY Zenon DEF TaskOK
    <2>1. CASE t = w
      <3>1. Stage(t)' = "ran" /\ cur'[t] = r0
        BY Zenon, <1>4, <1>6, <2>1 DEF r0
      <3>2. r0 \in active' /\ r0 \in ran' /\ work'[r0] = "fn" /\ ~linked'[r0]
        BY Zenon, <1>2, <1>3, <1>4
      <3> QED BY Zenon, <3>1, <3>2
    <2>2. CASE t # w
      <3>1. Stage(t)' = Stage(t) /\ cur'[t] = cur[t] /\ Stage(t) # "none"
        BY Zenon, <1>6, <2>2 DEF OthersKeep, Keeps
      <3>2. Stage(t) \in HoldStages => cur[t] # r0
        BY Zenon, <1>1, <1>5, <2>2 DEF PlaceInv, OneHolder, Holds
      <3> QED BY Zenon, <1>3, <1>4, <3>1, <3>2 DEF PlaceInv, TaskOK, HoldStages
    <2> QED BY Zenon, <2>1, <2>2
  <1>9. \A r \in Reqs : Dealt(r) => Dealt(r)'
    BY Zenon, <1>2, <1>3, <1>4 DEF Dealt
  <1>10. WqOK' /\ LoopWqOK' /\ LocalWqOK'
    <2>1. WqOK'
      BY Zenon, <1>3, <1>4, <1>5, <1>7, <1>9 DEF PlaceInv, WqOK
    <2>2. LoopWqOK'
      BY Zenon, <1>3, <1>4, <1>5, <1>7, <1>9 DEF PlaceInv, LoopWqOK
    <2>3. LocalWqOK'
      BY Zenon, <1>3, <1>4, <1>5, <1>7, <1>9 DEF PlaceInv, LocalWqOK
    <2> QED BY Zenon, <2>1, <2>2, <2>3
  <1>11. QueuesOnce' /\ LinkedOK'
    <2>1. QueuesOnce'
      BY Zenon, <1>2, <1>3, <1>4 DEF PlaceInv, QueuesOnce
    <2>2. LinkedOK'
      BY Zenon, <1>2, <1>3, <1>4 DEF PlaceInv, LinkedOK
    <2> QED BY Zenon, <2>1, <2>2
  <1> QED BY Zenon, <1>6, <1>7, <1>8, <1>10, <1>11 DEF PlaceInv

\* A thread hands the request it holds to its loop's completion queue.
LEMMA CompletePlaces ==
    ASSUME TypeInv, PlaceInv, NEW x \in Threads, NEW r0 \in Reqs, NEW l0 \in Loops,
           cur[x] = r0, LoopOf[r0] = l0,
           Stage(x) \in HoldStages, Stage(x)' = "none", OthersKeep(x), Dealt(r0)',
           wq' = wq, local_wq' = local_wq, active' = active, ran' = ran, cur' = cur,
           \A r \in Reqs \ {r0} : work'[r] = work[r],
           linked' = [linked EXCEPT ![r0] = TRUE],
           loop_wq' = [loop_wq EXCEPT ![l0] = Append(loop_wq[l0], r0)]
    PROVE  PlaceInv'
  <1>1. Holds(x, r0) /\ Held(r0) /\ r0 \in active
    BY Zenon DEF PlaceInv, TaskOK, Held, Holds, HoldStages
  <1>2. /\ linked'[r0]
        /\ \A r \in Reqs \ {r0} : (Dealt(r) => Dealt(r)') /\ linked'[r] = linked[r]
        /\ loop_wq[l0] \in Seq(Reqs)
        /\ \A l \in Loops \ {l0} : loop_wq'[l] = loop_wq[l]
        /\ loop_wq'[l0] = Append(loop_wq[l0], r0)
    BY Zenon DEF TypeInv, TypeOK, Dealt
  <1>3. (\A r \in Reqs : Held(r)' <=> Held(r) /\ r # r0) /\ OneHolder'
    BY Zenon, HeldDropped DEF HoldStages, PlaceInv
  <1>4. TaskOK'
    <2> SUFFICES ASSUME NEW t \in Threads, Stage(t)' # "none"
                 PROVE  TaskOK!(t)'
      BY Zenon DEF TaskOK
    <2>1. Stage(t)' = Stage(t) /\ cur'[t] = cur[t] /\ Stage(t) # "none" /\ t # x
      BY Zenon DEF OthersKeep, Keeps
    <2>2. Stage(t) \in HoldStages => cur[t] # r0
      BY Zenon, <1>1, <2>1 DEF PlaceInv, OneHolder, Holds
    <2>3. cur[t] \in active /\ active \subseteq Reqs
      BY Zenon, <2>1 DEF PlaceInv, TaskOK, TypeInv, TypeOK
    <2>4. TaskOK!(t)!2
      BY Zenon, <2>1 DEF PlaceInv, TaskOK
    <2>5. CASE cur[t] = r0
      <3>1. Stage(t) \notin HoldStages
        BY Zenon, <2>2, <2>5
      <3> QED BY Zenon, <2>1, <2>4, <3>1 DEF HoldStages
    <2>6. CASE cur[t] # r0
      <3>1. work'[cur[t]] = work[cur[t]] /\ linked'[cur[t]] = linked[cur[t]]
        BY Zenon, <1>2, <2>3, <2>6
      <3> QED BY Zenon, <2>1, <2>4, <3>1
    <2> QED BY Zenon, <2>5, <2>6
  <1>5. WqOK'
    <2> SUFFICES ASSUME NEW r \in Reqs, In(wq', r) PROVE WqOK!(r)!2'
      BY Zenon DEF WqOK
    <2>1. WqOK!(r)!2 /\ r # r0
      BY Zenon, <1>1 DEF PlaceInv, WqOK
    <2> QED BY Zenon, <1>2, <1>3, <2>1
  <1>6. LocalWqOK'
    <2> SUFFICES ASSUME NEW l \in Loops, NEW r \in Reqs, In(local_wq'[l], r)
                 PROVE  LocalWqOK!(l, r)!2'
      BY Zenon DEF LocalWqOK
    <2>1. LocalWqOK!(l, r)!2 /\ r # r0
      BY Zenon, <1>1 DEF PlaceInv, LocalWqOK
    <2> QED BY Zenon, <1>2, <1>3, <2>1
  <1>7. ~In(loop_wq[l0], r0) /\ ~In(local_wq[l0], r0)
    BY Zenon, <1>1 DEF PlaceInv, LoopWqOK, LocalWqOK
  <1>8. /\ \A r : In(loop_wq'[l0], r) <=> In(loop_wq[l0], r) \/ r = r0
        /\ Once(loop_wq[l0]) => Once(loop_wq'[l0])
    <2>1. /\ \A r : In(Append(loop_wq[l0], r0), r) <=> In(loop_wq[l0], r) \/ r = r0
          /\ Once(loop_wq[l0]) => Once(Append(loop_wq[l0], r0))
      BY <1>2, <1>7, AppendIn
    <2> QED BY ZenonT(60), <1>2, <2>1
  <1>9. LoopWqOK'
    <2> SUFFICES ASSUME NEW l \in Loops, NEW r \in Reqs, In(loop_wq'[l], r)
                 PROVE  LoopWqOK!(l, r)!2'
      BY Zenon DEF LoopWqOK
    <2>1. CASE r = r0
      <3>1. l = l0
        <4>1. ~In(loop_wq[l], r0)
          BY Zenon, <1>1 DEF PlaceInv, LoopWqOK
        <4> QED BY Zenon, <1>2, <2>1, <4>1
      <3> QED BY Zenon, <1>1, <1>2, <1>3, <1>7, <2>1, <3>1
    <2>2. CASE r # r0
      <3>1. In(loop_wq[l], r)
        BY Zenon, <1>2, <1>8, <2>2
      <3> QED BY Zenon, <1>2, <1>3, <2>2, <3>1 DEF PlaceInv, LoopWqOK
    <2> QED BY Zenon, <2>1, <2>2
  <1>10. QueuesOnce'
    BY Zenon, <1>2, <1>8 DEF PlaceInv, QueuesOnce
  <1>11. LinkedOK'
    <2> SUFFICES ASSUME NEW r \in active' PROVE LinkedOK!(r)'
      BY Zenon DEF LinkedOK
    <2>1. r \in Reqs /\ LinkedOK!(r)
      BY Zenon DEF PlaceInv, LinkedOK, TypeInv, TypeOK
    <2>2. CASE r = r0
      BY Zenon, <2>2 DEF Dealt
    <2>3. CASE r # r0
      BY Zenon, <1>2, <2>1, <2>3
    <2> QED BY Zenon, <2>2, <2>3
  <1> QED BY Zenon, <1>3, <1>4, <1>5, <1>6, <1>9, <1>10, <1>11 DEF PlaceInv

LEMMA FinishPlaces ==
    ASSUME TypeInv, PlaceInv, NEW w \in Workers, WorkerFinish(w)
    PROVE  PlaceInv'
  <1>1. PICK r0, l0 : r0 = cur[w] /\ l0 = LoopOf[r0]
    OBVIOUS
  <1>2. w \in Threads /\ Stage(w) = "ran" /\ r0 \in Reqs /\ l0 \in Loops
    BY Zenon, <1>1, ReqsAssumption DEF WorkerFinish, TypeInv, TypeOK, CurOK, BusyPcs, Threads, Stage
  <1>3. r0 \in ran
    BY Zenon, <1>1, <1>2 DEF PlaceInv, TaskOK
  <1>4. /\ UNCHANGED <<wq, local_wq, active, ran, cur>>
        /\ work'[r0] = "null" /\ \A r \in Reqs \ {r0} : work'[r] = work[r]
        /\ linked' = [linked EXCEPT ![r0] = TRUE]
        /\ loop_wq' = [loop_wq EXCEPT ![l0] = Append(loop_wq[l0], r0)]
    BY Zenon, <1>1, <1>2 DEF WorkerFinish, poolVars, TypeInv, TypeOK
  <1>5. OthersKeep(w) /\ Stage(w)' = "none" /\ Stage(w) \in HoldStages
    BY ZenonT(60), <1>2, <1>4 DEF WorkerFinish, TypeInv, TypeOK, OthersKeep, Keeps, Stage, Goto, HoldStages
  <1>6. Dealt(r0)'
    BY Zenon, <1>3, <1>4 DEF Dealt
  <1> QED BY Zenon, <1>1, <1>2, <1>4, <1>5, <1>6, CompletePlaces

LEMMA CancelInsertPlaces ==
    ASSUME TypeInv, PlaceInv, NEW l \in Loops, CancelInsert(l)
    PROVE  PlaceInv'
  <1>1. PICK r0 : r0 = cur[l]
    OBVIOUS
  <1>2. l \in Threads /\ Stage(l) = "marked" /\ r0 \in Reqs /\ LoopOf[r0] = l
    BY Zenon, <1>1 DEF CancelInsert, TypeInv, TypeOK, CurOK, BusyPcs, Threads, Stage
  <1>3. r0 \notin ran /\ work[r0] = "cancelled"
    BY Zenon, <1>1, <1>2 DEF PlaceInv, TaskOK
  <1>4. /\ UNCHANGED <<wq, local_wq, active, ran, work, cur>>
        /\ linked' = [linked EXCEPT ![r0] = TRUE]
        /\ loop_wq' = [loop_wq EXCEPT ![l] = Append(loop_wq[l], r0)]
    BY Zenon, <1>1, <1>2 DEF CancelInsert, poolVars, TypeInv, TypeOK
  <1>5. OthersKeep(l) /\ Stage(l)' = "none" /\ Stage(l) \in HoldStages
    BY <1>2, <1>4 DEF CancelInsert, TypeInv, TypeOK, OthersKeep, Keeps, Stage, Goto, HoldStages
  <1>6. Dealt(r0)'
    BY Zenon, <1>3, <1>4 DEF Dealt
  <1> QED BY Zenon, <1>1, <1>2, <1>4, <1>5, <1>6, CompletePlaces

\* uv_queue_work takes charge of a request that is nowhere.
LEMMA QueueWorkPlaces ==
    ASSUME TypeInv, PlaceInv, NEW l \in Loops, NEW r0 \in Reqs, QueueWork(l, r0)
    PROVE  PlaceInv'
  <1>1. /\ l \in Threads /\ r0 \notin active /\ active' = active \cup {r0} /\ ran' = ran \ {r0}
        /\ work' = [work EXCEPT ![r0] = "fn"] /\ cur' = [cur EXCEPT ![l] = r0]
        /\ UNCHANGED <<loop_wq, local_wq, linked>> /\ LoopOf[r0] = l
    BY Zenon DEF QueueWork, Threads, loopVars
  <1>2. \A r \in Reqs : In(wq', r) => In(wq, r)
    <2>1. wq' = wq \/ wq' = <<>>
      BY Zenon DEF QueueWork
    <2> QED BY SMTT(60), <2>1 DEF In
  <1>3. Once(wq')
    <2>1. wq' = wq \/ wq' = <<>>
      BY Zenon DEF QueueWork
    <2> QED BY SMTT(60), <2>1 DEF PlaceInv, QueuesOnce, Once
  <1>4. /\ pc[l] = "user" /\ pc'[l] = "post"
        /\ \A t \in Threads \ {l} : \/ pc'[t] = pc[t]
                                    \/ pc[t] = "none" /\ pc'[t] = "lock"
    <2>1. CASE threads = {}
      BY SMTT(60), <2>1, ThreadsAssumption DEF QueueWork, TypeInv, TypeOK, WorkersOK, Threads
    <2>2. CASE threads # {}
      BY Zenon, <2>2 DEF QueueWork, TypeInv, TypeOK, Threads, Goto
    <2> QED BY Zenon, <2>1, <2>2
  <1>5. Stage(l) = "none" /\ Stage(l)' = "new" /\ OthersKeep(l) /\ cur'[l] = r0
    BY SMTT(60), <1>1, <1>4 DEF Stage, OthersKeep, Keeps, TypeInv, TypeOK
  <1>6. ~Held(r0) /\ ~In(wq, r0) /\ \A k \in Loops : ~In(loop_wq[k], r0) /\ ~In(local_wq[k], r0)
    BY SMTT(60), <1>1 DEF PlaceInv, WqOK, LoopWqOK, LocalWqOK, TaskOK, Held, Holds, HoldStages
  <1>7. (\A r : Held(r)' <=> Held(r) \/ r = r0) /\ OneHolder'
    BY Zenon, <1>1, <1>5, <1>6, HeldTaken DEF HoldStages, PlaceInv
  <1>8. /\ \A r \in Reqs \ {r0} : (Dealt(r) => Dealt(r)') /\ work'[r] = work[r] /\ (r \in ran' <=> r \in ran)
        /\ work'[r0] = "fn"
    BY Zenon, <1>1 DEF Dealt, TypeInv, TypeOK
  <1>9. TaskOK'
    <2> SUFFICES ASSUME NEW t \in Threads, Stage(t)' # "none"
                 PROVE  TaskOK!(t)'
      BY Zenon DEF TaskOK
    <2>1. CASE t = l
      <3>1. Stage(t)' = "new" /\ cur'[t] = r0
        BY Zenon, <1>5, <2>1
      <3>2. r0 \in active' /\ r0 \notin ran' /\ work'[r0] = "fn"
        BY Zenon, <1>1, <1>8
      <3> QED BY Zenon, <3>1, <3>2
    <2>2. CASE t # l
      <3>1. Stage(t)' = Stage(t) /\ cur'[t] = cur[t] /\ Stage(t) # "none"
        BY Zenon, <1>5, <2>2 DEF OthersKeep, Keeps
      <3>2. cur[t] \in active /\ cur[t] # r0 /\ cur[t] \in Reqs
        BY Zenon, <1>1, <3>1 DEF PlaceInv, TaskOK, TypeInv, TypeOK
      <3>3. TaskOK!(t)!2
        BY Zenon, <3>1 DEF PlaceInv, TaskOK
      <3>4. /\ cur[t] \in active' /\ (cur[t] \in ran' <=> cur[t] \in ran)
            /\ work'[cur[t]] = work[cur[t]] /\ linked' = linked
        BY Zenon, <1>1, <1>8, <3>2
      <3> QED BY Zenon, <3>1, <3>3, <3>4
    <2> QED BY Zenon, <2>1, <2>2
  <1>10. WqOK'
    BY Zenon, <1>1, <1>2, <1>6, <1>7, <1>8 DEF PlaceInv, WqOK
  <1>11. LoopWqOK' /\ LocalWqOK'
    <2>1. LoopWqOK'
      BY Zenon, <1>1, <1>6, <1>7, <1>8 DEF PlaceInv, LoopWqOK
    <2>2. LocalWqOK'
      BY Zenon, <1>1, <1>6, <1>7, <1>8 DEF PlaceInv, LocalWqOK
    <2> QED BY Zenon, <2>1, <2>2
  <1>12. QueuesOnce'
    BY Zenon, <1>1, <1>3 DEF PlaceInv, QueuesOnce
  <1>13. LinkedOK'
    BY Zenon, <1>1, <1>8 DEF PlaceInv, LinkedOK, TypeInv, TypeOK
  <1> QED BY Zenon, <1>7, <1>9, <1>10, <1>11, <1>12, <1>13 DEF PlaceInv

\* post() links the new request into the pool's queue.
LEMMA PostPlaces ==
    ASSUME TypeInv, PlaceInv, NEW l \in Loops, PostInsert(l)
    PROVE  PlaceInv'
  <1>1. PICK r0 : r0 = cur[l]
    OBVIOUS
  <1>2. /\ l \in Threads /\ pc[l] = "posting" /\ Stage(l) = "new" /\ r0 \in Reqs
        /\ "user" \in WorkerPcs \cup LoopPcs
    BY Zenon, <1>1 DEF PostInsert, TypeInv, TypeOK, CurOK, BusyPcs, Threads, Stage, LoopPcs
  <1>3. Signalled(l, "user") /\ wq' = Append(wq, r0)
    BY Zenon, <1>1, <1>2, PostStep DEF PostInsert
  <1>4. /\ UNCHANGED <<loop_wq, local_wq, active, ran, work>>
        /\ \A t \in Threads \ {l} : cur'[t] = cur[t]
        /\ linked'[r0] /\ \A r \in Reqs \ {r0} : linked'[r] = linked[r]
        /\ wq \in Seq(Reqs \cup {ExitMsg})
    BY Zenon, <1>1, <1>2 DEF PostInsert, loopVars, TypeInv, TypeOK
  <1>5. Stage(l)' = "none" /\ OthersKeep(l)
    <2>1. \A t \in Threads \ {l} : pc'[t] = pc[t] \/ (pc[t] = "waiting" /\ pc'[t] = "woken")
      BY Zenon, <1>3 DEF Signalled, TypeInv, WorkersOK, TypeOK
    <2> QED BY Zenon, <1>3, <1>4, <2>1 DEF Stage, OthersKeep, Keeps, Signalled
  <1>6. Holds(l, r0) /\ Held(r0) /\ r0 \in active /\ r0 \notin ran /\ work[r0] = "fn"
    BY Zenon, <1>1, <1>2 DEF PlaceInv, TaskOK, Held, Holds, HoldStages
  <1>7. (\A r \in Reqs : Held(r)' <=> Held(r) /\ r # r0) /\ OneHolder'
    BY Zenon, <1>1, <1>2, <1>5, HeldDropped DEF HoldStages, PlaceInv
  <1>8. ~In(wq, r0) /\ \A k \in Loops : ~In(loop_wq[k], r0) /\ ~In(local_wq[k], r0)
    BY Zenon, <1>2, <1>6 DEF PlaceInv, WqOK, LoopWqOK, LocalWqOK
  <1>9. (\A r : In(wq', r) <=> In(wq, r) \/ r = r0) /\ Once(wq')
    <2>1. Once(wq)
      BY Zenon DEF PlaceInv, QueuesOnce
    <2>2. PICK S : wq \in Seq(S) /\ r0 \in S
      BY Zenon, <1>2, <1>4
    <2>3. (\A r : In(Append(wq, r0), r) <=> In(wq, r) \/ r = r0) /\ Once(Append(wq, r0))
      BY Zenon, <1>8, <2>1, <2>2, AppendIn
    <2> QED BY Zenon, <1>3, <2>3
  <1>10. TaskOK'
    <2> SUFFICES ASSUME NEW t \in Threads, Stage(t)' # "none"
                 PROVE  TaskOK!(t)'
      BY Zenon DEF TaskOK
    <2>1. Stage(t)' = Stage(t) /\ cur'[t] = cur[t] /\ Stage(t) # "none" /\ t # l
      BY Zenon, <1>5 DEF OthersKeep, Keeps
    <2>2. Stage(t) \in HoldStages => cur[t] # r0
      BY Zenon, <1>2, <1>6, <2>1 DEF PlaceInv, OneHolder, Holds
    <2>3. cur[t] \in active /\ active \subseteq Reqs
      BY Zenon, <2>1 DEF PlaceInv, TaskOK, TypeInv, TypeOK
    <2> QED BY Zenon, <1>4, <2>1, <2>2, <2>3 DEF PlaceInv, TaskOK, HoldStages
  <1>11. \A r : Dealt(r)' <=> Dealt(r)
    BY Zenon, <1>4 DEF Dealt
  <1>12. WqOK'
    BY ZenonT(60), <1>2, <1>4, <1>6, <1>7, <1>9 DEF PlaceInv, WqOK
  <1>13. LoopWqOK' /\ LocalWqOK'
    <2>1. LoopWqOK'
      <3> SUFFICES ASSUME NEW k \in Loops, NEW r \in Reqs, In(loop_wq'[k], r)
                   PROVE  LoopWqOK!(k, r)!2'
        BY Zenon DEF LoopWqOK
      <3>1. In(loop_wq[k], r) /\ LoopWqOK!(k, r)!2
        BY Zenon, <1>4, <1>7, <1>8, <1>11 DEF PlaceInv, LoopWqOK
      <3> QED BY ZenonT(60), <1>4, <1>7, <1>8, <1>11, <3>1
    <2>2. LocalWqOK'
      <3> SUFFICES ASSUME NEW k \in Loops, NEW r \in Reqs, In(local_wq'[k], r)
                   PROVE  LocalWqOK!(k, r)!2'
        BY Zenon DEF LocalWqOK
      <3>1. In(local_wq[k], r) /\ LocalWqOK!(k, r)!2
        BY Zenon, <1>4 DEF PlaceInv, LocalWqOK
      <3> QED BY Zenon, <1>4, <1>7, <1>8, <1>11, <3>1
    <2> QED BY Zenon, <2>1, <2>2
  <1>14. QueuesOnce' /\ LinkedOK'
    <2>1. QueuesOnce'
      BY Zenon, <1>4, <1>6, <1>9 DEF PlaceInv, QueuesOnce, TypeInv, TypeOK
    <2>2. LinkedOK'
      BY Zenon, <1>4, <1>6, <1>9 DEF PlaceInv, LinkedOK, TypeInv, TypeOK
    <2> QED BY Zenon, <2>1, <2>2
  <1> QED BY Zenon, <1>7, <1>10, <1>12, <1>13, <1>14 DEF PlaceInv

\* cleanup() links the exit message, which is not a request.
LEMMA ExitPlaces ==
    ASSUME TypeInv, PlaceInv, NEW l \in Loops, ExitInsert(l)
    PROVE  PlaceInv'
  <1>1. l \in Threads /\ pc[l] = "exit_posting" /\ "join" \in WorkerPcs \cup LoopPcs
    BY Zenon DEF ExitInsert, Threads, LoopPcs
  <1>2. Signalled(l, "join") /\ wq' = Append(wq, ExitMsg)
    BY Zenon, <1>1, PostStep DEF ExitInsert
  <1>3. UNCHANGED <<loop_wq, local_wq, work, linked, active, ran, cur>>
    BY Zenon DEF ExitInsert, loopVars, reqVars
  <1>4. \A t \in Threads : Keeps(t)
    <2>1. \A t \in Threads : \/ pc'[t] = pc[t]
                             \/ pc[t] \in {"waiting", "exit_posting"} /\ pc'[t] \in {"woken", "join"}
      BY Zenon, <1>1, <1>2 DEF Signalled, TypeInv, WorkersOK, TypeOK
    <2> QED BY Zenon, <1>3, <2>1 DEF Stage, Keeps
  <1>5. (\A r \in Reqs : In(wq', r) <=> In(wq, r)) /\ (Once(wq) => Once(wq'))
    BY SMTT(60), <1>2, AppendIn, ReqsAssumption DEF TypeInv, TypeOK
  <1>6. (\A r : Held(r)' <=> Held(r)) /\ (\A t \in Threads : \A r : Holds(t, r)' <=> Holds(t, r))
    BY Zenon, <1>4 DEF Held, Holds, Keeps, HoldStages
  <1>7. \A r : Dealt(r)' <=> Dealt(r)
    BY Zenon, <1>3 DEF Dealt
  <1>8. TaskOK'
    BY Zenon, <1>3, <1>4 DEF PlaceInv, TaskOK, Keeps
  <1>9. OneHolder'
    BY Zenon, <1>6 DEF PlaceInv, OneHolder
  <1>10. WqOK' /\ LoopWqOK' /\ LocalWqOK'
    <2>1. WqOK'
      <3> SUFFICES ASSUME NEW r \in Reqs, In(wq', r)
                   PROVE  WqOK!(r)!2'
        BY Zenon DEF WqOK
      <3>1. In(wq, r) /\ WqOK!(r)!2
        BY Zenon, <1>3, <1>5, <1>6, <1>7 DEF PlaceInv, WqOK
      <3> QED BY ZenonT(60), <1>3, <1>5, <1>6, <1>7, <3>1
    <2>2. LoopWqOK'
      BY Zenon, <1>3, <1>5, <1>6, <1>7 DEF PlaceInv, LoopWqOK
    <2>3. LocalWqOK'
      BY Zenon, <1>3, <1>5, <1>6, <1>7 DEF PlaceInv, LocalWqOK
    <2> QED BY Zenon, <2>1, <2>2, <2>3
  <1>11. QueuesOnce' /\ LinkedOK'
    <2>1. QueuesOnce'
      BY Zenon, <1>3, <1>5 DEF PlaceInv, QueuesOnce
    <2>2. LinkedOK'
      BY Zenon, <1>3, <1>5 DEF PlaceInv, LinkedOK
    <2> QED BY Zenon, <2>1, <2>2
  <1> QED BY Zenon, <1>8, <1>9, <1>10, <1>11 DEF PlaceInv

\* uv_cancel is called for a request whose callback has not been made.
LEMMA CancelPlaces ==
    ASSUME TypeInv, PlaceInv, NEW l \in Loops, NEW r0 \in Reqs, Cancel(l, r0)
    PROVE  PlaceInv'
  <1>1. l \in Threads /\ r0 \in active /\ cur' = [cur EXCEPT ![l] = r0] /\ UNCHANGED reqState
    BY Zenon DEF Cancel, Threads, reqState, poolVars, loopVars, reqVars
  <1>2. Stage(l) = "none" /\ Stage(l)' = "cancelling" /\ cur'[l] = r0 /\ OthersKeep(l)
    BY ZenonT(60), <1>1 DEF Cancel, Goto, Stage, OthersKeep, Keeps, TypeInv, TypeOK
  <1>3. (\A r : Held(r)' <=> Held(r)) /\ OneHolder'
    BY Zenon, <1>1, <1>2, HeldKept DEF HoldStages, PlaceInv
  <1>4. TaskOK'
    BY <1>1, <1>2 DEF PlaceInv, TaskOK, OthersKeep, Keeps, reqState
  <1>5. \A r : Dealt(r)' <=> Dealt(r)
    BY Zenon, <1>1 DEF Dealt, reqState
  <1>6. WqOK' /\ LoopWqOK' /\ LocalWqOK'
    <2>1. WqOK'
      BY ZenonT(60), <1>1, <1>3, <1>5 DEF PlaceInv, WqOK, reqState
    <2>2. LoopWqOK'
      BY ZenonT(60), <1>1, <1>3, <1>5 DEF PlaceInv, LoopWqOK, reqState
    <2>3. LocalWqOK'
      <3> SUFFICES ASSUME NEW k \in Loops, NEW r \in Reqs, In(local_wq'[k], r)
                   PROVE  LocalWqOK!(k, r)!2'
        BY Zenon DEF LocalWqOK
      <3>1. local_wq' = local_wq /\ active' = active /\ linked' = linked
        BY Zenon, <1>1 DEF reqState
      <3>2. LocalWqOK!(k, r)!2
        BY Zenon, <3>1 DEF PlaceInv, LocalWqOK
      <3> QED BY Zenon, <1>3, <1>5, <3>1, <3>2
    <2> QED BY Zenon, <2>1, <2>2, <2>3
  <1>7. QueuesOnce' /\ LinkedOK'
    <2>1. QueuesOnce'
      BY Zenon, <1>1 DEF PlaceInv, QueuesOnce, reqState
    <2>2. LinkedOK'
      BY Zenon, <1>1 DEF PlaceInv, LinkedOK, reqState
    <2> QED BY Zenon, <2>1, <2>2
  <1> QED BY Zenon, <1>3, <1>4, <1>6, <1>7 DEF PlaceInv

\* With both locks held, a linked node with a non-NULL work is in nobody's hands.
LEMMA LinkedNotHeld ==
    ASSUME TypeInv, PlaceInv, NEW l \in Loops, pc[l] = "cancel_test", linked[cur[l]]
    PROVE  ~Held(cur[l])
  <1> SUFFICES ASSUME NEW t \in Threads, Holds(t, cur[l]) PROVE FALSE
    BY Zenon DEF Held
  <1>1. cur[t] = cur[l] /\ Stage(t) \in HoldStages /\ l \in Threads
    BY Zenon DEF Holds, Threads
  <1>2. Stage(t) \notin {"taken", "ran"}
    BY Zenon, <1>1 DEF PlaceInv, TaskOK
  <1>3. pc[t] \in {"post", "posting", "cancelled", "requeue", "requeueing"}
    BY Zenon, <1>1, <1>2 DEF Stage, HoldStages
  <1>4. t \in Loops
    <2>1. \A w \in Workers : pc[w] \in WorkerPcs
      BY Zenon DEF TypeInv, TypeOK
    <2> QED BY Zenon, <1>3, <2>1 DEF Threads, WorkerPcs
  <1>5. LoopOf[cur[t]] = t /\ LoopOf[cur[l]] = l
    BY Zenon, <1>1, <1>3, <1>4 DEF TypeInv, CurOK, BusyPcs
  <1> QED BY Zenon, <1>1, <1>3, <1>5

\* uv__work_cancel decides, and unlinks the node it has won.
LEMMA CancelTestPlaces ==
    ASSUME TypeInv, PlaceInv, NEW l \in Loops, CancelTest(l)
    PROVE  PlaceInv'
  <1>1. PICK r0 : r0 = cur[l]
    OBVIOUS
  <1>2. /\ l \in Threads /\ pc[l] = "cancel_test" /\ Stage(l) = "cancelling"
        /\ r0 \in Reqs /\ LoopOf[r0] = l
    BY Zenon, <1>1 DEF CancelTest, TypeInv, TypeOK, CurOK, BusyPcs, Threads, Stage
  <1>3. UNCHANGED <<work, linked, active, ran>> /\ r0 \in active
    BY Zenon, <1>1, <1>2 DEF CancelTest, reqVars, PlaceInv, TaskOK
  <1>4. CASE linked[r0] /\ work[r0] # "null"
    <2>1. /\ wq' = Unlink(wq, r0) /\ loop_wq' = [loop_wq EXCEPT ![l] = Unlink(loop_wq[l], r0)]
          /\ local_wq' = [local_wq EXCEPT ![l] = Unlink(local_wq[l], r0)]
          /\ pc' = [pc EXCEPT ![l] = "cancelled"] /\ cur' = cur
      BY Zenon, <1>1, <1>4 DEF CancelTest, Goto
    <2>2. OthersKeep(l) /\ Stage(l)' = "cancelled" /\ cur'[l] = r0
      BY Zenon, <1>1, <1>2, <2>1 DEF OthersKeep, Keeps, Stage, TypeInv, TypeOK
    <2>3. ~Held(r0) /\ r0 \notin ran
      BY Zenon, <1>1, <1>2, <1>3, <1>4, LinkedNotHeld DEF PlaceInv, LinkedOK, TypeInv, TypeOK
    <2>4. (\A r : Held(r)' <=> Held(r) \/ r = r0) /\ OneHolder'
      <3>1. Stage(l) \notin HoldStages /\ Stage(l)' \in HoldStages /\ OneHolder
        BY Zenon, <1>2, <2>2 DEF HoldStages, PlaceInv
      <3> QED BY ZenonT(60), <1>2, <2>2, <2>3, <3>1, HeldTaken
    <2>5. (\A r \in Reqs : In(wq', r) => In(wq, r) /\ r # r0) /\ Once(wq')
      BY Zenon, <1>2, <2>1, UnlinkIn DEF PlaceInv, QueuesOnce, TypeInv, TypeOK
    <2>6. \A k \in Loops \ {l} : loop_wq'[k] = loop_wq[k] /\ local_wq'[k] = local_wq[k]
      BY Zenon, <2>1 DEF TypeInv, TypeOK
    <2>7. /\ \A r \in Reqs : In(loop_wq'[l], r) => In(loop_wq[l], r) /\ r # r0
          /\ Once(loop_wq'[l])
      <3>1. loop_wq'[l] = Unlink(loop_wq[l], r0) /\ loop_wq[l] \in Seq(Reqs) /\ Once(loop_wq[l])
        BY Zenon, <2>1 DEF TypeInv, TypeOK, PlaceInv, QueuesOnce
      <3>2. /\ \A r : In(Unlink(loop_wq[l], r0), r) => In(loop_wq[l], r)
            /\ Once(Unlink(loop_wq[l], r0)) /\ ~In(Unlink(loop_wq[l], r0), r0)
        BY Zenon, <1>2, <3>1, UnlinkIn
      <3> QED BY Zenon, <3>1, <3>2
    <2>8. /\ \A r \in Reqs : In(local_wq'[l], r) => In(local_wq[l], r) /\ r # r0
          /\ Once(local_wq'[l])
      <3>1. local_wq'[l] = Unlink(local_wq[l], r0) /\ local_wq[l] \in Seq(Reqs) /\ Once(local_wq[l])
        BY Zenon, <2>1 DEF TypeInv, TypeOK, PlaceInv, QueuesOnce
      <3>2. /\ \A r : In(Unlink(local_wq[l], r0), r) => In(local_wq[l], r)
            /\ Once(Unlink(local_wq[l], r0)) /\ ~In(Unlink(local_wq[l], r0), r0)
        BY ZenonT(60), <1>2, <3>1, UnlinkIn
      <3> QED BY Zenon, <3>1, <3>2
    <2>9. \A k \in Loops, r \in Reqs : /\ In(loop_wq'[k], r) => In(loop_wq[k], r) /\ r # r0
                                       /\ In(local_wq'[k], r) => In(local_wq[k], r) /\ r # r0
      <3> SUFFICES ASSUME NEW k \in Loops, NEW r \in Reqs
                   PROVE  /\ In(loop_wq'[k], r) => In(loop_wq[k], r) /\ r # r0
                          /\ In(local_wq'[k], r) => In(local_wq[k], r) /\ r # r0
        OBVIOUS
      <3>1. CASE k = l
        BY Zenon, <2>7, <2>8, <3>1
      <3>2. CASE k # l
        <4>1. loop_wq'[k] = loop_wq[k] /\ local_wq'[k] = local_wq[k]
          BY Zenon, <2>6, <3>2
        <4>2. (In(loop_wq[k], r) => LoopOf[r] = k) /\ (In(local_wq[k], r) => LoopOf[r] = k)
          BY Zenon DEF PlaceInv, LoopWqOK, LocalWqOK
        <4> QED BY Zenon, <1>2, <3>2, <4>1, <4>2
      <3> QED BY Zenon, <3>1, <3>2
    <2>10. TaskOK'
      BY ZenonT(60), <1>3, <1>4, <2>1, <2>2, <2>3 DEF PlaceInv, TaskOK, OthersKeep, Keeps
    <2>11. \A r : Dealt(r)' <=> Dealt(r)
      BY Zenon, <1>3 DEF Dealt
    <2>12. WqOK'
      BY Zenon, <1>3, <2>4, <2>5 DEF PlaceInv, WqOK
    <2>13. LoopWqOK' /\ LocalWqOK'
      <3>1. LoopWqOK'
        BY Zenon, <1>3, <2>4, <2>9, <2>11 DEF PlaceInv, LoopWqOK
      <3>2. LocalWqOK'
        BY Zenon, <1>3, <2>4, <2>9, <2>11 DEF PlaceInv, LocalWqOK
      <3> QED BY Zenon, <3>1, <3>2
    <2>14. QueuesOnce' /\ LinkedOK'
      <3>1. QueuesOnce'
        BY Zenon, <1>3, <2>5, <2>6, <2>7, <2>8 DEF PlaceInv, QueuesOnce
      <3>2. LinkedOK'
        BY Zenon, <1>3, <2>5, <2>6, <2>7, <2>8 DEF PlaceInv, LinkedOK
      <3> QED BY Zenon, <3>1, <3>2
    <2> QED BY Zenon, <2>4, <2>10, <2>12, <2>13, <2>14 DEF PlaceInv
  <1>5. CASE ~(linked[r0] /\ work[r0] # "null")
    <2>1. /\ UNCHANGED reqState
          /\ pc' = [pc EXCEPT ![l] = "user"] /\ cur' = [cur EXCEPT ![l] = NoReq]
      BY Zenon, <1>1, <1>5, <1>3 DEF CancelTest, Goto, reqState
    <2>2. OthersKeep(l) /\ Stage(l)' = "none"
      BY ZenonT(60), <1>2, <2>1 DEF OthersKeep, Keeps, Stage, TypeInv, TypeOK
    <2>3. (\A r : Held(r)' <=> Held(r)) /\ OneHolder'
      BY Zenon, <1>2, <2>2, HeldKept DEF HoldStages, PlaceInv
    <2>4. TaskOK'
      BY SMTT(60), <2>1, <2>2 DEF PlaceInv, TaskOK, OthersKeep, Keeps, reqState
    <2>5. \A r : Dealt(r)' <=> Dealt(r)
      BY Zenon, <2>1 DEF Dealt, reqState
    <2>6. WqOK' /\ LoopWqOK' /\ LocalWqOK'
      <3>1. WqOK'
        BY ZenonT(60), <2>1, <2>3, <2>5 DEF PlaceInv, WqOK, reqState
      <3>2. LoopWqOK'
        BY Zenon, <2>1, <2>3, <2>5 DEF PlaceInv, LoopWqOK, reqState
      <3>3. LocalWqOK'
        BY Zenon, <2>1, <2>3, <2>5 DEF PlaceInv, LocalWqOK, reqState
      <3> QED BY Zenon, <3>1, <3>2, <3>3
    <2>7. QueuesOnce' /\ LinkedOK'
      <3>1. QueuesOnce'
        BY Zenon, <2>1 DEF PlaceInv, QueuesOnce, reqState
      <3>2. LinkedOK'
        BY Zenon, <2>1 DEF PlaceInv, LinkedOK, reqState
      <3> QED BY Zenon, <3>1, <3>2
    <2> QED BY Zenon, <2>3, <2>4, <2>6, <2>7 DEF PlaceInv
  <1> QED BY Zenon, <1>4, <1>5

\* The cancelled request is marked, outside the locks.
LEMMA MarkPlaces ==
    ASSUME TypeInv, PlaceInv, NEW l \in Loops, CancelMark(l)
    PROVE  PlaceInv'
  <1>1. PICK r0 : r0 = cur[l]
    OBVIOUS
  <1>2. l \in Threads /\ Stage(l) = "cancelled" /\ r0 \in Reqs
    BY Zenon, <1>1 DEF CancelMark, TypeInv, TypeOK, CurOK, BusyPcs, Threads, Stage
  <1>3. /\ UNCHANGED <<wq, loop_wq, local_wq, linked, active, ran, cur>>
        /\ work'[r0] = "cancelled" /\ \A r \in Reqs \ {r0} : work'[r] = work[r]
    BY Zenon, <1>1, <1>2 DEF CancelMark, poolVars, loopVars, TypeInv, TypeOK
  <1>4. Stage(l)' = "marked" /\ OthersKeep(l)
    BY Zenon, <1>2, <1>3 DEF CancelMark, Goto, Stage, OthersKeep, Keeps, TypeInv, TypeOK
  <1>5. Holds(l, r0) /\ Held(r0) /\ r0 \in active /\ r0 \notin ran
    BY Zenon, <1>1, <1>2 DEF PlaceInv, TaskOK, Held, Holds, HoldStages
  <1>6. (\A r : Held(r)' <=> Held(r)) /\ OneHolder'
    BY Zenon, <1>2, <1>3, <1>4, HeldKept DEF HoldStages, PlaceInv
  <1>7. TaskOK'
    <2> SUFFICES ASSUME NEW t \in Threads, Stage(t)' # "none"
                 PROVE  TaskOK!(t)'
      BY Zenon DEF TaskOK
    <2>1. CASE t = l
      BY Zenon, <1>1, <1>3, <1>4, <1>5, <2>1
    <2>2. CASE t # l
      <3>1. Stage(t)' = Stage(t) /\ cur'[t] = cur[t] /\ Stage(t) # "none"
        BY Zenon, <1>4, <2>2 DEF OthersKeep, Keeps
      <3>2. Stage(t) \in HoldStages => cur[t] # r0
        BY Zenon, <1>2, <1>5, <2>2 DEF PlaceInv, OneHolder, Holds
      <3>3. cur[t] \in active /\ active \subseteq Reqs
        BY Zenon, <3>1 DEF PlaceInv, TaskOK, TypeInv, TypeOK
      <3> QED BY Zenon, <1>3, <3>1, <3>2, <3>3 DEF PlaceInv, TaskOK, HoldStages
    <2> QED BY Zenon, <2>1, <2>2
  <1>8. \A r \in Reqs \ {r0} : Dealt(r) => Dealt(r)'
    BY Zenon, <1>3 DEF Dealt
  <1>9. WqOK' /\ LoopWqOK' /\ LocalWqOK'
    <2>1. WqOK'
      <3> SUFFICES ASSUME NEW r \in Reqs, In(wq', r)
                   PROVE  WqOK!(r)!2'
        BY Zenon DEF WqOK
      <3>1. In(wq, r) /\ WqOK!(r)!2
        BY ZenonT(60), <1>3, <1>5, <1>6, <1>8 DEF PlaceInv, WqOK
      <3> QED BY ZenonT(60), <1>3, <1>5, <1>6, <1>8, <3>1
    <2>2. LoopWqOK'
      BY ZenonT(60), <1>3, <1>5, <1>6, <1>8 DEF PlaceInv, LoopWqOK
    <2>3. LocalWqOK'
      BY Zenon, <1>3, <1>5, <1>6, <1>8 DEF PlaceInv, LocalWqOK
    <2> QED BY Zenon, <2>1, <2>2, <2>3
  <1>10. QueuesOnce' /\ LinkedOK'
    <2>1. QueuesOnce'
      BY Zenon, <1>3, <1>5 DEF PlaceInv, QueuesOnce, TypeInv, TypeOK
    <2>2. LinkedOK'
      BY Zenon, <1>3, <1>5 DEF PlaceInv, LinkedOK, TypeInv, TypeOK
    <2> QED BY Zenon, <2>1, <2>2
  <1> QED BY Zenon, <1>6, <1>7, <1>9, <1>10 DEF PlaceInv

\* uv__work_done moves the completion queue to its local one.
LEMMA MovePlaces ==
    ASSUME TypeInv, PlaceInv, NEW l \in Loops, WorkDoneMove(l)
    PROVE  PlaceInv'
  <1>1. /\ UNCHANGED <<wq, work, linked, active, ran, cur>>
        /\ local_wq'[l] = loop_wq[l] /\ loop_wq'[l] = <<>>
        /\ \A k \in Loops \ {l} : loop_wq'[k] = loop_wq[k] /\ local_wq'[k] = local_wq[k]
    BY Zenon DEF WorkDoneMove, poolVars, reqVars, TypeInv, TypeOK
  <1>2. \A t \in Threads : Keeps(t)
    BY Zenon, <1>1 DEF WorkDoneMove, Goto, Keeps, Stage, TypeInv, TypeOK, Threads
  <1>3. (\A r : Held(r)' <=> Held(r)) /\ (\A t \in Threads : \A r : Holds(t, r)' <=> Holds(t, r))
    BY Zenon, <1>2 DEF Held, Holds, Keeps, HoldStages
  <1>4. TaskOK' /\ OneHolder'
    <2>1. TaskOK'
      BY Zenon, <1>1, <1>2 DEF PlaceInv, TaskOK, Keeps
    <2>2. OneHolder'
      BY Zenon, <1>3 DEF PlaceInv, OneHolder
    <2> QED BY Zenon, <2>1, <2>2
  <1>5. \A r : ~In(loop_wq'[l], r)
    BY SMTT(60), <1>1 DEF In
  <1>6. \A r : Dealt(r)' <=> Dealt(r)
    BY Zenon, <1>1 DEF Dealt
  <1>7. WqOK' /\ LoopWqOK' /\ LocalWqOK'
    <2>1. WqOK'
      BY Zenon, <1>1, <1>3, <1>5, <1>6 DEF PlaceInv, WqOK
    <2>2. LoopWqOK'
      BY Zenon, <1>1, <1>3, <1>5, <1>6 DEF PlaceInv, LoopWqOK
    <2>3. LocalWqOK'
      <3> SUFFICES ASSUME NEW k \in Loops, NEW r \in Reqs, In(local_wq'[k], r)
                   PROVE  LocalWqOK!(k, r)!2'
        BY Zenon DEF LocalWqOK
      <3>1. CASE k = l
        <4>1. In(loop_wq[l], r) /\ LoopWqOK!(l, r)!2
          BY Zenon, <1>1, <3>1 DEF PlaceInv, LoopWqOK
        <4> QED BY Zenon, <1>1, <1>3, <1>6, <3>1, <4>1
      <3>2. CASE k # l
        <4>1. In(local_wq[k], r) /\ LocalWqOK!(k, r)!2
          BY Zenon, <1>1, <3>2 DEF PlaceInv, LocalWqOK
        <4> QED BY Zenon, <1>1, <1>3, <1>6, <4>1
      <3> QED BY Zenon, <3>1, <3>2
    <2> QED BY Zenon, <2>1, <2>2, <2>3
  <1>8. Once(loop_wq'[l])
    BY SMTT(60), <1>1 DEF Once
  <1>9. QueuesOnce' /\ LinkedOK'
    <2>1. QueuesOnce'
      BY Zenon, <1>1, <1>8 DEF PlaceInv, QueuesOnce
    <2>2. LinkedOK'
      BY Zenon, <1>1, <1>8 DEF PlaceInv, LinkedOK
    <2> QED BY Zenon, <2>1, <2>2
  <1> QED BY Zenon, <1>4, <1>7, <1>9 DEF PlaceInv

\* The done callback of a request is made: its status tells whether it ran.
LEMMA PopPlaces ==
    ASSUME TypeInv, PlaceInv, NEW l \in Loops, WorkDonePop(l)
    PROVE  /\ PlaceInv'
           /\ \A r \in Reqs : r \in active /\ r \notin active' =>
                  status'[r] = IF r \in ran THEN "0" ELSE "ECANCELED"
  <1>1. PICK r0 : r0 = Head(local_wq[l])
    OBVIOUS
  <1>2. local_wq[l] \in Seq(Reqs) /\ local_wq[l] # <<>>
    BY Zenon DEF WorkDonePop, TypeInv, TypeOK
  <1>3. /\ r0 \in Reqs /\ In(local_wq[l], r0)
        /\ \A r : In(Tail(local_wq[l]), r) => In(local_wq[l], r) /\ r # r0
        /\ Once(Tail(local_wq[l]))
    BY Zenon, <1>1, <1>2, TailIn DEF PlaceInv, QueuesOnce
  <1>4. /\ UNCHANGED <<wq, loop_wq, work, linked, ran, cur>> /\ active' = active \ {r0}
        /\ status'[r0] = IF work[r0] = "cancelled" THEN "ECANCELED" ELSE "0"
        /\ local_wq'[l] = Tail(local_wq[l])
        /\ \A k \in Loops \ {l} : local_wq'[k] = local_wq[k]
    BY Zenon, <1>1, <1>3 DEF WorkDonePop, poolVars, TypeInv, TypeOK
  <1>5. LoopOf[r0] = l /\ r0 \in active /\ Dealt(r0) /\ ~Held(r0)
    BY Zenon, <1>3 DEF PlaceInv, LocalWqOK
  <1>6. \A t \in Threads : Keeps(t)
    BY Zenon, <1>4 DEF WorkDonePop, Goto, Keeps, Stage, TypeInv, TypeOK, Threads
  <1>7. (\A r : Held(r)' <=> Held(r)) /\ (\A t \in Threads : \A r : Holds(t, r)' <=> Holds(t, r))
    BY Zenon, <1>6 DEF Held, Holds, Keeps, HoldStages
  <1>8. \A t \in Threads : Stage(t) # "none" => cur[t] # r0
    <2> SUFFICES ASSUME NEW t \in Threads, Stage(t) # "none", cur[t] = r0 PROVE FALSE
      OBVIOUS
    <2>1. Stage(t) = "cancelling"
      <3>1. Stage(t) # "aborted" /\ Stage(t) \notin HoldStages
        BY Zenon, <1>5 DEF PlaceInv, TaskOK, Held, Holds
      <3> QED BY Zenon, <3>1 DEF HoldStages, Stage
    <2>2. pc[t] \in {"cancel", "cancel_loop", "cancel_test"}
      BY Zenon, <2>1 DEF Stage
    <2>3. t \in Loops
      <3>1. \A w \in Workers : pc[w] \in WorkerPcs
        BY Zenon DEF TypeInv, TypeOK
      <3> QED BY Zenon, <2>2, <3>1 DEF Threads, WorkerPcs
    <2>4. t = l
      BY Zenon, <1>5, <2>2, <2>3 DEF TypeInv, CurOK, BusyPcs
    <2> QED BY Zenon, <2>2, <2>4 DEF WorkDonePop
  <1>9. TaskOK' /\ OneHolder'
    <2>1. TaskOK'
      <3> SUFFICES ASSUME NEW t \in Threads, Stage(t)' # "none"
                   PROVE  TaskOK!(t)!2'
        BY Zenon DEF TaskOK
      <3>1. Stage(t)' = Stage(t) /\ cur'[t] = cur[t] /\ Stage(t) # "none" /\ cur[t] # r0
        BY Zenon, <1>6, <1>8 DEF Keeps
      <3>2. TaskOK!(t)!2
        BY Zenon, <3>1 DEF PlaceInv, TaskOK
      <3> QED BY Zenon, <1>4, <3>1, <3>2
    <2>2. OneHolder'
      BY Zenon, <1>7 DEF PlaceInv, OneHolder
    <2> QED BY Zenon, <2>1, <2>2
  <1>10. \A r : Dealt(r)' <=> Dealt(r)
    BY Zenon, <1>4 DEF Dealt
  <1>11. ~In(wq, r0) /\ \A k \in Loops : ~In(loop_wq[k], r0)
    BY Zenon, <1>3, <1>5 DEF PlaceInv, WqOK, LoopWqOK, Dealt
  <1>12. WqOK' /\ LoopWqOK' /\ LocalWqOK'
    <2>1. WqOK'
      BY ZenonT(60), <1>4, <1>7, <1>11 DEF PlaceInv, WqOK
    <2>2. \A k \in Loops, r \in Reqs : In(local_wq'[k], r) => In(local_wq[k], r) /\ r # r0
      <3> SUFFICES ASSUME NEW k \in Loops, NEW r \in Reqs, In(local_wq'[k], r)
                   PROVE  In(local_wq[k], r) /\ r # r0
        OBVIOUS
      <3>1. CASE k = l
        BY Zenon, <1>3, <1>4, <3>1
      <3>2. CASE k # l
        <4>1. In(local_wq[k], r)
          BY ZenonT(60), <1>4, <3>2
        <4>2. LoopOf[r] = k
          BY Zenon, <4>1 DEF PlaceInv, LocalWqOK
        <4> QED BY Zenon, <1>5, <3>2, <4>1, <4>2
      <3> QED BY Zenon, <3>1, <3>2
    <2>3. LoopWqOK'
      <3> SUFFICES ASSUME NEW k \in Loops, NEW r \in Reqs, In(loop_wq'[k], r)
                   PROVE  LoopWqOK!(k, r)!2'
        BY Zenon DEF LoopWqOK
      <3>1. loop_wq' = loop_wq /\ linked' = linked
        BY Zenon, <1>4
      <3>2. In(loop_wq[k], r) /\ LoopWqOK!(k, r)!2
        BY Zenon, <3>1 DEF PlaceInv, LoopWqOK
      <3>3. r \in active' /\ Dealt(r)' /\ ~Held(r)' /\ ~In(local_wq'[k], r)
        BY Zenon, <1>4, <1>7, <1>10, <1>11, <2>2, <3>2
      <3> QED BY Zenon, <3>1, <3>2, <3>3
    <2>4. LocalWqOK'
      BY ZenonT(60), <1>4, <1>7, <1>10, <2>2 DEF PlaceInv, LocalWqOK
    <2> QED BY Zenon, <2>1, <2>3, <2>4
  <1>13. QueuesOnce' /\ LinkedOK'
    <2>1. QueuesOnce'
      BY Zenon, <1>3, <1>4 DEF PlaceInv, QueuesOnce
    <2>2. LinkedOK'
      BY Zenon, <1>3, <1>4 DEF PlaceInv, LinkedOK
    <2> QED BY Zenon, <2>1, <2>2
  <1>14. status'[r0] = IF r0 \in ran THEN "0" ELSE "ECANCELED"
    BY Zenon, <1>4, <1>5 DEF Dealt
  <1> QED BY Zenon, <1>4, <1>9, <1>12, <1>13, <1>14 DEF PlaceInv

-----------------------------------------------------------------------------
(***************************************************************************)
(* The theorems.                                                           *)
(***************************************************************************)
StatusStep == \A r \in Reqs : r \in active /\ r \notin active' =>
                  status'[r] = IF r \in ran THEN "0" ELSE "ECANCELED"

LEMMA PlaceInvInit == Init => PlaceInv
  <1> SUFFICES ASSUME Init PROVE PlaceInv
    OBVIOUS
  <1>1. \A t \in Threads : Stage(t) = "none"
    BY Zenon DEF Init, Stage, Threads
  <1>2. \A r : ~In(wq, r) /\ \A l \in Loops : ~In(loop_wq[l], r) /\ ~In(local_wq[l], r)
    BY SMTT(60) DEF Init, In
  <1>3. TaskOK /\ OneHolder
    BY Zenon, <1>1 DEF TaskOK, OneHolder, Holds, HoldStages
  <1>4. WqOK /\ LoopWqOK /\ LocalWqOK
    BY Zenon, <1>2 DEF WqOK, LoopWqOK, LocalWqOK
  <1>5. QueuesOnce /\ LinkedOK
    BY DEF Init, QueuesOnce, LinkedOK, Once
  <1> QED BY Zenon, <1>3, <1>4, <1>5 DEF PlaceInv

\* Only uv__work_done takes a request off active_reqs.
LEMMA ActiveKept ==
    ASSUME active \subseteq active'
    PROVE  StatusStep
  BY Zenon DEF StatusStep

LEMMA PlaceInvNext == TypeInv /\ PlaceInv /\ [Next]_vars => PlaceInv' /\ StatusStep
  <1> SUFFICES ASSUME TypeInv, PlaceInv, [Next]_vars PROVE PlaceInv' /\ StatusStep
    OBVIOUS
  <1>1. ASSUME UNCHANGED reqState, \A t \in Threads : Keeps(t)
        PROVE  PlaceInv' /\ StatusStep
    BY Zenon, <1>1, PlaceFrame DEF StatusStep, reqState
  <1>2. CASE UNCHANGED vars
    <2>1. UNCHANGED reqState /\ \A t \in Threads : Keeps(t)
      BY Zenon, <1>2 DEF vars, poolVars, loopVars, reqVars, ctlVars, reqState, Keeps, Stage
    <2> QED BY Zenon, <1>1, <2>1
  <1>3. ASSUME NEW w \in Workers, WorkerStep(w) \/ SpuriousWakeup(w)
        PROVE  PlaceInv' /\ StatusStep
    <2>1. CASE \/ WorkerLock(w) \/ WorkerWait(w) \/ SpuriousWakeup(w) \/ WorkerWoken(w)
               \/ WorkerExit(w) \/ WorkerLockLoop(w)
      BY Zenon, <1>1, <2>1, QuietWorkerSteps
    <2>2. CASE AsyncSend(w) \/ AsyncWrite(w) \/ UnlockLoop(w)
      BY Zenon, <1>1, <2>2, QuietSendSteps DEF Threads
    <2>3. CASE WorkerTake(w)
      <3>1. active \subseteq active'
        BY Zenon, <2>3 DEF WorkerTake
      <3> QED BY Zenon, <2>3, <3>1, TakePlaces, ActiveKept
    <2>4. CASE WorkerCall(w)
      <3>1. active \subseteq active'
        BY Zenon, <2>4 DEF WorkerCall
      <3> QED BY Zenon, <2>4, <3>1, CallPlaces, ActiveKept
    <2>5. CASE WorkerFinish(w)
      <3>1. active \subseteq active'
        BY Zenon, <2>5 DEF WorkerFinish
      <3> QED BY Zenon, <2>5, <3>1, FinishPlaces, ActiveKept
    <2> QED BY Zenon, <1>3, <2>1, <2>2, <2>3, <2>4, <2>5 DEF WorkerStep
  <1>4. ASSUME NEW l \in Loops, LoopStep(l)
        PROVE  PlaceInv' /\ StatusStep
    <2>1. CASE \/ PostLock(l) \/ CancelLock(l) \/ CancelLockLoop(l) \/ CancelRelock(l)
               \/ AsyncEvent(l) \/ WorkDoneLock(l) \/ WorkDoneEnd(l) \/ ExitLock(l) \/ Join(l)
      BY Zenon, <1>1, <2>1, QuietLoopSteps
    <2>2. CASE AsyncSend(l) \/ AsyncWrite(l) \/ UnlockLoop(l)
      BY Zenon, <1>1, <2>2, QuietSendSteps DEF Threads
    <2>3. CASE PostInsert(l)
      <3>1. active \subseteq active'
        BY Zenon, <2>3 DEF PostInsert
      <3> QED BY Zenon, <2>3, <3>1, PostPlaces, ActiveKept
    <2>4. CASE CancelTest(l)
      <3>1. active \subseteq active'
        BY Zenon, <2>4 DEF CancelTest, reqVars
      <3> QED BY Zenon, <2>4, <3>1, CancelTestPlaces, ActiveKept
    <2>5. CASE CancelMark(l)
      <3>1. active \subseteq active'
        BY Zenon, <2>5 DEF CancelMark
      <3> QED BY Zenon, <2>5, <3>1, MarkPlaces, ActiveKept
    <2>6. CASE CancelInsert(l)
      <3>1. active \subseteq active'
        BY Zenon, <2>6 DEF CancelInsert
      <3> QED BY Zenon, <2>6, <3>1, CancelInsertPlaces, ActiveKept
    <2>7. CASE WorkDoneMove(l)
      <3>1. active \subseteq active'
        BY Zenon, <2>7 DEF WorkDoneMove, reqVars
      <3> QED BY Zenon, <2>7, <3>1, MovePlaces, ActiveKept
    <2>8. CASE WorkDonePop(l)
      BY Zenon, <2>8, PopPlaces DEF StatusStep
    <2>9. CASE ExitInsert(l)
      <3>1. active \subseteq active'
        BY Zenon, <2>9 DEF ExitInsert, reqVars
      <3> QED BY Zenon, <2>9, <3>1, ExitPlaces, ActiveKept
    <2> QED BY Zenon, <1>4, <2>1, <2>2, <2>3, <2>4, <2>5, <2>6, <2>7, <2>8, <2>9 DEF LoopStep
  <1>5. ASSUME NEW l \in Loops, ProgramStep(l)
        PROVE  PlaceInv' /\ StatusStep
    <2>1. CASE AsyncIo(l) \/ CallbackReturns(l) \/ Cleanup(l)
      BY Zenon, <1>1, <2>1, QuietLoopSteps
    <2>2. ASSUME NEW r \in Reqs, QueueWork(l, r)
          PROVE  PlaceInv' /\ StatusStep
      <3>1. active \subseteq active'
        BY Zenon, <2>2 DEF QueueWork
      <3> QED BY Zenon, <2>2, <3>1, QueueWorkPlaces, ActiveKept
    <2>3. ASSUME NEW r \in Reqs, Cancel(l, r)
          PROVE  PlaceInv' /\ StatusStep
      <3>1. active \subseteq active'
        BY Zenon, <2>3 DEF Cancel, reqVars
      <3> QED BY Zenon, <2>3, <3>1, CancelPlaces, ActiveKept
    <2> QED BY Zenon, <1>5, <2>1, <2>2, <2>3 DEF ProgramStep
  <1> QED BY Zenon, <1>2, <1>3, <1>4, <1>5 DEF Next

THEOREM PlaceInvariance == Spec => [](TypeInv /\ PlaceInv)
  <1>1. Init => TypeInv /\ PlaceInv
    BY Zenon, TypeInvInit, PlaceInvInit
  <1>2. TypeInv /\ PlaceInv /\ [Next]_vars => TypeInv' /\ PlaceInv'
    BY Zenon, TypeInvNext, PlaceInvNext
  <1> QED BY <1>1, <1>2, PTL DEF Spec

\* No worker ever reaches the abort() of uv__cancelled, however uv_cancel races
\* with the workers (threadpool.c:71-73, 220-236).
THEOREM WorkersNeverAbort == Spec => []NeverAborts
  <1>1. TypeInv /\ PlaceInv => NeverAborts
    BY Zenon DEF PlaceInv, TaskOK, Stage, NeverAborts, Threads
  <1> QED BY <1>1, PlaceInvariance, PTL

\* A done callback reports UV_ECANCELED exactly when the work did not run
\* (threadpool.c:260).
THEOREM StatusIsRight == Spec => StatusTellsWhetherRan
  <1>1. TypeInv /\ PlaceInv /\ [Next]_vars => StatusStep
    BY Zenon, PlaceInvNext
  <1>2. TypeInv /\ PlaceInv /\ [Next]_vars =>
            [\A r \in Reqs : r \in active /\ r \notin active' =>
                status'[r] = IF r \in ran THEN "0" ELSE "ECANCELED"]_vars
    BY Zenon, <1>1 DEF StatusStep
  <1> QED BY <1>2, PlaceInvariance, PTL DEF Spec, StatusTellsWhetherRan

-----------------------------------------------------------------------------
(***************************************************************************)
(* Proof that the thread pool implements the abstract work queue, for any  *)
(* number of workers, loops and requests.                                  *)
(***************************************************************************)

-----------------------------------------------------------------------------
(***************************************************************************)
(* The abstract state of a request, in terms of what threads do to it.     *)
(***************************************************************************)
DecidingStages == {"taken", "ran", "cancelled"}

Running(r) == \E t \in Threads : cur[t] = r /\ Stage(t) \in {"taken", "ran"}
Marking(r) == \E t \in Threads : cur[t] = r /\ Stage(t) = "cancelled"

Standing(r) ==
    IF r \notin active THEN "idle"
    ELSE IF Running(r) THEN "running"
    ELSE IF work[r] = "cancelled" \/ Marking(r) THEN "cancelled"
    ELSE IF work[r] = "null" THEN "finished" ELSE "queued"

Agree == \A r \in Reqs : ReqState(r) = Standing(r)

\* A request that a worker runs is nobody else's, and has its work function.
LEMMA RunningAlone ==
    ASSUME TypeInv, PlaceInv, NEW r \in Reqs, Running(r)
    PROVE  work[r] = "fn" /\ ~Marking(r)
  <1>1. PICK t \in Threads : cur[t] = r /\ Stage(t) \in {"taken", "ran"}
    BY Zenon DEF Running
  <1>2. work[r] = "fn"
    BY Zenon, <1>1 DEF PlaceInv, TaskOK
  <1>3. ~Marking(r)
    BY Zenon, <1>1 DEF Marking, PlaceInv, OneHolder, Holds, HoldStages
  <1> QED BY Zenon, <1>2, <1>3

\* The refinement mapping says the same: workers run requests and loops cancel them.
LEMMA StandingIs == TypeInv /\ PlaceInv => Agree
  <1> SUFFICES ASSUME TypeInv, PlaceInv, NEW r \in Reqs PROVE ReqState(r) = Standing(r)
    BY Zenon DEF Agree
  <1>1. /\ \A w \in Workers : pc[w] # "cancelled"
        /\ \A l \in Loops : pc[l] \notin {"call", "exec", "finish"}
    BY Zenon DEF TypeInv, TypeOK, WorkerPcs, LoopPcs
  <1>2. Running(r) <=> \E w \in Workers : cur[w] = r /\ pc[w] \in {"call", "exec", "finish"}
    BY Zenon, <1>1 DEF Running, Stage, Threads
  <1>3. Marking(r) <=> \E l \in Loops : cur[l] = r /\ pc[l] = "cancelled"
    BY Zenon, <1>1 DEF Marking, Stage, Threads
  <1>4. CASE r \notin active
    BY Zenon, <1>4 DEF ReqState, Standing
  <1>5. CASE r \in active /\ Running(r)
    <2>1. work[r] = "fn" /\ ~Marking(r)
      BY Zenon, <1>5, RunningAlone
    <2> QED BY Zenon, <1>2, <1>3, <1>5, <2>1 DEF ReqState, Standing
  <1>6. CASE r \in active /\ ~Running(r) /\ (work[r] = "cancelled" \/ Marking(r))
    <2>1. work[r] # "null"
      BY Zenon, <1>6 DEF Marking, PlaceInv, TaskOK
    <2> QED BY Zenon, <1>2, <1>3, <1>6, <2>1 DEF ReqState, Standing
  <1>7. CASE r \in active /\ ~Running(r) /\ ~(work[r] = "cancelled" \/ Marking(r))
    BY Zenon, <1>2, <1>3, <1>7 DEF ReqState, Standing
  <1> QED BY Zenon, <1>4, <1>5, <1>6, <1>7

-----------------------------------------------------------------------------
(***************************************************************************)
(* Steps the program does not see.                                         *)
(***************************************************************************)
Deciding(t, r) == cur[t] = r /\ Stage(t) \in DecidingStages

\* Thread x makes a step that decides nothing about r.
LEMMA StandingFrame ==
    ASSUME NEW x \in Threads, NEW r \in Reqs, OthersKeep(x), ~Deciding(x, r), ~Deciding(x, r)',
           r \in active' <=> r \in active, work'[r] = work[r]
    PROVE  Standing(r)' = Standing(r)
  <1>1. \A t \in Threads : \A stage \in DecidingStages :
            (cur[t] = r /\ Stage(t) = stage) <=> (cur'[t] = r /\ Stage(t)' = stage)
    BY Zenon DEF OthersKeep, Keeps, Deciding, DecidingStages
  <1>2. Running(r)' <=> Running(r)
    BY Zenon, <1>1 DEF Running, DecidingStages
  <1>3. Marking(r)' <=> Marking(r)
    BY Zenon, <1>1 DEF Marking, DecidingStages
  <1> QED BY Zenon, <1>2, <1>3 DEF Standing

Unseen == status' = status /\ \A r \in Reqs : Standing(r)' = Standing(r)

LEMMA KeptUnseen ==
    ASSUME UNCHANGED <<active, work, status>>, \A t \in Threads : Keeps(t)
    PROVE  Unseen
  <1> SUFFICES ASSUME NEW r \in Reqs PROVE Standing(r)' = Standing(r)
    BY Zenon DEF Unseen
  <1>1. Running(r)' <=> Running(r)
    BY Zenon DEF Running, Keeps
  <1>2. Marking(r)' <=> Marking(r)
    BY Zenon DEF Marking, Keeps
  <1> QED BY Zenon, <1>1, <1>2 DEF Standing

LEMMA QuietUnseen ==
    ASSUME NEW x \in Threads, OthersKeep(x), UNCHANGED <<active, work, status>>,
           Stage(x) \notin DecidingStages, Stage(x)' \notin DecidingStages
    PROVE  Unseen
  <1> SUFFICES ASSUME NEW r \in Reqs PROVE Standing(r)' = Standing(r)
    BY Zenon DEF Unseen
  <1> QED BY Zenon, StandingFrame DEF Deciding

LEMMA UnseenWorkerSteps ==
    ASSUME TypeInv, PlaceInv, NEW w \in Workers,
           \/ WorkerLock(w) \/ WorkerWait(w) \/ SpuriousWakeup(w) \/ WorkerWoken(w)
           \/ WorkerExit(w) \/ WorkerLockLoop(w) \/ WorkerCall(w)
    PROVE  Unseen
  <1>1. CASE ~WorkerCall(w)
    <2>1. status' = status
      BY Zenon, <1>1 DEF WorkerLock, WorkerWait, SpuriousWakeup, WorkerWoken, WorkerExit,
                         WorkerLockLoop, reqVars
    <2>2. UNCHANGED reqState /\ \A t \in Threads : Keeps(t)
      BY Zenon, <1>1, QuietWorkerSteps
    <2> QED BY Zenon, <2>1, <2>2, KeptUnseen DEF reqState
  <1>2. CASE WorkerCall(w)
    <2>1. /\ w \in Threads /\ pc[w] = "call" /\ pc'[w] = "exec" /\ cur[w] \in Reqs
          /\ \A t \in Threads \ {w} : pc'[t] = pc[t]
          /\ UNCHANGED <<active, work, status, cur>>
      <3>1. pc'[w] = "exec" /\ w \in Threads
        BY Zenon, <1>2, CallPlaces DEF Threads
      <3>2. pc[w] = "call" /\ UNCHANGED <<active, work, status, cur>>
        BY Zenon, <1>2 DEF WorkerCall
      <3>3. \A t \in Threads \ {w} : pc'[t] = pc[t]
        BY Zenon, <1>2, <3>1 DEF WorkerCall, Goto, TypeInv, TypeOK
      <3>4. cur[w] \in Reqs
        BY Zenon, <3>1, <3>2 DEF TypeInv, CurOK, BusyPcs
      <3> QED BY Zenon, <3>1, <3>2, <3>3, <3>4
    <2>2. OthersKeep(w) /\ Stage(w) = "taken" /\ Stage(w)' = "ran"
      BY Zenon, <2>1 DEF OthersKeep, Keeps, Stage
    <2>3. \A t \in Threads : \A r : /\ cur[t] = r /\ Stage(t) \in {"taken", "ran"}
                                        <=> cur'[t] = r /\ Stage(t)' \in {"taken", "ran"}
                                    /\ cur[t] = r /\ Stage(t) = "cancelled"
                                        <=> cur'[t] = r /\ Stage(t)' = "cancelled"
      BY Zenon, <2>1, <2>2 DEF OthersKeep, Keeps
    <2>4. \A r \in Reqs : (Running(r)' <=> Running(r)) /\ (Marking(r)' <=> Marking(r))
      BY Zenon, <2>3 DEF Running, Marking
    <2> QED BY Zenon, <2>1, <2>4 DEF Unseen, Standing
  <1> QED BY Zenon, <1>1, <1>2

LEMMA UnseenSendSteps ==
    ASSUME TypeInv, NEW t \in Threads, AsyncSend(t) \/ AsyncWrite(t) \/ UnlockLoop(t)
    PROVE  Unseen
  <1>1. status' = status
    BY Zenon DEF AsyncSend, AsyncWrite, UnlockLoop, reqVars
  <1>2. UNCHANGED reqState /\ \A u \in Threads : Keeps(u)
    BY Zenon, QuietSendSteps
  <1> QED BY Zenon, <1>1, <1>2, KeptUnseen DEF reqState

LEMMA UnseenLoopSteps ==
    ASSUME TypeInv, NEW l \in Loops,
           \/ PostLock(l) \/ CancelLock(l) \/ CancelLockLoop(l) \/ CancelRelock(l)
           \/ AsyncIo(l) \/ AsyncEvent(l) \/ WorkDoneLock(l) \/ WorkDoneEnd(l)
           \/ CallbackReturns(l) \/ Cleanup(l) \/ ExitLock(l) \/ Join(l)
    PROVE  Unseen
  <1>1. status' = status
    BY Zenon DEF PostLock, CancelLock, CancelLockLoop, CancelRelock, AsyncIo, AsyncEvent,
                 WorkDoneLock, WorkDoneEnd, CallbackReturns, Cleanup, ExitLock, Join, reqVars
  <1>2. UNCHANGED reqState /\ \A u \in Threads : Keeps(u)
    BY Zenon, QuietLoopSteps
  <1> QED BY Zenon, <1>1, <1>2, KeptUnseen DEF reqState

\* What only moves the node of a request, or the exit message, between queues.
LEMMA UnseenInsertSteps ==
    ASSUME TypeInv, NEW l \in Loops,
           PostInsert(l) \/ ExitInsert(l) \/ CancelInsert(l) \/ WorkDoneMove(l) \/
           \E r \in Reqs : Cancel(l, r)
    PROVE  Unseen
  <1>0. l \in Threads
    BY Zenon DEF Threads
  <1>1. UNCHANGED <<active, work, status>>
    BY Zenon DEF PostInsert, ExitInsert, CancelInsert, WorkDoneMove, Cancel, reqVars
  <1>2. CASE CancelInsert(l) \/ WorkDoneMove(l) \/ \E r \in Reqs : Cancel(l, r)
    <2>1. OthersKeep(l) /\ Stage(l) \notin DecidingStages /\ Stage(l)' \notin DecidingStages
      BY <1>0, <1>2 DEF CancelInsert, WorkDoneMove, Cancel, Goto, OthersKeep, Keeps, Stage,
                  DecidingStages, TypeInv, TypeOK
    <2> QED BY Zenon, <1>0, <1>1, <2>1, QuietUnseen
  <1>3. CASE PostInsert(l) \/ ExitInsert(l)
    <2>1. "user" \in WorkerPcs \cup LoopPcs /\ "join" \in WorkerPcs \cup LoopPcs
      BY Zenon DEF LoopPcs
    <2>2. /\ pc[l] \in {"posting", "exit_posting"} /\ pc'[l] \in {"user", "join"}
          /\ Signalled(l, pc'[l])
      <3>1. CASE PostInsert(l)
        <4>1. pc[l] = "posting" /\ Post(cur[l], [pc EXCEPT ![l] = "user"])
          BY Zenon, <3>1 DEF PostInsert
        <4>2. Signalled(l, "user")
          BY Zenon, <1>0, <2>1, <4>1, PostStep
        <4> QED BY Zenon, <4>1, <4>2 DEF Signalled
      <3>2. CASE ExitInsert(l)
        <4>1. pc[l] = "exit_posting" /\ Post(ExitMsg, [pc EXCEPT ![l] = "join"])
          BY Zenon, <3>2 DEF ExitInsert
        <4>2. Signalled(l, "join")
          BY Zenon, <1>0, <2>1, <4>1, PostStep
        <4> QED BY Zenon, <4>1, <4>2 DEF Signalled
      <3> QED BY Zenon, <1>3, <3>1, <3>2
    <2>3. \A t \in Threads \ {l} : pc'[t] = pc[t] \/ (pc[t] = "waiting" /\ pc'[t] = "woken")
      BY Zenon, <2>2 DEF Signalled, TypeInv, WorkersOK, TypeOK
    <2>4. OthersKeep(l)
      <3>1. \A t \in Threads \ {l} : cur'[t] = cur[t]
        BY Zenon, <1>0, <1>3 DEF PostInsert, ExitInsert, TypeInv, TypeOK
      <3> QED BY Zenon, <2>3, <3>1 DEF OthersKeep, Keeps, Stage
    <2>5. Stage(l) \notin DecidingStages /\ Stage(l)' \notin DecidingStages
      BY Zenon, <2>2 DEF Stage, DecidingStages
    <2> QED BY Zenon, <1>0, <1>1, <2>4, <2>5, QuietUnseen
  <1> QED BY Zenon, <1>2, <1>3

-----------------------------------------------------------------------------
(***************************************************************************)
(* Steps that decide about a request.                                      *)
(***************************************************************************)
Moves(r, from, to) ==
    /\ Standing(r) = from /\ Standing(r)' = to /\ status' = status
    /\ \A q \in Reqs \ {r} : Standing(q)' = Standing(q)

\* A worker takes the request: from now on uv_cancel fails.
LEMMA TakeStarts ==
    ASSUME TypeInv, PlaceInv, NEW w \in Workers, WorkerTake(w)
    PROVE  \E r \in Reqs : Moves(r, "queued", "running")
  <1>1. PICK r0 : r0 = Head(wq)
    OBVIOUS
  <1>2. r0 \in Reqs /\ In(wq, r0)
    BY <1>1, TailIn DEF WorkerTake, TypeInv, TypeOK, PlaceInv, QueuesOnce
  <1>3. /\ w \in Threads /\ OthersKeep(w)
        /\ Stage(w) = "none" /\ Stage(w)' = "taken" /\ cur'[w] = r0
    BY Zenon, <1>1 DEF WorkerTake, TypeInv, TypeOK, Threads, OthersKeep, Keeps, Stage, Goto
  <1>4. UNCHANGED <<active, work, status>>
    BY Zenon DEF WorkerTake
  <1>5. r0 \in active /\ work[r0] = "fn" /\ ~Held(r0)
    BY Zenon, <1>2 DEF PlaceInv, WqOK
  <1>6. Standing(r0) = "queued"
    BY Zenon, <1>5 DEF Standing, Running, Marking, Held, Holds, HoldStages
  <1>7. Standing(r0)' = "running"
    BY Zenon, <1>3, <1>4, <1>5 DEF Standing, Running
  <1>8. \A q \in Reqs \ {r0} : Standing(q)' = Standing(q)
    BY Zenon, <1>3, <1>4, StandingFrame DEF Deciding, DecidingStages
  <1> QED BY Zenon, <1>2, <1>4, <1>6, <1>7, <1>8 DEF Moves

\* A worker has run the request and queues it for the loop.
LEMMA FinishFinishes ==
    ASSUME TypeInv, PlaceInv, NEW w \in Workers, WorkerFinish(w)
    PROVE  \E r \in Reqs : Moves(r, "running", "finished")
  <1>1. PICK r0 : r0 = cur[w]
    OBVIOUS
  <1>2. /\ w \in Threads /\ OthersKeep(w) /\ pc[w] = "finish"
        /\ Stage(w) = "ran" /\ Stage(w)' = "none" /\ cur'[w] = r0
    BY Zenon, <1>1 DEF WorkerFinish, TypeInv, TypeOK, Threads, OthersKeep, Keeps, Stage, Goto
  <1>3. r0 \in Reqs /\ r0 \in active
    BY Zenon, <1>1, <1>2 DEF TypeInv, CurOK, BusyPcs, PlaceInv, TaskOK
  <1>4. /\ UNCHANGED <<active, status>>
        /\ work'[r0] = "null" /\ \A q \in Reqs \ {r0} : work'[q] = work[q]
    BY Zenon, <1>1, <1>3 DEF WorkerFinish, TypeInv, TypeOK
  <1>5. Standing(r0) = "running"
    BY Zenon, <1>1, <1>2, <1>3 DEF Standing, Running
  <1>6. \A t \in Threads : ~(cur'[t] = r0 /\ Stage(t)' \in DecidingStages)
    <2>1. \A t \in Threads \ {w} : ~(cur[t] = r0 /\ Stage(t) \in DecidingStages)
      BY Zenon, <1>1, <1>2, <1>3 DEF PlaceInv, OneHolder, Holds, HoldStages, DecidingStages
    <2> QED BY Zenon, <1>2, <2>1 DEF OthersKeep, Keeps, DecidingStages
  <1>7. Standing(r0)' = "finished"
    BY Zenon, <1>3, <1>4, <1>6 DEF Standing, Running, Marking, DecidingStages
  <1>8. \A q \in Reqs \ {r0} : Standing(q)' = Standing(q)
    BY Zenon, <1>1, <1>2, <1>4, StandingFrame DEF Deciding, DecidingStages
  <1> QED BY Zenon, <1>3, <1>4, <1>5, <1>7, <1>8 DEF Moves

\* uv_queue_work.
LEMMA QueueSubmits ==
    ASSUME TypeInv, PlaceInv, NEW l \in Loops, NEW r0 \in Reqs, QueueWork(l, r0)
    PROVE  Moves(r0, "idle", "queued")
  <1>1. /\ l \in Threads /\ pc[l] = "user" /\ pc'[l] = "post"
        /\ \A t \in Threads \ {l} : /\ cur'[t] = cur[t]
                                    /\ pc'[t] = pc[t] \/ (pc[t] = "none" /\ pc'[t] = "lock")
    <2>1. l \in Threads /\ pc[l] = "user" /\ cur' = [cur EXCEPT ![l] = r0] /\ l \notin Workers
      BY Zenon, ThreadsAssumption DEF QueueWork, Threads
    <2>2. CASE threads = {}
      <3>1. \A w \in Workers : pc[w] = "none"
        BY Zenon, <2>2 DEF TypeInv, WorkersOK
      <3>2. PICK ws \in SUBSET Workers : pc' = [t \in Threads |-> IF t \in ws THEN "lock"
                                           ELSE IF t = l THEN "post" ELSE pc[t]]
        BY Zenon, <2>2 DEF QueueWork
      <3> QED BY Zenon, <2>1, <3>1, <3>2 DEF TypeInv, TypeOK
    <2>3. CASE threads # {}
      BY <2>1, <2>3 DEF QueueWork, Goto, TypeInv, TypeOK
    <2> QED BY Zenon, <2>2, <2>3
  <1>2. OthersKeep(l) /\ Stage(l) = "none" /\ Stage(l)' = "new"
    BY Zenon, <1>1 DEF OthersKeep, Keeps, Stage
  <1>3. /\ status' = status /\ r0 \notin active /\ active' = active \cup {r0}
        /\ work'[r0] = "fn" /\ \A q \in Reqs \ {r0} : work'[q] = work[q]
    BY Zenon DEF QueueWork, TypeInv, TypeOK
  <1>4. \A t \in Threads : ~(cur[t] = r0 /\ Stage(t) \in DecidingStages)
    BY Zenon, <1>3 DEF PlaceInv, TaskOK, DecidingStages
  <1>5. \A t \in Threads : ~(cur'[t] = r0 /\ Stage(t)' \in DecidingStages)
    BY Zenon, <1>2, <1>4 DEF OthersKeep, Keeps, DecidingStages
  <1>6. Standing(r0) = "idle" /\ Standing(r0)' = "queued"
    BY Zenon, <1>3, <1>5 DEF Standing, Running, Marking, DecidingStages
  <1>7. \A q \in Reqs \ {r0} : Standing(q)' = Standing(q)
    BY Zenon, <1>1, <1>2, <1>3, StandingFrame DEF Deciding, DecidingStages
  <1> QED BY Zenon, <1>3, <1>6, <1>7 DEF Moves

\* uv__work_cancel decides under both locks; a request that was cancelled before stays so.
LEMMA TestCancels ==
    ASSUME TypeInv, PlaceInv, NEW l \in Loops, CancelTest(l)
    PROVE  Unseen \/ \E r \in Reqs : Moves(r, "queued", "cancelled")
  <1>1. PICK r0 : r0 = cur[l]
    OBVIOUS
  <1>2. /\ l \in Threads /\ pc[l] = "cancel_test" /\ Stage(l) = "cancelling"
        /\ r0 \in Reqs
    BY Zenon, <1>1 DEF CancelTest, TypeInv, TypeOK, CurOK, BusyPcs, Threads, Stage
  <1>3. UNCHANGED <<work, linked, active, status>> /\ r0 \in active
    BY Zenon, <1>1, <1>2 DEF CancelTest, reqVars, PlaceInv, TaskOK
  <1>4. CASE linked[r0] /\ work[r0] # "null"
    <2>1. pc' = [pc EXCEPT ![l] = "cancelled"] /\ cur' = cur
      BY Zenon, <1>1, <1>4 DEF CancelTest, Goto
    <2>2. OthersKeep(l) /\ Stage(l)' = "cancelled" /\ cur'[l] = r0
      BY Zenon, <1>1, <1>2, <2>1 DEF OthersKeep, Keeps, Stage, TypeInv, TypeOK
    <2>3. \A t \in Threads : ~(cur[t] = r0 /\ Stage(t) \in DecidingStages)
      BY Zenon, <1>1, <1>2, <1>4, LinkedNotHeld DEF Held, Holds, HoldStages, DecidingStages
    <2>4. Standing(r0)' = "cancelled"
      <3>1. ~Running(r0)'
        BY Zenon, <2>2, <2>3 DEF Running, OthersKeep, Keeps, DecidingStages
      <3>2. Marking(r0)'
        BY Zenon, <1>2, <2>2 DEF Marking
      <3> QED BY Zenon, <1>3, <3>1, <3>2 DEF Standing
    <2>5. Standing(r0) \in {"queued", "cancelled"}
      BY Zenon, <1>3, <1>4, <2>3 DEF Standing, Running, Marking, DecidingStages
    <2>6. \A q \in Reqs \ {r0} : Standing(q)' = Standing(q)
      BY Zenon, <1>1, <1>2, <1>3, <2>2, StandingFrame DEF Deciding, DecidingStages
    <2> QED BY Zenon, <1>2, <1>3, <2>4, <2>5, <2>6 DEF Moves, Unseen
  <1>5. CASE ~(linked[r0] /\ work[r0] # "null")
    <2>1. pc' = [pc EXCEPT ![l] = "user"] /\ cur' = [cur EXCEPT ![l] = NoReq]
      BY Zenon, <1>1, <1>5, <1>3 DEF CancelTest, Goto
    <2>2. OthersKeep(l) /\ Stage(l)' = "none"
      BY Zenon, <1>2, <2>1 DEF OthersKeep, Keeps, Stage, TypeInv, TypeOK
    <2> QED BY Zenon, <1>2, <1>3, <2>2, QuietUnseen DEF DecidingStages
  <1> QED BY Zenon, <1>4, <1>5

\* Marking the request outside the locks changes nothing: it is cancelled already.
LEMMA MarkUnseen ==
    ASSUME TypeInv, PlaceInv, NEW l \in Loops, CancelMark(l)
    PROVE  Unseen
  <1>1. PICK r0 : r0 = cur[l]
    OBVIOUS
  <1>2. /\ l \in Threads /\ OthersKeep(l) /\ pc[l] = "cancelled"
        /\ Stage(l) = "cancelled" /\ Stage(l)' = "marked" /\ cur'[l] = r0
    BY Zenon, <1>1 DEF CancelMark, TypeInv, TypeOK, Threads, OthersKeep, Keeps, Stage, Goto
  <1>3. r0 \in Reqs /\ r0 \in active
    BY Zenon, <1>1, <1>2 DEF TypeInv, CurOK, BusyPcs, PlaceInv, TaskOK
  <1>4. /\ UNCHANGED <<active, status>>
        /\ work'[r0] = "cancelled" /\ \A q \in Reqs \ {r0} : work'[q] = work[q]
    BY Zenon, <1>1, <1>3 DEF CancelMark, TypeInv, TypeOK
  <1>5. \A t \in Threads \ {l} : ~(cur[t] = r0 /\ Stage(t) \in DecidingStages)
    BY Zenon, <1>1, <1>2, <1>3 DEF PlaceInv, OneHolder, Holds, HoldStages, DecidingStages
  <1>6. ~Running(r0) /\ ~Running(r0)' /\ Marking(r0)
    BY Zenon, <1>1, <1>2, <1>5 DEF Running, Marking, OthersKeep, Keeps, DecidingStages
  <1>7. Standing(r0) = "cancelled" /\ Standing(r0)' = "cancelled"
    BY Zenon, <1>3, <1>4, <1>6 DEF Standing
  <1>8. \A q \in Reqs \ {r0} : Standing(q)' = Standing(q)
    BY Zenon, <1>1, <1>2, <1>4, StandingFrame DEF Deciding, DecidingStages
  <1> QED BY Zenon, <1>4, <1>7, <1>8 DEF Unseen

Delivers(r) ==
    /\ Standing(r) \in {"finished", "cancelled"} /\ Standing(r)' = "idle"
    /\ status' = [status EXCEPT ![r] = IF Standing(r) = "finished" THEN "0" ELSE "ECANCELED"]
    /\ \A q \in Reqs \ {r} : Standing(q)' = Standing(q)

\* uv__work_done makes the callback.
LEMMA PopDelivers ==
    ASSUME TypeInv, PlaceInv, NEW l \in Loops, WorkDonePop(l)
    PROVE  \E r \in Reqs : Delivers(r)
  <1>1. PICK r0 : r0 = Head(local_wq[l])
    OBVIOUS
  <1>2. local_wq[l] \in Seq(Reqs) /\ local_wq[l] # <<>> /\ r0 \in Reqs
    BY <1>1 DEF WorkDonePop, TypeInv, TypeOK
  <1>3. In(local_wq[l], r0)
    BY <1>1, <1>2 DEF In
  <1>4. r0 \in active /\ work[r0] \in {"null", "cancelled"} /\ ~Held(r0)
    BY Zenon, <1>2, <1>3 DEF PlaceInv, LocalWqOK, Dealt
  <1>5. /\ l \in Threads /\ OthersKeep(l) /\ cur' = cur
        /\ Stage(l) = "none" /\ Stage(l)' = "none"
    BY Zenon DEF WorkDonePop, TypeInv, TypeOK, Threads, OthersKeep, Keeps, Stage, Goto
  <1>6. /\ active' = active \ {r0} /\ work' = work
        /\ status' = [status EXCEPT ![r0] = IF work[r0] = "cancelled" THEN "ECANCELED" ELSE "0"]
    BY Zenon, <1>1 DEF WorkDonePop
  <1>7. ~Running(r0) /\ ~Marking(r0)
    BY Zenon, <1>4 DEF Running, Marking, Held, Holds, HoldStages
  <1>8. Standing(r0) = IF work[r0] = "cancelled" THEN "cancelled" ELSE "finished"
    BY Zenon, <1>4, <1>7 DEF Standing
  <1>9. Standing(r0)' = "idle"
    BY Zenon, <1>6 DEF Standing
  <1>10. \A q \in Reqs \ {r0} : Standing(q)' = Standing(q)
    BY Zenon, <1>5, <1>6, StandingFrame DEF Deciding, DecidingStages
  <1>11. status' = [status EXCEPT ![r0] = IF Standing(r0) = "finished" THEN "0" ELSE "ECANCELED"]
    BY Zenon, <1>6, <1>8
  <1> QED BY Zenon, <1>2, <1>8, <1>9, <1>10, <1>11 DEF Delivers

-----------------------------------------------------------------------------
(***************************************************************************)
(* The theorem.                                                            *)
(***************************************************************************)
Seen == \/ Unseen
        \/ \E r \in Reqs : \/ Moves(r, "idle", "queued") \/ Moves(r, "queued", "running")
                           \/ Moves(r, "running", "finished") \/ Moves(r, "queued", "cancelled")
                           \/ Delivers(r)

LEMMA NextSeen == TypeInv /\ PlaceInv /\ [Next]_vars => Seen
  <1> SUFFICES ASSUME TypeInv, PlaceInv, [Next]_vars PROVE Seen
    OBVIOUS
  <1>1. CASE UNCHANGED vars
    <2>1. UNCHANGED <<active, work, status>> /\ \A t \in Threads : Keeps(t)
      BY Zenon, <1>1 DEF vars, poolVars, loopVars, reqVars, ctlVars, Keeps, Stage
    <2> QED BY Zenon, <2>1, KeptUnseen DEF Seen
  <1>2. ASSUME NEW w \in Workers, WorkerStep(w) \/ SpuriousWakeup(w)
        PROVE  Seen
    <2>0. w \in Threads
      BY Zenon DEF Threads
    <2>1. CASE WorkerTake(w)
      BY Zenon, <2>1, TakeStarts DEF Seen
    <2>2. CASE WorkerFinish(w)
      BY Zenon, <2>2, FinishFinishes DEF Seen
    <2>3. CASE AsyncSend(w) \/ AsyncWrite(w) \/ UnlockLoop(w)
      BY Zenon, <2>0, <2>3, UnseenSendSteps DEF Seen
    <2>4. CASE \/ WorkerLock(w) \/ WorkerWait(w) \/ SpuriousWakeup(w) \/ WorkerWoken(w)
               \/ WorkerExit(w) \/ WorkerLockLoop(w) \/ WorkerCall(w)
      BY Zenon, <2>4, UnseenWorkerSteps DEF Seen
    <2> QED BY Zenon, <1>2, <2>1, <2>2, <2>3, <2>4 DEF WorkerStep
  <1>3. ASSUME NEW l \in Loops, LoopStep(l) \/ ProgramStep(l)
        PROVE  Seen
    <2>0. l \in Threads
      BY Zenon DEF Threads
    <2>1. ASSUME NEW r \in Reqs, QueueWork(l, r) PROVE Seen
      BY Zenon, <2>1, QueueSubmits DEF Seen
    <2>2. CASE CancelTest(l)
      BY Zenon, <2>2, TestCancels DEF Seen
    <2>3. CASE CancelMark(l)
      BY Zenon, <2>3, MarkUnseen DEF Seen
    <2>4. CASE WorkDonePop(l)
      BY Zenon, <2>4, PopDelivers DEF Seen
    <2>5. CASE AsyncSend(l) \/ AsyncWrite(l) \/ UnlockLoop(l)
      BY Zenon, <2>0, <2>5, UnseenSendSteps DEF Seen
    <2>6. CASE \/ PostInsert(l) \/ ExitInsert(l) \/ CancelInsert(l) \/ WorkDoneMove(l)
               \/ \E r \in Reqs : Cancel(l, r)
      BY Zenon, <2>6, UnseenInsertSteps DEF Seen
    <2>7. CASE \/ PostLock(l) \/ CancelLock(l) \/ CancelLockLoop(l) \/ CancelRelock(l)
               \/ AsyncIo(l) \/ AsyncEvent(l) \/ WorkDoneLock(l) \/ WorkDoneEnd(l)
               \/ CallbackReturns(l) \/ Cleanup(l) \/ ExitLock(l) \/ Join(l)
      BY Zenon, <2>7, UnseenLoopSteps DEF Seen
    <2> QED BY Zenon, <1>3, <2>1, <2>2, <2>3, <2>4, <2>5, <2>6, <2>7 DEF LoopStep, ProgramStep
  <1> QED BY Zenon, <1>1, <1>2, <1>3 DEF Next

\* The mapped variables of the abstract queue.
AbstractState == [r \in Reqs |-> ReqState(r)]

\* What the program sees is a step of the abstract work queue, or nothing.
LEMMA SeenSimulates == TypeInv /\ Agree /\ Agree' /\ Seen => [WQ!Next]_<<AbstractState, status>>
  <1> SUFFICES ASSUME TypeInv, Agree, Agree', Seen PROVE [WQ!Next]_<<AbstractState, status>>
    OBVIOUS
  <1>1. \A r \in Reqs : ReqState(r) = Standing(r) /\ ReqState(r)' = Standing(r)'
    BY Zenon DEF Agree
  <1>2. CASE Unseen
    <2>1. AbstractState' = AbstractState
      BY Zenon, <1>1, <1>2 DEF AbstractState, Unseen
    <2> QED BY Zenon, <1>2, <2>1 DEF Unseen
  <1>3. ASSUME NEW r \in Reqs, NEW from, NEW to, Moves(r, from, to)
        PROVE  WQ!Advance(r, from, to)
    <2>1. AbstractState' = [AbstractState EXCEPT ![r] = to]
      BY Zenon, <1>1, <1>3 DEF AbstractState, Moves
    <2>2. AbstractState[r] = from /\ status' = status
      BY Zenon, <1>1, <1>3 DEF AbstractState, Moves
    <2> QED BY Zenon, <2>1, <2>2 DEF WQ!Advance, AbstractState
  <1>4. ASSUME NEW r \in Reqs, Delivers(r)
        PROVE  WQ!Deliver(r)
    <2>1. AbstractState' = [AbstractState EXCEPT ![r] = "idle"]
      BY Zenon, <1>1, <1>4 DEF AbstractState, Delivers
    <2>2. AbstractState[r] = Standing(r)
      BY Zenon, <1>1 DEF AbstractState
    <2> QED BY Zenon, <1>4, <2>1, <2>2 DEF WQ!Deliver, AbstractState, Delivers
  <1> QED BY Zenon, <1>2, <1>3, <1>4 DEF Seen, WQ!Next, WQ!Submit, WQ!Start, WQ!Finish, WQ!Cancel

\* The thread pool implements the abstract work queue: every interleaving of
\* workers, loops and uv_cancel looks to the program as if each request were run
\* or cancelled at one moment and delivered once (threadpool.c:71-264).
THEOREM PoolImplementsWorkQueue == Spec => ImplementsWorkQueue
  <1>1. Init => WQ!Init
    <2> SUFFICES ASSUME Init PROVE WQ!Init
      OBVIOUS
    <2>1. \A r \in Reqs : ReqState(r) = "idle"
      BY Zenon DEF Init, ReqState
    <2> QED BY Zenon, <2>1 DEF Init, WQ!Init
  <1>2. Spec => [](TypeInv /\ PlaceInv /\ Agree)
    BY PlaceInvariance, StandingIs, PTL
  <1>3. TypeInv /\ PlaceInv /\ Agree /\ Agree' /\ [Next]_vars => [WQ!Next]_<<AbstractState, status>>
    BY Zenon, NextSeen, SeenSimulates
  <1> QED BY <1>1, <1>2, <1>3, PTL DEF Spec, ImplementsWorkQueue, WQ!Spec, AbstractState

-----------------------------------------------------------------------------
(***************************************************************************)
(* Proof that no work request is lost: an outstanding request is in        *)
(* exactly one place, for any number of workers, loops and requests,       *)
(* across cleanup() and a new init_once.                                   *)
(***************************************************************************)

-----------------------------------------------------------------------------
(***************************************************************************)
(* cleanup().  init_once empties the pool's queue, so the queue must hold  *)
(* no request when the pool is not initialized.  It does not, because the  *)
(* exit message is the last entry a worker sees.                           *)
(***************************************************************************)
Role(l) ==
    CASE pc[l] = "join" -> "join"
      [] pc[l] \in {"exit_post", "exit_posting"} -> "exit"
      [] pc[l] \in {"post", "posting", "cancel", "cancel_loop", "cancel_test"} -> "call"
      [] OTHER -> "none"

Exits(l) == Role(l) \in {"join", "exit"}

OneCleanup == \A k, l \in Loops : Exits(k) /\ Exits(l) => k = l
Alone == \A k, l \in Loops : Exits(k) => Role(l) # "call"
Started == \A l \in Loops : Role(l) # "none" => threads # {}
Joining == \E l \in Loops : Role(l) = "join"
MsgPosted == In(wq, ExitMsg) => threads = {} \/ Joining
MsgLast == \A i \in 1..Len(wq) : wq[i] = ExitMsg => i = Len(wq)
Exited == \E w \in Workers : pc[w] = "exited"
ExitedSaw == Exited => Joining /\ wq = <<ExitMsg>>
NoneStranded == threads = {} => \A r \in Reqs : ~In(wq, r)

ExitInv == /\ OneCleanup /\ Alone /\ Started
           /\ MsgPosted /\ MsgLast /\ ExitedSaw /\ NoneStranded

\* Steps that do not concern cleanup.
LEMMA ExitFrame ==
    ASSUME ExitInv, UNCHANGED <<threads, wq>>, \A l \in Loops : Role(l)' = Role(l),
           Exited' => Exited
    PROVE  ExitInv'
  <1>1. (\A l \in Loops : Exits(l)' <=> Exits(l)) /\ (Joining' <=> Joining)
    BY Zenon DEF Exits, Joining
  <1>2. OneCleanup' /\ Alone' /\ Started'
    BY Zenon, <1>1 DEF ExitInv, OneCleanup, Alone, Started
  <1>3. MsgPosted' /\ MsgLast' /\ ExitedSaw' /\ NoneStranded'
    BY Zenon, <1>1 DEF ExitInv, MsgPosted, MsgLast, ExitedSaw, NoneStranded
  <1> QED BY Zenon, <1>2, <1>3 DEF ExitInv

\* While no cleanup has posted its message, nobody has seen it.
LEMMA NoMsg ==
    ASSUME ExitInv, threads # {}, ~Joining
    PROVE  ~In(wq, ExitMsg) /\ ~Exited
  BY Zenon DEF ExitInv, MsgPosted, ExitedSaw

\* Loop x begins a call of the pool, or cleanup().
LEMMA ExitEnter ==
    ASSUME ExitInv, NEW x \in Loops, \A l \in Loops : ~Exits(l),
           \A l \in Loops \ {x} : Role(l)' = Role(l),
           UNCHANGED <<threads, wq>>, threads # {}, Exited' => Exited,
           \/ Role(x)' = "call"
           \/ Role(x)' = "exit" /\ \A l \in Loops : Role(l) # "call"
    PROVE  ExitInv'
  <1>1. ~Joining /\ ~Joining'
    BY Zenon DEF Joining, Exits
  <1>2. ~In(wq, ExitMsg) /\ ~Exited
    BY Zenon, <1>1, NoMsg
  <1>3. \A l \in Loops \ {x} : ~Exits(l)'
    BY Zenon DEF Exits
  <1>4. OneCleanup'
    BY Zenon, <1>3 DEF OneCleanup
  <1>5. Alone'
    <2> SUFFICES ASSUME NEW k \in Loops, NEW l \in Loops, Exits(k)', Role(l)' = "call" PROVE FALSE
      BY Zenon DEF Alone
    <2>1. k = x /\ Role(x)' = "exit"
      BY Zenon, <1>3 DEF Exits
    <2>2. l # x
      BY Zenon, <2>1
    <2> QED BY Zenon, <2>1, <2>2
  <1>6. Started'
    BY Zenon DEF Started
  <1>7. MsgPosted' /\ MsgLast' /\ ExitedSaw' /\ NoneStranded'
    BY Zenon, <1>2 DEF ExitInv, MsgPosted, MsgLast, ExitedSaw, NoneStranded
  <1> QED BY Zenon, <1>4, <1>5, <1>6, <1>7 DEF ExitInv

\* Loop x ends a call of the pool, which may have changed its queue.
LEMMA ExitReturn ==
    ASSUME ExitInv, NEW x \in Loops, Role(x) = "call", Role(x)' = "none",
           \A l \in Loops \ {x} : Role(l)' = Role(l),
           threads' = threads, Exited' => Exited, In(wq', ExitMsg) => In(wq, ExitMsg)
    PROVE  ExitInv'
  <1>1. threads # {} /\ \A l \in Loops : ~Exits(l)
    BY Zenon DEF ExitInv, Started, Alone
  <1>2. \A l \in Loops : ~Exits(l)'
    BY Zenon, <1>1 DEF Exits
  <1>3. ~Joining
    BY Zenon, <1>1 DEF Joining, Exits
  <1>4. ~In(wq', ExitMsg) /\ ~Exited'
    BY Zenon, <1>1, <1>3, NoMsg
  <1>5. OneCleanup' /\ Alone' /\ Started'
    BY Zenon, <1>1, <1>2 DEF OneCleanup, Alone, Started
  <1>6. MsgPosted' /\ ExitedSaw' /\ NoneStranded'
    BY Zenon, <1>1, <1>4 DEF MsgPosted, ExitedSaw, NoneStranded
  <1>7. MsgLast'
    BY Zenon, <1>4 DEF MsgLast, In
  <1> QED BY Zenon, <1>5, <1>6, <1>7 DEF ExitInv

\* init_once makes a new pool with an empty queue.
LEMMA ExitInit ==
    ASSUME ExitInv, NEW x \in Loops, threads = {}, threads' # {}, wq' = <<>>, ~Exited',
           Role(x)' = "call", \A l \in Loops \ {x} : Role(l)' = Role(l)
    PROVE  ExitInv'
  <1>1. \A l \in Loops : Role(l) = "none"
    BY Zenon DEF ExitInv, Started
  <1>2. \A l \in Loops : ~Exits(l)'
    BY Zenon, <1>1 DEF Exits
  <1>3. OneCleanup' /\ Alone' /\ Started'
    BY Zenon, <1>2 DEF OneCleanup, Alone, Started
  <1>4. \A y : ~In(wq', y)
    BY DEF In
  <1>5. MsgPosted' /\ ExitedSaw' /\ NoneStranded'
    BY Zenon, <1>4 DEF MsgPosted, ExitedSaw, NoneStranded
  <1>6. MsgLast'
    BY Zenon, <1>4 DEF MsgLast, In
  <1> QED BY Zenon, <1>3, <1>5, <1>6 DEF ExitInv

\* cleanup() posts the exit message behind everything else.
LEMMA ExitPosted ==
    ASSUME TypeInv, ExitInv, NEW x \in Loops, Role(x) = "exit", Role(x)' = "join",
           \A l \in Loops \ {x} : Role(l)' = Role(l),
           threads' = threads, Exited' => Exited, wq' = Append(wq, ExitMsg)
    PROVE  ExitInv'
  <1>1. threads # {} /\ Exits(x) /\ \A l \in Loops \ {x} : ~Exits(l)
    BY Zenon DEF ExitInv, Started, OneCleanup, Exits
  <1>2. ~Joining
    BY Zenon, <1>1 DEF Joining, Exits
  <1>3. ~In(wq, ExitMsg) /\ ~Exited'
    BY Zenon, <1>1, <1>2, NoMsg
  <1>4. \A l \in Loops \ {x} : ~Exits(l)' /\ Role(l)' # "call"
    BY Zenon, <1>1 DEF Exits, ExitInv, Alone
  <1>5. OneCleanup' /\ Alone' /\ Started' /\ Joining'
    BY Zenon, <1>1, <1>4 DEF OneCleanup, Alone, Started, Joining
  <1>6. MsgPosted' /\ ExitedSaw' /\ NoneStranded'
    BY Zenon, <1>1, <1>3, <1>5 DEF MsgPosted, ExitedSaw, NoneStranded
  <1>7. MsgLast'
    <2>1. /\ Len(wq') = Len(wq) + 1 /\ Len(wq) \in Nat
          /\ \A i \in 1..Len(wq) : wq'[i] = wq[i]
      BY DEF TypeInv, TypeOK
    <2>2. \A i \in 1..Len(wq') : i \in 1..Len(wq) \/ i = Len(wq')
      BY <2>1
    <2> QED BY Zenon, <1>3, <2>1, <2>2 DEF MsgLast, In
  <1> QED BY Zenon, <1>5, <1>6, <1>7 DEF ExitInv

\* cleanup() returns: a worker has exited, so only the message is left.
LEMMA ExitJoined ==
    ASSUME ExitInv, NEW x \in Loops, Role(x) = "join", Role(x)' = "none",
           \A l \in Loops \ {x} : Role(l)' = Role(l),
           Exited, ~Exited', wq' = wq, threads' = {}
    PROVE  ExitInv'
  <1>1. wq = <<ExitMsg>> /\ Exits(x)
    BY Zenon DEF ExitInv, ExitedSaw, Exits
  <1>2. \A l \in Loops : Role(l)' = "none"
    <2>1. \A l \in Loops \ {x} : ~Exits(l) /\ Role(l) # "call"
      BY Zenon, <1>1 DEF ExitInv, OneCleanup, Alone
    <2> QED BY Zenon, <2>1 DEF Exits, Role
  <1>3. OneCleanup' /\ Alone' /\ Started'
    BY Zenon, <1>2 DEF OneCleanup, Alone, Started, Exits
  <1>4. MsgPosted' /\ ExitedSaw' /\ MsgLast'
    BY Zenon DEF ExitInv, MsgPosted, ExitedSaw, MsgLast
  <1>5. NoneStranded'
    <2>1. \A y : In(<<ExitMsg>>, y) => y = ExitMsg
      BY DEF In
    <2> QED BY Zenon, <1>1, <2>1, ReqsAssumption DEF NoneStranded
  <1> QED BY Zenon, <1>3, <1>4, <1>5 DEF ExitInv

\* A worker takes a request from the head of the queue.
LEMMA ExitTaken ==
    ASSUME TypeInv, ExitInv, wq # <<>>, Head(wq) # ExitMsg, wq' = Tail(wq), threads' = threads,
           threads # {}, \A l \in Loops : Role(l)' = Role(l), Exited' => Exited
    PROVE  ExitInv'
  <1>1. (\A l \in Loops : Exits(l)' <=> Exits(l)) /\ (Joining' <=> Joining)
    BY Zenon DEF Exits, Joining
  <1>2. OneCleanup' /\ Alone' /\ Started'
    BY Zenon, <1>1 DEF ExitInv, OneCleanup, Alone, Started
  <1>3. \A y : In(wq', y) => In(wq, y)
    BY Zenon, TailIn DEF TypeInv, TypeOK
  <1>4. ~Exited
    <2>1. wq # <<ExitMsg>>
      OBVIOUS
    <2> QED BY Zenon, <2>1 DEF ExitInv, ExitedSaw
  <1>5. MsgPosted' /\ ExitedSaw' /\ NoneStranded'
    BY Zenon, <1>1, <1>3, <1>4 DEF ExitInv, MsgPosted, ExitedSaw, NoneStranded
  <1>6. MsgLast'
    <2>1. /\ Len(wq') = Len(wq) - 1 /\ Len(wq) \in Nat
          /\ \A i \in 1..Len(wq') : wq'[i] = wq[i + 1] /\ i + 1 \in 1..Len(wq)
      BY DEF TypeInv, TypeOK
    <2>2. ASSUME NEW i \in 1..Len(wq'), wq'[i] = ExitMsg PROVE i = Len(wq')
      <3>1. i + 1 = Len(wq)
        BY Zenon, <2>1, <2>2 DEF ExitInv, MsgLast
      <3>2. (i + 1) - 1 = i
        OBVIOUS
      <3> QED BY Zenon, <2>1, <3>1, <3>2
    <2> QED BY Zenon, <2>2 DEF MsgLast
  <1> QED BY Zenon, <1>2, <1>5, <1>6 DEF ExitInv

\* A worker sees the message: it is alone in the queue.
LEMMA ExitSeen ==
    ASSUME TypeInv, ExitInv, wq # <<>>, Head(wq) = ExitMsg, UNCHANGED <<wq, threads>>,
           threads # {}, \A l \in Loops : Role(l)' = Role(l)
    PROVE  ExitInv'
  <1>1. (\A l \in Loops : Exits(l)' <=> Exits(l)) /\ (Joining' <=> Joining)
    BY Zenon DEF Exits, Joining
  <1>2. OneCleanup' /\ Alone' /\ Started'
    BY Zenon, <1>1 DEF ExitInv, OneCleanup, Alone, Started
  <1>3. Len(wq) \in Nat /\ 1 \in 1..Len(wq) /\ wq[1] = ExitMsg
    BY DEF TypeInv, TypeOK
  <1>4. Len(wq) = 1
    BY Zenon, <1>3 DEF ExitInv, MsgLast
  <1>5. wq = <<ExitMsg>>
    BY <1>3, <1>4 DEF TypeInv, TypeOK
  <1>6. Joining
    BY Zenon, <1>3 DEF ExitInv, MsgPosted, In
  <1>7. MsgPosted' /\ MsgLast' /\ ExitedSaw' /\ NoneStranded'
    BY Zenon, <1>1, <1>5, <1>6 DEF ExitInv, MsgPosted, MsgLast, ExitedSaw, NoneStranded
  <1> QED BY Zenon, <1>2, <1>7 DEF ExitInv

\* Only thread x changes its role.
LEMMA RoleMove ==
    ASSUME TypeInv, NEW x \in Threads, NEW label, pc' = [pc EXCEPT ![x] = label], label # "exited"
    PROVE  /\ \A l \in Loops \ {x} : Role(l)' = Role(l)
           /\ Exited' => Exited
           /\ pc'[x] = label
  <1>1. pc'[x] = label /\ \A t \in Threads \ {x} : pc'[t] = pc[t]
    BY Zenon DEF TypeInv, TypeOK
  <1> QED BY Zenon, <1>1 DEF Role, Exited, Threads

LEMMA RoleSignalled ==
    ASSUME TypeInv, NEW x \in Threads, NEW label, Signalled(x, label)
    PROVE  /\ \A l \in Loops \ {x} : Role(l)' = Role(l)
           /\ label # "exited" => (Exited' => Exited)
           /\ pc'[x] = label
  <1>1. \A t \in Threads \ {x} : pc'[t] = pc[t] \/ (pc[t] = "waiting" /\ pc'[t] = "woken")
    BY Zenon DEF Signalled, TypeInv, WorkersOK, TypeOK
  <1>2. \A l \in Loops : pc[l] # "waiting"
    BY Zenon DEF TypeInv, TypeOK, LoopPcs
  <1>3. pc'[x] = label
    BY Zenon DEF Signalled
  <1>4. \A l \in Loops \ {x} : pc'[l] = pc[l]
    BY Zenon, <1>1, <1>2 DEF Threads
  <1>5. label # "exited" => (Exited' => Exited)
    BY Zenon, <1>1, <1>3 DEF Exited, Threads
  <1> QED BY Zenon, <1>3, <1>4, <1>5 DEF Role

\* Thread x moves outside the code that cleanup depends on.
LEMMA ExitMove ==
    ASSUME TypeInv, ExitInv, NEW x \in Threads, NEW label, pc' = [pc EXCEPT ![x] = label],
           label # "exited", UNCHANGED <<threads, wq>>, x \in Loops => Role(x)' = Role(x)
    PROVE  ExitInv'
  <1>1. (\A l \in Loops : Role(l)' = Role(l)) /\ (Exited' => Exited)
    BY Zenon, RoleMove
  <1> QED BY Zenon, <1>1, ExitFrame

LEMMA ExitWorkerNext ==
    ASSUME TypeInv, ExitInv, NEW w \in Workers, WorkerStep(w) \/ SpuriousWakeup(w)
    PROVE  ExitInv'
  <1> USE DEF poolVars, Goto
  <1>1. w \in Threads /\ w \notin Loops
    BY Zenon, ThreadsAssumption DEF Threads
  <1>2. CASE WorkerLock(w)
    BY Zenon, <1>1, <1>2, ExitMove DEF WorkerLock
  <1>3. CASE WorkerWait(w)
    BY Zenon, <1>1, <1>3, ExitMove DEF WorkerWait
  <1>4. CASE WorkerWoken(w)
    BY Zenon, <1>1, <1>4, ExitMove DEF WorkerWoken
  <1>5. ASSUME WorkerTake(w) \/ WorkerExit(w) PROVE threads # {}
    BY Zenon, <1>5 DEF WorkerTake, WorkerExit, TypeInv, WorkersOK
  <1>6. CASE WorkerTake(w)
    <2>1. (\A l \in Loops : Role(l)' = Role(l)) /\ (Exited' => Exited)
      BY Zenon, <1>1, <1>6, RoleMove DEF WorkerTake
    <2> QED BY Zenon, <1>5, <1>6, <2>1, ExitTaken DEF WorkerTake
  <1>7. CASE WorkerExit(w)
    <2>1. pc[w] # "waiting" /\ "exited" \in WorkerPcs \cup LoopPcs
      BY Zenon, <1>7 DEF WorkerExit, WorkerPcs
    <2>2. Signalled(w, "exited")
      BY Zenon, <1>1, <1>7, <2>1, CondSignalStep DEF WorkerExit
    <2>3. \A l \in Loops : Role(l)' = Role(l)
      BY Zenon, <1>1, <2>2, RoleSignalled
    <2> QED BY Zenon, <1>5, <1>7, <2>3, ExitSeen DEF WorkerExit
  <1>8. CASE WorkerCall(w)
    <2>1. PICK label : pc' = [pc EXCEPT ![w] = label] /\ label # "exited"
      BY Zenon, <1>8 DEF WorkerCall
    <2> QED BY Zenon, <1>1, <1>8, <2>1, ExitMove DEF WorkerCall
  <1>9. CASE WorkerLockLoop(w)
    BY Zenon, <1>1, <1>9, ExitMove DEF WorkerLockLoop
  <1>10. CASE WorkerFinish(w)
    BY Zenon, <1>1, <1>10, ExitMove DEF WorkerFinish
  <1>11. CASE AsyncSend(w)
    <2>1. PICK label : pc' = [pc EXCEPT ![w] = label] /\ label \in {"write", "unlock"}
      BY Zenon, <1>11 DEF AsyncSend
    <2>2. label # "exited"
      BY Zenon, <2>1
    <2> QED BY Zenon, <1>1, <1>11, <2>1, <2>2, ExitMove DEF AsyncSend
  <1>12. CASE AsyncWrite(w)
    BY Zenon, <1>1, <1>12, ExitMove DEF AsyncWrite
  <1>13. CASE UnlockLoop(w)
    <2>1. PICK label : pc' = [pc EXCEPT ![w] = label] /\ label \in {"lock", "user"}
      BY Zenon, <1>13 DEF UnlockLoop
    <2>2. label # "exited"
      BY Zenon, <2>1
    <2> QED BY Zenon, <1>1, <1>13, <2>1, <2>2, ExitMove DEF UnlockLoop
  <1>14. CASE SpuriousWakeup(w)
    BY Zenon, <1>1, <1>14, ExitMove DEF SpuriousWakeup
  <1> QED BY Zenon, <1>2, <1>3, <1>4, <1>6, <1>7, <1>8, <1>9, <1>10, <1>11, <1>12, <1>13, <1>14
          DEF WorkerStep

\* Steps of a loop that leave the pool and its queue alone.
LEMMA ExitQuietLoop ==
    ASSUME TypeInv, ExitInv, NEW l \in Loops,
           \/ PostLock(l) \/ CancelLock(l) \/ CancelLockLoop(l) \/ CancelMark(l) \/ CancelRelock(l)
           \/ CancelInsert(l) \/ AsyncSend(l) \/ AsyncWrite(l) \/ UnlockLoop(l) \/ AsyncEvent(l)
           \/ WorkDoneLock(l) \/ WorkDoneMove(l) \/ WorkDonePop(l) \/ WorkDoneEnd(l) \/ ExitLock(l)
           \/ AsyncIo(l) \/ CallbackReturns(l)
    PROVE  ExitInv'
  <1> DEFINE calls == {"post", "posting", "cancel", "cancel_loop", "cancel_test"}
             other == {"user", "cancelled", "requeue", "requeueing", "send", "write", "unlock",
                       "event", "done", "move", "pop"}
  <1>1. l \in Threads /\ l \notin Workers
    BY Zenon, ThreadsAssumption DEF Threads
  <1>2. UNCHANGED <<threads, wq>>
    BY Zenon DEF PostLock, CancelLock, CancelLockLoop, CancelMark, CancelRelock, CancelInsert, AsyncSend,
          AsyncWrite, UnlockLoop, AsyncEvent, WorkDoneLock, WorkDoneMove, WorkDonePop, WorkDoneEnd,
          ExitLock, AsyncIo, CallbackReturns, poolVars
  <1>3. PICK label : /\ pc' = [pc EXCEPT ![l] = label] /\ label # "exited"
                     /\ \/ pc[l] \in calls /\ label \in calls
                        \/ pc[l] \in other /\ label \in other
                        \/ pc[l] = "exit_post" /\ label = "exit_posting"
    <2>1. CASE PostLock(l)
      BY Zenon, <2>1 DEF PostLock, Goto
    <2>2. CASE CancelLock(l)
      BY Zenon, <2>2 DEF CancelLock, Goto
    <2>3. CASE CancelLockLoop(l)
      BY Zenon, <2>3 DEF CancelLockLoop, Goto
    <2>4. CASE CancelMark(l)
      BY Zenon, <2>4 DEF CancelMark, Goto
    <2>5. CASE CancelRelock(l)
      BY Zenon, <2>5 DEF CancelRelock, Goto
    <2>6. CASE CancelInsert(l)
      BY Zenon, <2>6 DEF CancelInsert, Goto
    <2>7. CASE AsyncSend(l)
      BY Zenon, <2>7 DEF AsyncSend, Goto
    <2>8. CASE AsyncWrite(l)
      BY Zenon, <2>8 DEF AsyncWrite, Goto
    <2>9. CASE UnlockLoop(l)
      BY Zenon, <1>1, <2>9 DEF UnlockLoop, Goto
    <2>10. CASE AsyncEvent(l)
      BY Zenon, <2>10 DEF AsyncEvent, Goto
    <2>11. CASE WorkDoneLock(l)
      BY Zenon, <2>11 DEF WorkDoneLock, Goto
    <2>12. CASE WorkDoneMove(l)
      BY Zenon, <2>12 DEF WorkDoneMove, Goto
    <2>13. CASE WorkDonePop(l)
      BY Zenon, <2>13 DEF WorkDonePop, Goto
    <2>14. CASE WorkDoneEnd(l)
      BY Zenon, <2>14 DEF WorkDoneEnd, Goto
    <2>15. CASE ExitLock(l)
      BY Zenon, <2>15 DEF ExitLock, Goto
    <2>16. CASE AsyncIo(l)
      BY Zenon, <2>16 DEF AsyncIo, Goto
    <2>17. CASE CallbackReturns(l)
      BY Zenon, <2>17 DEF CallbackReturns, Goto
    <2> QED BY Zenon, <2>1, <2>2, <2>3, <2>4, <2>5, <2>6, <2>7, <2>8, <2>9, <2>10, <2>11, <2>12,
               <2>13, <2>14, <2>15, <2>16, <2>17
  <1>4. pc'[l] = label
    BY Zenon, <1>1, <1>3, RoleMove
  <1>5. Role(l)' = Role(l)
    BY Zenon, <1>3, <1>4 DEF Role
  <1> HIDE DEF calls, other
  <1> QED BY Zenon, <1>1, <1>2, <1>3, <1>5, ExitMove

LEMMA ExitLoopNext ==
    ASSUME TypeInv, ExitInv, NEW l \in Loops, LoopStep(l) \/ ProgramStep(l)
    PROVE  ExitInv'
  <1> USE DEF poolVars, Goto
  <1>1. l \in Threads /\ l \notin Workers
    BY Zenon, ThreadsAssumption DEF Threads
  <1>2. CASE PostInsert(l)
    <2>1. pc[l] = "posting" /\ "user" \in WorkerPcs \cup LoopPcs /\ cur[l] \in Reqs
      BY Zenon, <1>1, <1>2 DEF PostInsert, LoopPcs, TypeInv, CurOK, BusyPcs
    <2>2. Signalled(l, "user") /\ wq' = Append(wq, cur[l])
      BY Zenon, <1>1, <1>2, <2>1, PostStep DEF PostInsert
    <2>3. In(wq', ExitMsg) => In(wq, ExitMsg)
      <3>1. PICK S : wq \in Seq(S) /\ cur[l] \in S
        <4>1. wq \in Seq(Reqs \cup {ExitMsg}) /\ cur[l] \in Reqs \cup {ExitMsg}
          BY Zenon, <2>1 DEF TypeInv, TypeOK
        <4> QED BY Zenon, <4>1
      <3>2. ASSUME NEW q \in Seq(S), NEW x \in S
            PROVE  \A y : In(Append(q, x), y) <=> In(q, y) \/ y = x
        BY Zenon, <3>2, AppendIn
      <3>3. \A y : In(Append(wq, cur[l]), y) <=> In(wq, y) \/ y = cur[l]
        BY Zenon, <3>1, <3>2
      <3> QED BY Zenon, <2>1, <2>2, <3>3, ReqsAssumption
    <2>4. /\ \A k \in Loops \ {l} : Role(k)' = Role(k)
          /\ Exited' => Exited
          /\ pc'[l] = "user"
      <3>1. "user" # "exited"
        OBVIOUS
      <3> QED BY Zenon, <1>1, <2>2, <3>1, RoleSignalled
    <2>5. Role(l) = "call" /\ Role(l)' = "none"
      BY Zenon, <2>1, <2>4 DEF Role
    <2> QED BY Zenon, <1>2, <2>3, <2>4, <2>5, ExitReturn DEF PostInsert
  <1>3. CASE CancelTest(l)
    <2>1. In(wq', ExitMsg) => In(wq, ExitMsg)
      <3>1. wq' = wq \/ wq' = Unlink(wq, cur[l])
        BY Zenon, <1>3 DEF CancelTest
      <3>2. wq \in Seq(Reqs \cup {ExitMsg})
        BY Zenon DEF TypeInv, TypeOK
      <3>3. In(Unlink(wq, cur[l]), ExitMsg) => In(wq, ExitMsg)
        BY Zenon, <3>2, UnlinkIn
      <3> QED BY Zenon, <3>1, <3>3
    <2>2. PICK label : pc' = [pc EXCEPT ![l] = label] /\ label \in {"cancelled", "user"}
      BY Zenon, <1>3 DEF CancelTest
    <2>3. label # "exited"
      BY Zenon, <2>2
    <2>4. /\ \A k \in Loops \ {l} : Role(k)' = Role(k)
          /\ Exited' => Exited
          /\ pc'[l] = label
      BY Zenon, <1>1, <2>2, <2>3, RoleMove
    <2>5. Role(l) = "call" /\ Role(l)' = "none"
      BY Zenon, <1>3, <2>2, <2>4 DEF Role, CancelTest
    <2> QED BY Zenon, <1>3, <2>1, <2>4, <2>5, ExitReturn DEF CancelTest
  <1>4. CASE ExitInsert(l)
    <2>1. pc[l] = "exit_posting" /\ "join" \in WorkerPcs \cup LoopPcs
      BY Zenon, <1>4 DEF ExitInsert, LoopPcs
    <2>2. Signalled(l, "join") /\ wq' = Append(wq, ExitMsg)
      BY Zenon, <1>1, <1>4, <2>1, PostStep DEF ExitInsert
    <2>3. /\ \A k \in Loops \ {l} : Role(k)' = Role(k)
          /\ Exited' => Exited
          /\ pc'[l] = "join"
      <3>1. "join" # "exited"
        OBVIOUS
      <3> QED BY Zenon, <1>1, <2>2, <3>1, RoleSignalled
    <2>4. Role(l) = "exit" /\ Role(l)' = "join"
      BY Zenon, <2>1, <2>3 DEF Role
    <2> QED BY Zenon, <1>4, <2>2, <2>3, <2>4, ExitPosted DEF ExitInsert
  <1>5. CASE Join(l)
    <2>1. /\ pc[l] = "join" /\ wq' = wq /\ threads' = {}
          /\ \A t \in Threads : pc'[t] = IF t = l THEN "user" ELSE IF t \in threads THEN "none" ELSE pc[t]
          /\ \A w \in threads : pc[w] = "exited"
      BY Zenon, <1>5 DEF Join
    <2>2. Role(l) = "join" /\ Role(l)' = "none"
      BY Zenon, <1>1, <2>1 DEF Role
    <2>3. \A k \in Loops \ {l} : Role(k)' = Role(k)
      <3>1. \A k \in Loops : k \notin threads /\ k \in Threads
        BY Zenon, ThreadsAssumption DEF TypeInv, TypeOK, Threads
      <3> QED BY Zenon, <2>1, <3>1 DEF Role
    <2>4. threads # {}
      BY Zenon, <2>2 DEF ExitInv, Started
    <2>5. Exited
      BY Zenon, <2>1, <2>4 DEF Exited, TypeInv, TypeOK
    <2>6. ~Exited'
      <3> SUFFICES ASSUME NEW w \in Workers, pc'[w] = "exited" PROVE FALSE
        BY Zenon DEF Exited
      <3>1. w \in threads <=> pc[w] # "none"
        BY Zenon DEF TypeInv, WorkersOK
      <3>2. w \in Threads /\ w # l
        BY Zenon, <1>1 DEF Threads
      <3> QED BY Zenon, <2>1, <3>1, <3>2
    <2> QED BY Zenon, <2>1, <2>2, <2>3, <2>5, <2>6, ExitJoined
  <1>6. ASSUME ~CleanupRunning PROVE \A k \in Loops : ~Exits(k)
    BY Zenon, <1>6 DEF CleanupRunning, Exits, Role
  <1>7. ASSUME NEW r \in Reqs, QueueWork(l, r) PROVE ExitInv'
    <2>1. \A k \in Loops : ~Exits(k)
      BY Zenon, <1>6, <1>7 DEF QueueWork
    <2>2. CASE threads = {}
      <3>1. PICK ws \in (SUBSET Workers) \ {{}} :
               /\ threads' = ws /\ wq' = <<>>
               /\ pc' = [t \in Threads |-> IF t \in ws THEN "lock" ELSE IF t = l THEN "post" ELSE pc[t]]
        BY Zenon, <1>7, <2>2 DEF QueueWork
      <3>2. \A k \in Loops : k \notin ws /\ k \in Threads
        BY Zenon, ThreadsAssumption DEF Threads
      <3>3. pc'[l] = "post" /\ \A k \in Loops \ {l} : pc'[k] = pc[k]
        BY Zenon, <3>1, <3>2
      <3>4. Role(l)' = "call" /\ \A k \in Loops \ {l} : Role(k)' = Role(k)
        BY Zenon, <3>3 DEF Role
      <3>5. ~Exited'
        <4> SUFFICES ASSUME NEW w \in Workers, pc'[w] = "exited" PROVE FALSE
          BY Zenon DEF Exited
        <4>1. pc[w] = "none" /\ w \in Threads /\ w # l
          BY Zenon, <1>1, <2>2 DEF TypeInv, WorkersOK, Threads
        <4>2. pc'[w] = "lock" \/ pc'[w] = pc[w]
          BY Zenon, <3>1, <4>1
        <4> QED BY Zenon, <4>1, <4>2
      <3>6. threads' # {} /\ wq' = <<>>
        BY <3>1
      <3> QED BY Zenon, <2>2, <3>4, <3>5, <3>6, ExitInit
    <2>3. CASE threads # {}
      <3>1. pc' = [pc EXCEPT ![l] = "post"] /\ UNCHANGED <<threads, wq>>
        BY Zenon, <1>7, <2>3 DEF QueueWork
      <3>2. /\ \A k \in Loops \ {l} : Role(k)' = Role(k)
            /\ Exited' => Exited
            /\ pc'[l] = "post"
        BY Zenon, <1>1, <3>1, RoleMove
      <3>3. Role(l)' = "call"
        BY Zenon, <3>2 DEF Role
      <3> QED BY Zenon, <2>1, <2>3, <3>1, <3>2, <3>3, ExitEnter
    <2> QED BY Zenon, <2>2, <2>3
  <1>8. ASSUME NEW r \in Reqs, Cancel(l, r) PROVE ExitInv'
    <2>1. /\ \A k \in Loops : ~Exits(k)
          /\ pc' = [pc EXCEPT ![l] = "cancel"] /\ UNCHANGED <<threads, wq>> /\ threads # {}
      BY Zenon, <1>6, <1>8 DEF Cancel
    <2>2. /\ \A k \in Loops \ {l} : Role(k)' = Role(k)
          /\ Exited' => Exited
          /\ pc'[l] = "cancel"
      BY Zenon, <1>1, <2>1, RoleMove
    <2>3. Role(l)' = "call"
      BY Zenon, <2>2 DEF Role
    <2> QED BY Zenon, <2>1, <2>2, <2>3, ExitEnter
  <1>9. CASE Cleanup(l)
    <2>1. /\ \A k \in Loops : ~Exits(k)
          /\ pc' = [pc EXCEPT ![l] = "exit_post"] /\ UNCHANGED <<threads, wq>> /\ threads # {}
      BY Zenon, <1>6, <1>9 DEF Cleanup
    <2>2. /\ \A k \in Loops \ {l} : Role(k)' = Role(k)
          /\ Exited' => Exited
          /\ pc'[l] = "exit_post"
      BY Zenon, <1>1, <2>1, RoleMove
    <2>3. Role(l)' = "exit"
      BY Zenon, <2>2 DEF Role
    <2>4. \A k \in Loops : Role(k) # "call"
      BY Zenon, <1>9 DEF Cleanup, InPoolCall, Role
    <2> QED BY Zenon, <2>1, <2>2, <2>3, <2>4, ExitEnter
  <1> QED BY Zenon, <1>2, <1>3, <1>4, <1>5, <1>7, <1>8, <1>9, ExitQuietLoop DEF LoopStep, ProgramStep

LEMMA ExitNext == TypeInv /\ ExitInv /\ [Next]_vars => ExitInv'
  <1>1. ASSUME ExitInv, UNCHANGED vars PROVE ExitInv'
    <2>1. UNCHANGED <<threads, wq, pc>>
      BY Zenon, <1>1 DEF vars, poolVars, ctlVars
    <2> QED BY Zenon, <1>1, <2>1, ExitFrame DEF Role, Exited
  <1> QED BY Zenon, <1>1, ExitWorkerNext, ExitLoopNext DEF Next

-----------------------------------------------------------------------------
(***************************************************************************)
(* uv__work_done.  Its local queue is empty whenever it starts again: it   *)
(* is not entered from a callback that it made itself.                     *)
(***************************************************************************)
Turn(l) ==
    CASE pc[l] = "pop" -> "pop"
      [] pc[l] \in {"event", "done", "move"} -> "turn"
      [] OTHER -> "none"

LocalOK(l) == /\ local_wq[l] # <<>> => incb[l] \/ Turn(l) = "pop"
              /\ Turn(l) # "none" => ~incb[l]

LocalInv == \A l \in Loops : LocalOK(l)

\* Workers do not touch a loop's own state.
LEMMA WorkerKeeps ==
    ASSUME TypeInv, NEW w \in Workers, WorkerStep(w) \/ SpuriousWakeup(w)
    PROVE  UNCHANGED <<local_wq, incb>> /\ \A l \in Loops : pc'[l] = pc[l]
  <1> USE DEF WorkerLock, WorkerWait, WorkerWoken, WorkerTake, WorkerCall, WorkerLockLoop, WorkerFinish,
              AsyncSend, AsyncWrite, UnlockLoop, SpuriousWakeup, Goto, loopVars
  <1>1. w \in Threads /\ \A l \in Loops : l \in Threads /\ l # w
    BY Zenon, ThreadsAssumption DEF Threads
  <1>2. CASE WorkerExit(w)
    <2>1. pc[w] # "waiting" /\ "exited" \in WorkerPcs \cup LoopPcs
      BY Zenon, <1>2 DEF WorkerExit, WorkerPcs
    <2>2. Signalled(w, "exited")
      BY Zenon, <1>1, <1>2, <2>1, CondSignalStep DEF WorkerExit
    <2>3. \A l \in Loops : l \notin waiting
      BY Zenon, ThreadsAssumption DEF TypeInv, TypeOK
    <2> QED BY Zenon, <1>1, <1>2, <2>2, <2>3 DEF WorkerExit, Signalled
  <1>3. CASE ~WorkerExit(w)
    <2>1. UNCHANGED <<local_wq, incb>>
      BY Zenon, <1>3 DEF WorkerStep
    <2>2. \E label : pc' = [pc EXCEPT ![w] = label]
      <3>1. CASE WorkerCall(w)
        BY Zenon, <3>1
      <3>2. CASE ~WorkerCall(w)
        BY Zenon, <1>3, <3>2 DEF WorkerStep
      <3> QED BY Zenon, <3>1, <3>2
    <2> QED BY Zenon, <1>1, <2>1, <2>2 DEF TypeInv, TypeOK
  <1> QED BY Zenon, <1>2, <1>3

\* A loop's steps leave the other loops' state alone.
LEMMA LocalStep ==
    ASSUME LocalInv, NEW x \in Loops, LocalOK(x)',
           \A l \in Loops \ {x} : /\ local_wq'[l] = local_wq[l] /\ incb'[l] = incb[l]
                                  /\ pc'[l] = pc[l]
    PROVE  LocalInv'
  <1> SUFFICES ASSUME NEW l \in Loops \ {x} PROVE LocalOK(l)'
    BY Zenon DEF LocalInv
  <1>1. LocalOK(l) /\ Turn(l)' = Turn(l)
    BY Zenon DEF LocalInv, Turn
  <1> QED BY Zenon, <1>1 DEF LocalOK

\* A loop moves outside uv__work_done.
LEMMA LocalMove ==
    ASSUME TypeInv, LocalInv, NEW x \in Loops, NEW label, pc' = [pc EXCEPT ![x] = label],
           pc[x] \notin {"event", "done", "move", "pop"},
           label \notin {"event", "done", "move", "pop"}, UNCHANGED <<local_wq, incb>>
    PROVE  LocalInv'
  <1>1. pc'[x] = label /\ \A l \in Loops \ {x} : pc'[l] = pc[l]
    BY Zenon DEF TypeInv, TypeOK, Threads
  <1>2. Turn(x) = "none" /\ Turn(x)' = "none" /\ LocalOK(x)
    BY Zenon, <1>1 DEF Turn, LocalInv
  <1>3. LocalOK(x)'
    BY Zenon, <1>2 DEF LocalOK
  <1> QED BY Zenon, <1>1, <1>3, LocalStep

LEMMA SignalledLoops ==
    ASSUME TypeInv, NEW x \in Loops, NEW label, Signalled(x, label)
    PROVE  pc'[x] = label /\ \A l \in Loops \ {x} : pc'[l] = pc[l]
  <1>1. \A l \in Loops : l \notin waiting /\ l \in Threads
    BY Zenon, ThreadsAssumption DEF TypeInv, TypeOK, Threads
  <1> QED BY Zenon, <1>1 DEF Signalled

\* The steps inside uv__async_io and uv__work_done.
LEMMA LocalTurn ==
    ASSUME TypeInv, LocalInv, NEW l \in Loops,
           \/ AsyncIo(l) \/ AsyncEvent(l) \/ WorkDoneLock(l) \/ WorkDoneMove(l)
           \/ WorkDonePop(l) \/ WorkDoneEnd(l) \/ CallbackReturns(l)
    PROVE  LocalInv'
  <1> USE DEF loopVars, Goto
  <1>1. LocalOK(l) /\ l \in Threads
    BY Zenon DEF LocalInv, Threads
  <1>2. PICK label : pc' = [pc EXCEPT ![l] = label]
    BY Zenon DEF AsyncIo, AsyncEvent, WorkDoneLock, WorkDoneMove, WorkDonePop, WorkDoneEnd, CallbackReturns
  <1>3. pc'[l] = label /\ \A k \in Loops \ {l} : pc'[k] = pc[k]
    BY Zenon, <1>1, <1>2 DEF TypeInv, TypeOK, Threads
  <1>4. \A k \in Loops \ {l} : local_wq'[k] = local_wq[k] /\ incb'[k] = incb[k]
    BY Zenon DEF AsyncIo, AsyncEvent, WorkDoneLock, WorkDoneMove, WorkDonePop, WorkDoneEnd, CallbackReturns,
                 TypeInv, TypeOK
  <1>5. LocalOK(l)'
    <2>1. CASE AsyncIo(l)
      <3>1. pc[l] = "user" /\ pc'[l] = "event" /\ ~incb[l] /\ UNCHANGED <<local_wq, incb>>
        BY Zenon, <1>1, <2>1 DEF AsyncIo, TypeInv, TypeOK
      <3> QED BY Zenon, <1>1, <3>1 DEF LocalOK, Turn
    <2>2. CASE AsyncEvent(l)
      <3>1. pc[l] = "event" /\ pc'[l] \in {"done", "user"} /\ UNCHANGED <<local_wq, incb>>
        BY Zenon, <1>1, <2>2 DEF AsyncEvent, TypeInv, TypeOK
      <3> QED BY Zenon, <1>1, <3>1 DEF LocalOK, Turn
    <2>3. CASE WorkDoneLock(l)
      <3>1. pc[l] = "done" /\ pc'[l] = "move" /\ UNCHANGED <<local_wq, incb>>
        BY Zenon, <1>1, <2>3 DEF WorkDoneLock, TypeInv, TypeOK
      <3> QED BY Zenon, <1>1, <3>1 DEF LocalOK, Turn
    <2>4. CASE WorkDoneMove(l)
      <3>1. pc[l] = "move" /\ pc'[l] = "pop" /\ incb' = incb
        BY Zenon, <1>1, <2>4 DEF WorkDoneMove, TypeInv, TypeOK
      <3> QED BY Zenon, <1>1, <3>1 DEF LocalOK, Turn
    <2>5. CASE WorkDonePop(l)
      <3>1. pc'[l] = "user" /\ incb'[l]
        BY Zenon, <1>1, <2>5 DEF WorkDonePop, TypeInv, TypeOK
      <3> QED BY Zenon, <3>1 DEF LocalOK, Turn
    <2>6. CASE WorkDoneEnd(l)
      <3>1. pc'[l] = "user" /\ local_wq'[l] = <<>>
        BY Zenon, <1>1, <2>6 DEF WorkDoneEnd, TypeInv, TypeOK
      <3> QED BY Zenon, <3>1 DEF LocalOK, Turn
    <2>7. CASE CallbackReturns(l)
      <3>1. pc'[l] = "pop" /\ ~incb'[l]
        BY Zenon, <1>1, <2>7 DEF CallbackReturns, TypeInv, TypeOK
      <3> QED BY Zenon, <3>1 DEF LocalOK, Turn
    <2> QED BY Zenon, <2>1, <2>2, <2>3, <2>4, <2>5, <2>6, <2>7
  <1> QED BY Zenon, <1>3, <1>4, <1>5, LocalStep

LEMMA UnlinkEmpty == ASSUME NEW x PROVE Unlink(<<>>, x) = <<>>
  <1>1. ~ \E i \in 1..Len(<<>>) : <<>>[i] = x
    OBVIOUS
  <1> QED BY Zenon, <1>1 DEF Unlink

LEMMA LocalLoopNext ==
    ASSUME TypeInv, LocalInv, NEW l \in Loops, LoopStep(l) \/ ProgramStep(l)
    PROVE  LocalInv'
  <1> USE DEF loopVars, Goto
  <1>1. l \in Threads /\ l \notin Workers /\ LocalOK(l)
    BY Zenon, ThreadsAssumption DEF Threads, LocalInv
  <1>2. CASE PostLock(l)
    BY Zenon, <1>2, LocalMove DEF PostLock
  <1>3. CASE CancelLock(l)
    BY Zenon, <1>3, LocalMove DEF CancelLock
  <1>4. CASE CancelLockLoop(l)
    BY Zenon, <1>4, LocalMove DEF CancelLockLoop
  <1>5. CASE CancelMark(l)
    BY Zenon, <1>5, LocalMove DEF CancelMark
  <1>6. CASE CancelRelock(l)
    BY Zenon, <1>6, LocalMove DEF CancelRelock
  <1>7. CASE CancelInsert(l)
    BY Zenon, <1>7, LocalMove DEF CancelInsert
  <1>8. CASE AsyncSend(l)
    BY Zenon, <1>8, LocalMove DEF AsyncSend
  <1>9. CASE AsyncWrite(l)
    BY Zenon, <1>9, LocalMove DEF AsyncWrite
  <1>10. CASE UnlockLoop(l)
    BY Zenon, <1>1, <1>10, LocalMove DEF UnlockLoop
  <1>11. CASE ExitLock(l)
    BY Zenon, <1>11, LocalMove DEF ExitLock
  <1>12. CASE Cleanup(l)
    BY Zenon, <1>12, LocalMove DEF Cleanup
  <1>13. ASSUME NEW r \in Reqs, Cancel(l, r) PROVE LocalInv'
    BY Zenon, <1>13, LocalMove DEF Cancel
  <1>14. ASSUME pc[l] \in {"posting", "exit_posting", "join", "user"}, pc'[l] \in {"user", "join", "post"},
                \A k \in Loops \ {l} : pc'[k] = pc[k], UNCHANGED <<local_wq, incb>>
         PROVE  LocalInv'
    <2>1. Turn(l) = "none" /\ Turn(l)' = "none"
      BY Zenon, <1>14 DEF Turn
    <2>2. LocalOK(l)'
      BY Zenon, <1>1, <1>14, <2>1 DEF LocalOK
    <2> QED BY Zenon, <1>14, <2>2, LocalStep
  <1>15. CASE PostInsert(l)
    <2>1. pc[l] = "posting" /\ "user" \in WorkerPcs \cup LoopPcs
      BY Zenon, <1>15 DEF PostInsert, LoopPcs
    <2>2. Signalled(l, "user")
      BY Zenon, <1>1, <1>15, <2>1, PostStep DEF PostInsert
    <2>3. pc'[l] = "user" /\ \A k \in Loops \ {l} : pc'[k] = pc[k]
      BY Zenon, <2>2, SignalledLoops
    <2> QED BY Zenon, <1>14, <1>15, <2>1, <2>3 DEF PostInsert
  <1>16. CASE ExitInsert(l)
    <2>1. pc[l] = "exit_posting" /\ "join" \in WorkerPcs \cup LoopPcs
      BY Zenon, <1>16 DEF ExitInsert, LoopPcs
    <2>2. Signalled(l, "join")
      BY Zenon, <1>1, <1>16, <2>1, PostStep DEF ExitInsert
    <2>3. pc'[l] = "join" /\ \A k \in Loops \ {l} : pc'[k] = pc[k]
      BY Zenon, <2>2, SignalledLoops
    <2> QED BY Zenon, <1>14, <1>16, <2>1, <2>3 DEF ExitInsert
  <1>17. \A k \in Loops : k \in Threads /\ k \notin Workers
    BY Zenon, ThreadsAssumption DEF Threads
  <1>18. CASE Join(l)
    <2>1. pc'[l] = "user" /\ \A k \in Loops \ {l} : pc'[k] = pc[k]
      BY Zenon, <1>1, <1>17, <1>18 DEF Join, TypeInv, TypeOK
    <2> QED BY Zenon, <1>14, <1>18, <2>1 DEF Join
  <1>19. ASSUME NEW r \in Reqs, QueueWork(l, r) PROVE LocalInv'
    <2>1. pc'[l] = "post" /\ \A k \in Loops \ {l} : pc'[k] = pc[k]
      <3>1. CASE threads = {}
        <4>1. PICK ws \in SUBSET Workers :
                pc' = [t \in Threads |-> IF t \in ws THEN "lock" ELSE IF t = l THEN "post" ELSE pc[t]]
          BY Zenon, <1>19, <3>1 DEF QueueWork
        <4>2. \A k \in Loops : k \notin ws
          BY Zenon, <1>17
        <4> QED BY Zenon, <1>17, <4>1, <4>2
      <3>2. CASE threads # {}
        BY Zenon, <1>17, <1>19, <3>2 DEF QueueWork, TypeInv, TypeOK
      <3> QED BY Zenon, <3>1, <3>2
    <2> QED BY Zenon, <1>14, <1>19, <2>1 DEF QueueWork
  <1>20. CASE CancelTest(l)
    <2>1. pc[l] = "cancel_test" /\ pc'[l] \in {"cancelled", "user"} /\ \A k \in Loops \ {l} : pc'[k] = pc[k]
      BY Zenon, <1>1, <1>17, <1>20 DEF CancelTest, TypeInv, TypeOK
    <2>2. incb' = incb /\ \A k \in Loops \ {l} : local_wq'[k] = local_wq[k]
      BY Zenon, <1>20 DEF CancelTest, TypeInv, TypeOK
    <2>3. local_wq'[l] # <<>> => local_wq[l] # <<>>
      <3>1. local_wq'[l] = local_wq[l] \/ local_wq'[l] = Unlink(local_wq[l], cur[l])
        BY Zenon, <1>20 DEF CancelTest, TypeInv, TypeOK
      <3> QED BY Zenon, <3>1, UnlinkEmpty
    <2>4. Turn(l) = "none" /\ Turn(l)' = "none"
      BY Zenon, <2>1 DEF Turn
    <2>5. LocalOK(l)'
      BY Zenon, <1>1, <2>2, <2>3, <2>4 DEF LocalOK
    <2> QED BY Zenon, <2>1, <2>2, <2>5, LocalStep
  <1> QED BY Zenon, <1>2, <1>3, <1>4, <1>5, <1>6, <1>7, <1>8, <1>9, <1>10, <1>11, <1>12, <1>13,
             <1>15, <1>16, <1>18, <1>19, <1>20, LocalTurn DEF LoopStep, ProgramStep

LEMMA LocalNext == TypeInv /\ LocalInv /\ [Next]_vars => LocalInv'
  <1>1. ASSUME LocalInv, UNCHANGED <<local_wq, incb>>, \A l \in Loops : pc'[l] = pc[l] PROVE LocalInv'
    BY Zenon, <1>1 DEF LocalInv, LocalOK, Turn
  <1>2. ASSUME UNCHANGED vars PROVE UNCHANGED <<local_wq, incb, pc>>
    BY Zenon, <1>2 DEF vars, loopVars, ctlVars
  <1> QED BY Zenon, <1>1, <1>2, WorkerKeeps, LocalLoopNext DEF Next

-----------------------------------------------------------------------------
(***************************************************************************)
(* No request is lost.                                                     *)
(***************************************************************************)
Somewhere(r) ==
    \/ In(wq, r) \/ In(loop_wq[LoopOf[r]], r) \/ In(local_wq[LoopOf[r]], r)
    \/ Held(r)

NotLost == \A r \in active : Somewhere(r)

\* The other threads go on holding their requests, and x if it goes on.
LEMMA HeldStays ==
    ASSUME NEW x \in Threads, OthersKeep(x), NEW r,
           \/ r # cur[x]
           \/ Stage(x) \notin HoldStages
           \/ Stage(x)' \in HoldStages /\ cur'[x] = cur[x],
           Held(r)
    PROVE  Held(r)'
  <1>1. PICK t \in Threads : Holds(t, r)
    BY Zenon DEF Held
  <1>2. Holds(t, r)'
    <2>1. CASE t = x
      BY Zenon, <1>1, <2>1 DEF Holds
    <2>2. CASE t # x
      BY Zenon, <1>1, <2>2 DEF Holds, HoldStages, OthersKeep, Keeps
    <2> QED BY Zenon, <2>1, <2>2
  <1> QED BY Zenon, <1>2 DEF Held

\* Steps that move no request.
LEMMA LostFrame ==
    ASSUME NotLost, UNCHANGED reqState, \A t \in Threads : Keeps(t)
    PROVE  NotLost'
  <1>1. \A r : Held(r) => Held(r)'
    BY Zenon DEF Held, Holds, HoldStages, Keeps
  <1> QED BY Zenon, <1>1 DEF NotLost, Somewhere, reqState

\* A step of x that keeps the queues and the request that x holds.
LEMMA LostHeld ==
    ASSUME NotLost, NEW x \in Threads, OthersKeep(x), UNCHANGED <<wq, loop_wq, local_wq, active>>,
           Stage(x) \in HoldStages => Stage(x)' \in HoldStages /\ cur'[x] = cur[x]
    PROVE  NotLost'
  <1>1. \A r : Held(r) => Held(r)'
    BY Zenon, HeldStays
  <1> QED BY Zenon, <1>1 DEF NotLost, Somewhere

LEMMA TakeLost ==
    ASSUME TypeInv, NotLost, NEW w \in Workers, WorkerTake(w)
    PROVE  NotLost'
  <1>1. /\ w \in Threads /\ OthersKeep(w) /\ UNCHANGED <<loop_wq, local_wq, active>>
        /\ Stage(w) = "none" /\ Stage(w)' = "taken" /\ cur'[w] = Head(wq)
    BY Zenon DEF WorkerTake, TypeInv, TypeOK, Threads, OthersKeep, Keeps, Stage, Goto, loopVars
  <1>2. \A r : In(wq, r) => In(wq', r) \/ r = Head(wq)
    <2>1. wq' = Tail(wq) /\ wq # <<>> /\ wq \in Seq(Reqs \cup {ExitMsg})
      BY Zenon DEF WorkerTake, TypeInv, TypeOK
    <2>2. \A r : In(wq, r) /\ r # Head(wq) => In(Tail(wq), r)
      BY Zenon, <2>1, TailIn
    <2> QED BY Zenon, <2>1, <2>2
  <1>3. PICK r0 : r0 = Head(wq)
    OBVIOUS
  <1>4. Held(r0)'
    BY Zenon, <1>1, <1>3 DEF Held, Holds, HoldStages
  <1>5. Stage(w) \notin HoldStages
    BY Zenon, <1>1 DEF HoldStages
  <1>6. \A r : Held(r) => Held(r)'
    BY Zenon, <1>1, <1>5, HeldStays
  <1> QED BY Zenon, <1>1, <1>2, <1>3, <1>4, <1>6 DEF NotLost, Somewhere

\* Thread x hands its request to the completion queue of the loop.
LEMMA InsertLost ==
    ASSUME TypeInv, NotLost, NEW x \in Threads, WorkerFinish(x) \/ CancelInsert(x)
    PROVE  NotLost'
  <1>1. PICK r0, l0 : r0 = cur[x] /\ l0 = LoopOf[r0]
    OBVIOUS
  <1>2. r0 \in Reqs /\ l0 \in Loops /\ (x \in Loops => x = l0)
    BY Zenon, <1>1, ReqsAssumption DEF WorkerFinish, CancelInsert, TypeInv, CurOK, BusyPcs
  <1>3. /\ UNCHANGED <<wq, local_wq, active, cur>>
        /\ pc[x] \in {"finish", "requeueing"} /\ pc' = [pc EXCEPT ![x] = "send"]
    BY Zenon DEF WorkerFinish, CancelInsert, Goto, poolVars
  <1>4. loop_wq' = [loop_wq EXCEPT ![l0] = Append(loop_wq[l0], r0)]
    <2>1. CASE WorkerFinish(x)
      BY Zenon, <1>1, <2>1 DEF WorkerFinish
    <2>2. CASE CancelInsert(x)
      <3>1. x \in Loops
        BY Zenon, <2>2 DEF CancelInsert, TypeInv, TypeOK, WorkerPcs, Threads
      <3> QED BY Zenon, <1>1, <1>2, <2>2, <3>1 DEF CancelInsert
    <2> QED BY Zenon, <2>1, <2>2
  <1>5. OthersKeep(x)
    BY Zenon, <1>3 DEF TypeInv, TypeOK, OthersKeep, Keeps, Stage
  <1>6. \A r : r # r0 /\ Held(r) => Held(r)'
    BY Zenon, <1>1, <1>5, HeldStays
  <1>7. loop_wq'[l0] = Append(loop_wq[l0], r0) /\ \A l \in Loops \ {l0} : loop_wq'[l] = loop_wq[l]
    BY Zenon, <1>2, <1>4 DEF TypeInv, TypeOK
  <1>8. \A r : In(loop_wq'[l0], r) <=> In(loop_wq[l0], r) \/ r = r0
    <2>1. \A r : In(Append(loop_wq[l0], r0), r) <=> In(loop_wq[l0], r) \/ r = r0
      <3>1. PICK S : loop_wq[l0] \in Seq(S) /\ r0 \in S
        BY Zenon, <1>2 DEF TypeInv, TypeOK
      <3> QED BY Zenon, <3>1, AppendIn
    <2> QED BY Zenon, <1>7, <2>1
  <1> SUFFICES ASSUME NEW r \in active PROVE Somewhere(r)'
    BY Zenon, <1>3 DEF NotLost
  <1>9. r \in Reqs /\ LoopOf[r] \in Loops /\ Somewhere(r)
    BY Zenon, ReqsAssumption DEF TypeInv, TypeOK, NotLost
  <1>10. CASE r = r0
    BY Zenon, <1>1, <1>8, <1>10 DEF Somewhere
  <1>11. CASE r # r0
    <2>1. In(loop_wq[LoopOf[r]], r) => In(loop_wq'[LoopOf[r]], r)
      BY Zenon, <1>7, <1>8, <1>9
    <2> QED BY Zenon, <1>3, <1>6, <1>9, <1>11, <2>1 DEF Somewhere
  <1> QED BY Zenon, <1>10, <1>11

\* uv_queue_work takes charge of a new request; init_once drops no old one.
LEMMA QueueWorkLost ==
    ASSUME TypeInv, ExitInv, NotLost, NEW l \in Loops, NEW r0 \in Reqs, QueueWork(l, r0)
    PROVE  NotLost'
  <1>1. /\ l \in Threads /\ active' = active \cup {r0} /\ cur' = [cur EXCEPT ![l] = r0]
        /\ UNCHANGED <<loop_wq, local_wq>>
    BY Zenon DEF QueueWork, Threads, loopVars
  <1>2. \A r \in Reqs : In(wq, r) => In(wq', r)
    <2>1. CASE threads = {}
      BY Zenon, <2>1 DEF ExitInv, NoneStranded
    <2>2. CASE threads # {}
      BY Zenon, <2>2 DEF QueueWork
    <2> QED BY Zenon, <2>1, <2>2
  <1>3. /\ pc[l] = "user" /\ pc'[l] = "post"
        /\ \A t \in Threads \ {l} : \/ pc'[t] = pc[t]
                                    \/ pc[t] = "none" /\ pc'[t] = "lock"
    <2>1. CASE threads = {}
      <3>1. PICK ws \in SUBSET Workers :
              pc' = [t \in Threads |-> IF t \in ws THEN "lock" ELSE IF t = l THEN "post" ELSE pc[t]]
        BY Zenon, <2>1 DEF QueueWork
      <3>2. l \notin ws /\ \A w \in ws : pc[w] = "none"
        BY Zenon, <2>1, ThreadsAssumption DEF TypeInv, WorkersOK
      <3>3. pc'[l] = "post" /\ \A t \in Threads \ {l} : (t \in ws /\ pc'[t] = "lock") \/ pc'[t] = pc[t]
        BY Zenon, <1>1, <3>1, <3>2
      <3> QED BY Zenon, <3>2, <3>3 DEF QueueWork
    <2>2. CASE threads # {}
      BY Zenon, <1>1, <2>2 DEF QueueWork, TypeInv, TypeOK, Goto
    <2> QED BY Zenon, <2>1, <2>2
  <1>4. cur'[l] = r0 /\ \A t \in Threads \ {l} : cur'[t] = cur[t]
    BY Zenon, <1>1 DEF TypeInv, TypeOK
  <1>5. Stage(l) = "none" /\ Stage(l)' = "new"
    BY Zenon, <1>3 DEF Stage
  <1>6. OthersKeep(l)
    BY Zenon, <1>3, <1>4 DEF Stage, OthersKeep, Keeps
  <1>7. Held(r0)'
    BY Zenon, <1>1, <1>4, <1>5 DEF Held, Holds, HoldStages
  <1>8. \A r : Held(r) => Held(r)'
    BY Zenon, <1>1, <1>5, <1>6, HeldStays DEF HoldStages
  <1> SUFFICES ASSUME NEW r \in active' PROVE Somewhere(r)'
    BY Zenon DEF NotLost
  <1>9. CASE r = r0
    BY Zenon, <1>7, <1>9 DEF Somewhere
  <1>10. CASE r # r0
    <2>1. r \in Reqs /\ Somewhere(r)
      BY Zenon, <1>1, <1>10 DEF NotLost, TypeInv, TypeOK
    <2> QED BY Zenon, <1>1, <1>2, <1>8, <2>1 DEF Somewhere
  <1> QED BY Zenon, <1>9, <1>10

LEMMA PostLost ==
    ASSUME TypeInv, NotLost, NEW l \in Loops, PostInsert(l) \/ ExitInsert(l)
    PROVE  NotLost'
  <1>1. PICK x, label :
          /\ label \in {"user", "join"}
          /\ x \in Reqs \cup {ExitMsg} /\ (x # cur[l] => Stage(l) \notin HoldStages)
          /\ Signalled(l, label) /\ wq' = Append(wq, x)
    <2>1. "user" \in WorkerPcs \cup LoopPcs /\ "join" \in WorkerPcs \cup LoopPcs
      BY Zenon DEF LoopPcs
    <2>2. CASE PostInsert(l)
      <3>1. l \in Threads /\ cur[l] \in Reqs /\ pc[l] = "posting"
        BY Zenon, <2>2 DEF PostInsert, TypeInv, CurOK, BusyPcs, Threads
      <3>2. Signalled(l, "user") /\ wq' = Append(wq, cur[l])
        BY Zenon, <2>1, <2>2, <3>1, PostStep DEF PostInsert
      <3> QED BY Zenon, <3>1, <3>2
    <2>3. CASE ExitInsert(l)
      <3>1. l \in Threads /\ pc[l] = "exit_posting"
        BY Zenon, <2>3 DEF ExitInsert, Threads
      <3>2. Signalled(l, "join") /\ wq' = Append(wq, ExitMsg)
        BY Zenon, <2>1, <2>3, <3>1, PostStep DEF ExitInsert
      <3>3. Stage(l) \notin HoldStages
        BY Zenon, <3>1 DEF Stage, HoldStages
      <3> QED BY Zenon, <3>2, <3>3
    <2> QED BY Zenon, <2>2, <2>3
  <1>2. /\ l \in Threads /\ UNCHANGED <<loop_wq, local_wq, active>>
        /\ \A t \in Threads \ {l} : cur'[t] = cur[t]
    BY Zenon DEF PostInsert, ExitInsert, Threads, loopVars, reqVars, TypeInv, TypeOK
  <1>3. \A r : In(wq', r) <=> In(wq, r) \/ r = x
    <2>1. PICK S : wq \in Seq(S) /\ x \in S
      BY Zenon, <1>1 DEF TypeInv, TypeOK
    <2>2. \A r : In(Append(wq, x), r) <=> In(wq, r) \/ r = x
      BY Zenon, <2>1, AppendIn
    <2> QED BY Zenon, <1>1, <2>2
  <1>4. OthersKeep(l)
    <2>1. \A t \in Threads \ {l} : pc'[t] = pc[t] \/ (pc[t] = "waiting" /\ pc'[t] = "woken")
      BY Zenon, <1>1 DEF Signalled, TypeInv, WorkersOK, TypeOK
    <2> QED BY Zenon, <1>2, <2>1 DEF Stage, OthersKeep, Keeps
  <1>5. \A r : r # x /\ Held(r) => Held(r)'
    <2> SUFFICES ASSUME NEW r, r # x, Held(r) PROVE Held(r)'
      OBVIOUS
    <2>1. r # cur[l] \/ Stage(l) \notin HoldStages
      BY Zenon, <1>1
    <2> QED BY Zenon, <1>2, <1>4, <2>1, HeldStays
  <1> QED BY Zenon, <1>2, <1>3, <1>5 DEF NotLost, Somewhere

\* uv__work_cancel: the thread that unlinks a request holds it from then on.
LEMMA CancelTestLost ==
    ASSUME TypeInv, NotLost, NEW l \in Loops, CancelTest(l)
    PROVE  NotLost'
  <1>1. PICK r0 : r0 = cur[l]
    OBVIOUS
  <1>2. l \in Threads /\ pc[l] = "cancel_test" /\ Stage(l) = "cancelling" /\ active' = active
    BY Zenon DEF CancelTest, Threads, Stage, reqVars
  <1>3. Stage(l) \notin HoldStages
    BY Zenon, <1>2 DEF HoldStages
  <1>4. CASE linked[r0] /\ work[r0] # "null"
    <2>1. /\ wq' = Unlink(wq, r0) /\ loop_wq' = [loop_wq EXCEPT ![l] = Unlink(loop_wq[l], r0)]
          /\ local_wq' = [local_wq EXCEPT ![l] = Unlink(local_wq[l], r0)]
          /\ pc' = [pc EXCEPT ![l] = "cancelled"] /\ cur' = cur
      BY Zenon, <1>1, <1>4 DEF CancelTest, Goto
    <2>2. OthersKeep(l) /\ Stage(l)' = "cancelled" /\ cur'[l] = r0
      BY Zenon, <1>1, <1>2, <2>1 DEF OthersKeep, Keeps, Stage, TypeInv, TypeOK
    <2>3. Held(r0)'
      BY Zenon, <1>2, <2>2 DEF Held, Holds, HoldStages
    <2>4. \A r : Held(r) => Held(r)'
      BY Zenon, <1>2, <1>3, <2>2, HeldStays
    <2>5. \A r : In(wq, r) /\ r # r0 => In(wq', r)
      <3>1. wq \in Seq(Reqs \cup {ExitMsg})
        BY Zenon DEF TypeInv, TypeOK
      <3>2. \A r : In(wq, r) /\ r # r0 => In(Unlink(wq, r0), r)
        BY Zenon, <3>1, UnlinkIn
      <3> QED BY Zenon, <2>1, <3>2
    <2>6. \A k \in Loops : loop_wq[k] \in Seq(Reqs) /\ local_wq[k] \in Seq(Reqs)
      BY Zenon DEF TypeInv, TypeOK
    <2>7. \A k \in Loops : \A r : /\ In(loop_wq[k], r) /\ r # r0 => In(loop_wq'[k], r)
                                  /\ In(local_wq[k], r) /\ r # r0 => In(local_wq'[k], r)
      <3> SUFFICES ASSUME NEW k \in Loops, NEW r, r # r0
                   PROVE  /\ In(loop_wq[k], r) => In(loop_wq'[k], r)
                          /\ In(local_wq[k], r) => In(local_wq'[k], r)
        BY Zenon
      <3>1. CASE k = l
        <4>1. loop_wq'[k] = Unlink(loop_wq[k], r0) /\ local_wq'[k] = Unlink(local_wq[k], r0)
          BY Zenon, <2>1, <3>1 DEF TypeInv, TypeOK
        <4>2. In(loop_wq[k], r) => In(Unlink(loop_wq[k], r0), r)
          BY Zenon, <2>6, UnlinkIn
        <4>3. In(local_wq[k], r) => In(Unlink(local_wq[k], r0), r)
          BY Zenon, <2>6, UnlinkIn
        <4> QED BY Zenon, <4>1, <4>2, <4>3
      <3>2. CASE k # l
        BY Zenon, <2>1, <3>2 DEF TypeInv, TypeOK
      <3> QED BY Zenon, <3>1, <3>2
    <2> SUFFICES ASSUME NEW r \in active PROVE Somewhere(r)'
      BY Zenon, <1>2 DEF NotLost
    <2>8. r \in Reqs /\ LoopOf[r] \in Loops /\ Somewhere(r)
      BY Zenon, ReqsAssumption DEF TypeInv, TypeOK, NotLost
    <2>9. CASE r = r0
      BY Zenon, <2>3, <2>9 DEF Somewhere
    <2>10. CASE r # r0
      BY Zenon, <2>4, <2>5, <2>7, <2>8, <2>10 DEF Somewhere
    <2> QED BY Zenon, <2>9, <2>10
  <1>5. CASE ~(linked[r0] /\ work[r0] # "null")
    <2>1. UNCHANGED <<wq, loop_wq, local_wq>> /\ cur' = [cur EXCEPT ![l] = NoReq]
          /\ pc' = [pc EXCEPT ![l] = "user"]
      BY Zenon, <1>1, <1>5 DEF CancelTest, Goto
    <2>2. OthersKeep(l)
      BY Zenon, <2>1 DEF OthersKeep, Keeps, Stage, TypeInv, TypeOK
    <2> QED BY Zenon, <1>2, <1>3, <2>1, <2>2, LostHeld
  <1> QED BY Zenon, <1>4, <1>5

\* uv__work_done overwrites its local queue only when it is empty.
LEMMA MoveLost ==
    ASSUME TypeInv, LocalInv, NotLost, NEW l \in Loops, WorkDoneMove(l)
    PROVE  NotLost'
  <1>1. /\ UNCHANGED <<wq, active, cur>> /\ local_wq'[l] = loop_wq[l]
        /\ \A k \in Loops \ {l} : loop_wq'[k] = loop_wq[k] /\ local_wq'[k] = local_wq[k]
    BY Zenon DEF WorkDoneMove, poolVars, reqVars, TypeInv, TypeOK
  <1>2. \A t \in Threads : Keeps(t)
    BY Zenon, <1>1 DEF WorkDoneMove, Goto, Keeps, Stage, TypeInv, TypeOK, Threads
  <1>3. \A r : Held(r) => Held(r)'
    BY Zenon, <1>2 DEF Held, Holds, HoldStages, Keeps
  <1>4. \A r : ~In(local_wq[l], r)
    <2>1. Turn(l) = "turn" /\ LocalOK(l)
      BY Zenon DEF WorkDoneMove, Turn, LocalInv
    <2>2. local_wq[l] = <<>>
      BY Zenon, <2>1 DEF LocalOK
    <2>3. \A r : ~In(<<>>, r)
      BY DEF In
    <2> QED BY Zenon, <2>2, <2>3
  <1> SUFFICES ASSUME NEW r \in active PROVE Somewhere(r)'
    BY Zenon, <1>1 DEF NotLost
  <1>5. LoopOf[r] \in Loops /\ Somewhere(r)
    BY Zenon, ReqsAssumption DEF TypeInv, TypeOK, NotLost
  <1>6. CASE LoopOf[r] = l
    BY Zenon, <1>1, <1>3, <1>4, <1>5, <1>6 DEF Somewhere
  <1>7. CASE LoopOf[r] # l
    BY Zenon, <1>1, <1>3, <1>5, <1>7 DEF Somewhere
  <1> QED BY Zenon, <1>6, <1>7

LEMMA PopLost ==
    ASSUME TypeInv, NotLost, NEW l \in Loops, WorkDonePop(l)
    PROVE  NotLost'
  <1>1. PICK r0 : r0 = Head(local_wq[l])
    OBVIOUS
  <1>2. /\ UNCHANGED <<wq, loop_wq, cur>> /\ active' = active \ {r0}
        /\ local_wq'[l] = Tail(local_wq[l])
        /\ \A k \in Loops \ {l} : local_wq'[k] = local_wq[k]
    BY Zenon, <1>1 DEF WorkDonePop, poolVars, TypeInv, TypeOK
  <1>3. \A t \in Threads : Keeps(t)
    BY Zenon, <1>2 DEF WorkDonePop, Goto, Keeps, Stage, TypeInv, TypeOK, Threads
  <1>4. \A r : Held(r) => Held(r)'
    BY Zenon, <1>3 DEF Held, Holds, HoldStages, Keeps
  <1>5. \A r : In(local_wq[l], r) /\ r # r0 => In(local_wq'[l], r)
    <2>1. local_wq[l] \in Seq(Reqs) /\ local_wq[l] # <<>>
      BY Zenon DEF WorkDonePop, TypeInv, TypeOK
    <2>2. \A r : In(local_wq[l], r) /\ r # r0 => In(Tail(local_wq[l]), r)
      BY Zenon, <1>1, <2>1, TailIn
    <2> QED BY Zenon, <1>2, <2>2
  <1> SUFFICES ASSUME NEW r \in active, r # r0 PROVE Somewhere(r)'
    BY Zenon, <1>2 DEF NotLost
  <1>6. LoopOf[r] \in Loops /\ Somewhere(r)
    BY Zenon, ReqsAssumption DEF TypeInv, TypeOK, NotLost
  <1>7. In(local_wq[LoopOf[r]], r) => In(local_wq'[LoopOf[r]], r)
    BY Zenon, <1>2, <1>5, <1>6
  <1> QED BY Zenon, <1>2, <1>4, <1>6, <1>7 DEF Somewhere

LEMMA NotLostNext == TypeInv /\ PlaceInv /\ ExitInv /\ LocalInv /\ NotLost /\ [Next]_vars => NotLost'
  <1> SUFFICES ASSUME TypeInv, PlaceInv, ExitInv, LocalInv, NotLost, [Next]_vars PROVE NotLost'
    OBVIOUS
  <1>1. CASE UNCHANGED vars
    <2>1. UNCHANGED reqState /\ \A t \in Threads : Keeps(t)
      BY Zenon, <1>1 DEF vars, poolVars, loopVars, reqVars, ctlVars, reqState, Keeps, Stage
    <2> QED BY Zenon, <2>1, LostFrame
  <1>2. ASSUME NEW w \in Workers, WorkerStep(w) \/ SpuriousWakeup(w)
        PROVE  NotLost'
    <2>1. CASE \/ WorkerLock(w) \/ WorkerWait(w) \/ SpuriousWakeup(w) \/ WorkerWoken(w)
               \/ WorkerExit(w) \/ WorkerLockLoop(w)
      BY Zenon, <2>1, QuietWorkerSteps, LostFrame
    <2>2. CASE AsyncSend(w) \/ AsyncWrite(w) \/ UnlockLoop(w)
      BY Zenon, <2>2, QuietSendSteps, LostFrame DEF Threads
    <2>3. CASE WorkerTake(w)
      BY Zenon, <2>3, TakeLost
    <2>4. CASE WorkerCall(w)
      <3>1. w \in Threads /\ pc'[w] = "exec" /\ pc' = [pc EXCEPT ![w] = "exec"]
        BY Zenon, <2>4, CallPlaces DEF WorkerCall, Goto, Threads, TypeInv, TypeOK
      <3>2. Stage(w)' \in HoldStages /\ OthersKeep(w) /\ UNCHANGED <<wq, loop_wq, local_wq, active, cur>>
        BY Zenon, <2>4, <3>1 DEF WorkerCall, poolVars, loopVars, Stage, HoldStages, OthersKeep, Keeps, TypeInv, TypeOK
      <3> QED BY Zenon, <3>1, <3>2, LostHeld
    <2>5. CASE WorkerFinish(w)
      BY Zenon, <2>5, InsertLost DEF Threads
    <2> QED BY Zenon, <1>2, <2>1, <2>2, <2>3, <2>4, <2>5 DEF WorkerStep
  <1>3. ASSUME NEW l \in Loops, LoopStep(l)
        PROVE  NotLost'
    <2>1. CASE \/ PostLock(l) \/ CancelLock(l) \/ CancelLockLoop(l) \/ CancelRelock(l)
               \/ AsyncEvent(l) \/ WorkDoneLock(l) \/ WorkDoneEnd(l) \/ ExitLock(l) \/ Join(l)
      BY Zenon, <2>1, QuietLoopSteps, LostFrame
    <2>2. CASE AsyncSend(l) \/ AsyncWrite(l) \/ UnlockLoop(l)
      BY Zenon, <2>2, QuietSendSteps, LostFrame DEF Threads
    <2>3. CASE PostInsert(l) \/ ExitInsert(l)
      BY Zenon, <2>3, PostLost
    <2>4. CASE CancelTest(l)
      BY Zenon, <2>4, CancelTestLost
    <2>5. CASE CancelMark(l)
      <3>1. /\ l \in Threads /\ pc[l] = "cancelled" /\ pc' = [pc EXCEPT ![l] = "requeue"]
            /\ UNCHANGED <<wq, loop_wq, local_wq, active, cur>>
        BY Zenon, <2>5 DEF CancelMark, Goto, Threads, poolVars, loopVars
      <3>2. Stage(l)' \in HoldStages /\ OthersKeep(l)
        BY Zenon, <3>1 DEF Stage, HoldStages, OthersKeep, Keeps, TypeInv, TypeOK
      <3> QED BY Zenon, <3>1, <3>2, LostHeld
    <2>6. CASE CancelInsert(l)
      BY Zenon, <2>6, InsertLost DEF Threads
    <2>7. CASE WorkDoneMove(l)
      BY Zenon, <2>7, MoveLost
    <2>8. CASE WorkDonePop(l)
      BY Zenon, <2>8, PopLost
    <2> QED BY Zenon, <1>3, <2>1, <2>2, <2>3, <2>4, <2>5, <2>6, <2>7, <2>8 DEF LoopStep
  <1>4. ASSUME NEW l \in Loops, ProgramStep(l)
        PROVE  NotLost'
    <2>1. CASE AsyncIo(l) \/ CallbackReturns(l) \/ Cleanup(l)
      BY Zenon, <2>1, QuietLoopSteps, LostFrame
    <2>2. ASSUME NEW r \in Reqs, QueueWork(l, r) PROVE NotLost'
      BY Zenon, <2>2, QueueWorkLost
    <2>3. ASSUME NEW r \in Reqs, Cancel(l, r) PROVE NotLost'
      <3>1. l \in Threads /\ pc[l] = "user" /\ cur' = [cur EXCEPT ![l] = r]
            /\ pc' = [pc EXCEPT ![l] = "cancel"] /\ UNCHANGED <<wq, loop_wq, local_wq, active>>
        BY Zenon, <2>3 DEF Cancel, Goto, Threads, poolVars, loopVars, reqVars
      <3>2. Stage(l) = "none" /\ OthersKeep(l)
        BY Zenon, <3>1 DEF Stage, OthersKeep, Keeps, TypeInv, TypeOK
      <3>3. Stage(l) \notin HoldStages
        BY Zenon, <3>2 DEF HoldStages
      <3> QED BY Zenon, <3>1, <3>2, <3>3, LostHeld
    <2> QED BY Zenon, <1>4, <2>1, <2>2, <2>3 DEF ProgramStep
  <1> QED BY Zenon, <1>1, <1>2, <1>3, <1>4 DEF Next

-----------------------------------------------------------------------------
(***************************************************************************)
(* One place, counted.                                                     *)
(***************************************************************************)
AtWq(r, p) == \E i \in 1..Len(wq) : wq[i] = r /\ p = <<"wq", i>>
AtLoop(r, p) == \E i \in 1..Len(loop_wq[LoopOf[r]]) :
                    loop_wq[LoopOf[r]][i] = r /\ p = <<"loop_wq", i>>
AtLocal(r, p) == \E i \in 1..Len(local_wq[LoopOf[r]]) :
                    local_wq[LoopOf[r]][i] = r /\ p = <<"local_wq", i>>
AtThread(r, p) == \E t \in Threads : Holds(t, r) /\ p = <<"thread", t>>

LEMMA PlacesAre ==
    ASSUME NEW r
    PROVE  \A p : p \in Places(r) <=> AtWq(r, p) \/ AtLoop(r, p) \/ AtLocal(r, p) \/ AtThread(r, p)
  <1>1. \A t \in Threads : Holding(t, r) <=> Holds(t, r)
    BY Zenon DEF Holding, Holds, HoldStages, Stage
  <1> SUFFICES ASSUME NEW p
               PROVE  p \in Places(r) <=> AtWq(r, p) \/ AtLoop(r, p) \/ AtLocal(r, p) \/ AtThread(r, p)
    OBVIOUS
  <1>2. p \in {<<"wq", i>> : i \in {j \in 1..Len(wq) : wq[j] = r}} <=> AtWq(r, p)
    BY Zenon DEF AtWq
  <1>3. p \in {<<"loop_wq", i>> : i \in {j \in 1..Len(loop_wq[LoopOf[r]]) : loop_wq[LoopOf[r]][j] = r}}
            <=> AtLoop(r, p)
    BY Zenon DEF AtLoop
  <1>4. p \in {<<"local_wq", i>> : i \in {j \in 1..Len(local_wq[LoopOf[r]]) : local_wq[LoopOf[r]][j] = r}}
            <=> AtLocal(r, p)
    BY Zenon DEF AtLocal
  <1>5. p \in {<<"thread", t>> : t \in {u \in Threads : Holding(u, r)}} <=> AtThread(r, p)
    BY Zenon, <1>1 DEF AtThread
  <1> QED BY Zenon, <1>2, <1>3, <1>4, <1>5 DEF Places

LEMMA OnePlace ==
    ASSUME TypeInv, PlaceInv, NotLost, NEW r \in Reqs
    PROVE  Cardinality(Places(r)) = IF r \in active THEN 1 ELSE 0
  <1>1. LoopOf[r] \in Loops
    BY Zenon, ReqsAssumption
  <1>2. /\ \A p : AtWq(r, p) => In(wq, r)
        /\ \A p : AtLoop(r, p) => In(loop_wq[LoopOf[r]], r)
        /\ \A p : AtLocal(r, p) => In(local_wq[LoopOf[r]], r)
        /\ \A p : AtThread(r, p) => Held(r)
    BY Zenon DEF AtWq, AtLoop, AtLocal, AtThread, In, Held
  <1>3. /\ In(wq, r) => r \in active /\ work[r] = "fn" /\ ~Held(r)
        /\ In(loop_wq[LoopOf[r]], r) => /\ r \in active /\ Dealt(r) /\ ~Held(r)
                                        /\ ~In(local_wq[LoopOf[r]], r)
        /\ In(local_wq[LoopOf[r]], r) => r \in active /\ Dealt(r) /\ ~Held(r)
        /\ Held(r) => r \in active
    <2>1. Held(r) => r \in active
      BY Zenon DEF Held, Holds, HoldStages, PlaceInv, TaskOK
    <2> QED BY Zenon, <1>1, <2>1 DEF PlaceInv, WqOK, LoopWqOK, LocalWqOK
  <1>4. ~(work[r] = "fn" /\ Dealt(r))
    BY Zenon DEF Dealt
  <1>5. CASE r \notin active
    <2>1. Places(r) = {}
      BY Zenon, <1>2, <1>3, <1>5, PlacesAre
    <2> QED BY Zenon, <1>5, <2>1, FS_EmptySet
  <1>6. CASE r \in active
    <2>1. PICK p : p \in Places(r)
      <3>1. Somewhere(r)
        BY Zenon, <1>6 DEF NotLost
      <3>2. In(wq, r) => \E p : AtWq(r, p)
        BY Zenon DEF In, AtWq
      <3>3. In(loop_wq[LoopOf[r]], r) => \E p : AtLoop(r, p)
        BY Zenon DEF In, AtLoop
      <3>4. In(local_wq[LoopOf[r]], r) => \E p : AtLocal(r, p)
        BY Zenon DEF In, AtLocal
      <3>5. Held(r) => \E p : AtThread(r, p)
        BY Zenon DEF Held, AtThread
      <3> QED BY Zenon, <3>1, <3>2, <3>3, <3>4, <3>5, PlacesAre DEF Somewhere
    <2>2. \A q : AtWq(r, p) /\ AtWq(r, q) => q = p
      BY Zenon DEF AtWq, PlaceInv, QueuesOnce, Once
    <2>3. \A q : AtLoop(r, p) /\ AtLoop(r, q) => q = p
      BY Zenon, <1>1 DEF AtLoop, PlaceInv, QueuesOnce, Once
    <2>4. \A q : AtLocal(r, p) /\ AtLocal(r, q) => q = p
      BY Zenon, <1>1 DEF AtLocal, PlaceInv, QueuesOnce, Once
    <2>5. \A q : AtThread(r, p) /\ AtThread(r, q) => q = p
      BY Zenon DEF AtThread, PlaceInv, OneHolder
    <2>6. \A q : q \in Places(r) => q = p
      BY Zenon, <1>2, <1>3, <1>4, <2>1, <2>2, <2>3, <2>4, <2>5, PlacesAre
    <2>7. Places(r) = {p}
      BY Zenon, <2>1, <2>6
    <2> QED BY Zenon, <1>6, <2>7, FS_Singleton
  <1> QED BY Zenon, <1>5, <1>6

\* In every reachable state a request between uv_queue_work and its done callback
\* is in exactly one of the pool's queue, the loop's queues and a thread's hands,
\* and any other request in none (threadpool.c:94-117, 220-237, 251-261).
THEOREM RequestIsInOnePlace == Spec => []RequestInOnePlace
  <1> DEFINE IInv == TypeInv /\ PlaceInv /\ ExitInv /\ LocalInv /\ NotLost
  <1>1. Init => IInv
    <2> SUFFICES ASSUME Init PROVE ExitInv /\ LocalInv /\ NotLost
      BY Zenon, TypeInvInit, PlaceInvInit
    <2>1. \A l \in Loops : l \in Threads /\ l \notin Workers
      BY Zenon, ThreadsAssumption DEF Threads
    <2>2. \A l \in Loops : Role(l) = "none" /\ Turn(l) = "none" /\ local_wq[l] = <<>> /\ ~incb[l]
      BY Zenon, <2>1 DEF Init, Role, Turn
    <2>3. ~Exited
      BY Zenon DEF Init, Exited, Threads
    <2>4. wq = <<>> /\ threads = {} /\ active = {}
      BY Zenon DEF Init
    <2>5. OneCleanup /\ Alone /\ Started
      BY Zenon, <2>2 DEF OneCleanup, Alone, Started, Exits
    <2>6. MsgPosted /\ MsgLast /\ ExitedSaw /\ NoneStranded
      <3>1. MsgLast /\ \A r : ~In(wq, r)
        BY <2>4 DEF MsgLast, In
      <3> QED BY Zenon, <2>3, <3>1 DEF MsgPosted, ExitedSaw, NoneStranded
    <2> QED BY Zenon, <2>2, <2>4, <2>5, <2>6 DEF ExitInv, LocalInv, LocalOK, NotLost
  <1>2. IInv /\ [Next]_vars => IInv'
    BY Zenon, TypeInvNext, PlaceInvNext, ExitNext, LocalNext, NotLostNext
  <1>3. IInv => RequestInOnePlace
    BY Zenon, OnePlace DEF RequestInOnePlace
  <1> QED BY <1>1, <1>2, <1>3, PTL DEF Spec
=============================================================================
