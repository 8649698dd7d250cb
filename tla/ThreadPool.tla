----------------------------- MODULE ThreadPool -----------------------------
(***************************************************************************)
(* The worker pool of src/threadpool.c: uv_queue_work, uv_cancel, the      *)
(* worker threads, uv__work_done and cleanup, with the wq_async wakeup of  *)
(* unix/async.c that carries completions back to the event loops.          *)
(*                                                                         *)
(* A thread's pc names the code it is about to execute; every step is one  *)
(* critical section, one lock acquisition or one atomic access.  A thread  *)
(* that owns a lock is recorded in mutex or wq_mutex.                      *)
(***************************************************************************)
EXTENDS Naturals, FiniteSets, Sequences

CONSTANTS Workers,      \* the threads init_once may create
          Loops,        \* the threads that run an event loop each
          Reqs,         \* work requests (struct uv__work)
          LoopOf,       \* the loop each request is submitted to
          ExitMsg,      \* the exit_message queue node
          NoReq, NoThread

ASSUME ThreadsAssumption ==
    /\ IsFiniteSet(Workers)
    /\ Workers \cap Loops = {}
    /\ NoThread \notin Workers \cup Loops

ASSUME ReqsAssumption ==
    /\ LoopOf \in [Reqs -> Loops]
    /\ ExitMsg \notin Reqs
    /\ NoReq \notin Reqs

VARIABLES
    threads,        \* the created worker threads; {} when not initialized
    mutex,          \* owner of the global mutex
    waiting,        \* workers blocked in uv_cond_wait(&cond, &mutex)
    idle_threads,
    wq,             \* the pool's queue
    wq_mutex,       \* owner of loop->wq_mutex
    loop_wq,        \* loop->wq: completed and cancelled work
    local_wq,       \* the local wq of uv__work_done
    work,           \* w->work: the work function, uv__cancelled or NULL
    linked,         \* ~QUEUE_EMPTY(&w->wq): the node does not point to itself
    active,         \* requests registered in loop->active_reqs
    pending,        \* wq_async.pending
    efd,            \* the eventfd counter behind loop->async_watcher
    pc, cur,        \* where each thread is, and the request it works on
    incb,           \* the loop is inside a done callback
    ran,            \* history: requests whose work ran since their submission
    status          \* history: the status of the request's last done callback

poolVars == <<threads, mutex, waiting, idle_threads, wq>>
loopVars == <<wq_mutex, loop_wq, local_wq>>
reqVars  == <<work, linked, active, ran, status>>
asyncVars == <<pending, efd>>
ctlVars  == <<pc, cur, incb>>
vars == <<poolVars, loopVars, reqVars, asyncVars, ctlVars>>

Threads == Workers \cup Loops

WorkerPcs == {"none", "lock", "locked", "waiting", "woken", "call", "exec",
              "finish", "send", "write", "unlock", "exited", "aborted"}
LoopPcs == {"user", "post", "posting", "cancel", "cancel_loop", "cancel_test",
            "cancelled", "requeue", "requeueing", "send", "write", "unlock",
            "event", "done", "move", "pop", "exit_post", "exit_posting", "join"}

Init ==
    /\ threads = {} /\ mutex = NoThread /\ waiting = {} /\ idle_threads = 0
    /\ wq = <<>>
    /\ wq_mutex = [l \in Loops |-> NoThread]
    /\ loop_wq = [l \in Loops |-> <<>>]
    /\ local_wq = [l \in Loops |-> <<>>]
    /\ work = [r \in Reqs |-> "null"]
    /\ linked = [r \in Reqs |-> FALSE]
    /\ active = {}
    /\ ran = {}
    /\ status = [r \in Reqs |-> "none"]
    /\ pending = [l \in Loops |-> 0]
    /\ efd = [l \in Loops |-> 0]
    /\ pc = [t \in Threads |-> IF t \in Workers THEN "none" ELSE "user"]
    /\ cur = [t \in Threads |-> NoReq]
    /\ incb = [l \in Loops |-> FALSE]

(***************************************************************************)
(* Helpers.  CondSignal(next) is uv_cond_signal(&cond) in a step that also *)
(* leaves the program counters at next: one blocked worker, if any, wakes. *)
(***************************************************************************)
CondSignal(next) ==
    IF waiting = {}
    THEN pc' = next /\ UNCHANGED waiting
    ELSE \E w \in waiting : /\ waiting' = waiting \ {w}
                            /\ pc' = [next EXCEPT ![w] = "woken"]

\* Mutant of Post: signals only when the queue was empty.
PostSignalsWhenEmpty(q, next) ==
    /\ wq' = Append(wq, q)
    /\ IF wq = <<>> THEN CondSignal(next)
                    ELSE pc' = next /\ UNCHANGED waiting

\* Mutant of Post: no worker is signalled.
PostNeverSignals(q, next) ==
    /\ wq' = Append(wq, q)
    /\ pc' = next
    /\ UNCHANGED waiting

\* The part of post() inside the critical section, for queue node q.
Post(q, next) ==
    /\ wq' = Append(wq, q)
    /\ IF idle_threads > 0 THEN CondSignal(next)
                           ELSE pc' = next /\ UNCHANGED waiting

Goto(t, label) == pc' = [pc EXCEPT ![t] = label]

\* No thread uses the pool while cleanup() is tearing it down.
CleanupRunning == \E l \in Loops : pc[l] \in {"exit_post", "exit_posting", "join"}
InPoolCall(l) == pc[l] \in {"post", "posting", "cancel", "cancel_loop", "cancel_test"}

-----------------------------------------------------------------------------
(***************************************************************************)
(* worker()                                                                *)
(***************************************************************************)
WorkerLock(w) ==
    /\ pc[w] = "lock"
    /\ mutex = NoThread
    /\ mutex' = w
    /\ Goto(w, "locked")
    /\ UNCHANGED <<threads, waiting, idle_threads, wq, loopVars, reqVars, asyncVars, cur, incb>>

\* Mutant of WorkerWait: forgets to count the worker as idle.
WorkerWaitUncounted(w) ==
    /\ pc[w] = "locked"
    /\ wq = <<>>
    /\ waiting' = waiting \cup {w}
    /\ mutex' = NoThread
    /\ Goto(w, "waiting")
    /\ UNCHANGED <<threads, idle_threads, wq, loopVars, reqVars, asyncVars, cur, incb>>

WorkerWait(w) ==
    /\ pc[w] = "locked"
    /\ wq = <<>>
    /\ idle_threads' = idle_threads + 1
    /\ waiting' = waiting \cup {w}
    /\ mutex' = NoThread
    /\ Goto(w, "waiting")
    /\ UNCHANGED <<threads, wq, loopVars, reqVars, asyncVars, cur, incb>>

\* POSIX allows pthread_cond_wait to return without a signal.
SpuriousWakeup(w) ==
    /\ w \in waiting
    /\ waiting' = waiting \ {w}
    /\ Goto(w, "woken")
    /\ UNCHANGED <<threads, mutex, idle_threads, wq, loopVars, reqVars, asyncVars, cur, incb>>

\* Mutant of WorkerWoken: a worker that wakes up is still counted idle.
WorkerWokenStaysIdle(w) ==
    /\ pc[w] = "woken"
    /\ mutex = NoThread
    /\ mutex' = w
    /\ Goto(w, "locked")
    /\ UNCHANGED <<threads, waiting, idle_threads, wq, loopVars, reqVars, asyncVars, cur, incb>>

WorkerWoken(w) ==
    /\ pc[w] = "woken"
    /\ mutex = NoThread
    /\ mutex' = w
    /\ idle_threads' = idle_threads - 1
    /\ Goto(w, "locked")
    /\ UNCHANGED <<threads, waiting, wq, loopVars, reqVars, asyncVars, cur, incb>>

WorkerTake(w) ==
    /\ pc[w] = "locked"
    /\ wq # <<>>
    /\ Head(wq) # ExitMsg
    /\ wq' = Tail(wq)
    /\ linked' = [linked EXCEPT ![Head(wq)] = FALSE]
    /\ cur' = [cur EXCEPT ![w] = Head(wq)]
    /\ mutex' = NoThread
    /\ Goto(w, "call")
    /\ UNCHANGED <<threads, waiting, idle_threads, loopVars, work, active, ran, status, asyncVars, incb>>

\* Mutant of WorkerExit: does not pass the exit message on.
WorkerExitSilent(w) ==
    /\ pc[w] = "locked"
    /\ wq # <<>>
    /\ Head(wq) = ExitMsg
    /\ Goto(w, "exited")
    /\ mutex' = NoThread
    /\ UNCHANGED <<threads, waiting, idle_threads, wq, loopVars, reqVars, asyncVars, cur, incb>>

WorkerExit(w) ==
    /\ pc[w] = "locked"
    /\ wq # <<>>
    /\ Head(wq) = ExitMsg
    /\ CondSignal([pc EXCEPT ![w] = "exited"])
    /\ mutex' = NoThread
    /\ UNCHANGED <<threads, idle_threads, wq, loopVars, reqVars, asyncVars, cur, incb>>

\* w->work(w), outside both locks: uv__cancelled and NULL end the process.
WorkerCall(w) ==
    /\ pc[w] = "call"
    /\ IF work[cur[w]] = "fn"
       THEN ran' = ran \cup {cur[w]} /\ Goto(w, "exec")
       ELSE Goto(w, "aborted") /\ UNCHANGED ran
    /\ UNCHANGED <<poolVars, loopVars, work, linked, active, status, asyncVars, cur, incb>>

WorkerLockLoop(w) ==
    /\ pc[w] = "exec"
    /\ wq_mutex[LoopOf[cur[w]]] = NoThread
    /\ wq_mutex' = [wq_mutex EXCEPT ![LoopOf[cur[w]]] = w]
    /\ Goto(w, "finish")
    /\ UNCHANGED <<poolVars, loop_wq, local_wq, reqVars, asyncVars, cur, incb>>

\* Mutant of WorkerFinish: w->work is not cleared.
WorkerFinishKeepsWork(w) ==
    /\ pc[w] = "finish"
    /\ linked' = [linked EXCEPT ![cur[w]] = TRUE]
    /\ loop_wq' = [loop_wq EXCEPT ![LoopOf[cur[w]]] = Append(@, cur[w])]
    /\ Goto(w, "send")
    /\ UNCHANGED <<poolVars, wq_mutex, local_wq, work, active, ran, status, asyncVars, cur, incb>>

WorkerFinish(w) ==
    /\ pc[w] = "finish"
    /\ work' = [work EXCEPT ![cur[w]] = "null"]
    /\ linked' = [linked EXCEPT ![cur[w]] = TRUE]
    /\ loop_wq' = [loop_wq EXCEPT ![LoopOf[cur[w]]] = Append(@, cur[w])]
    /\ Goto(w, "send")
    /\ UNCHANGED <<poolVars, wq_mutex, local_wq, active, ran, status, asyncVars, cur, incb>>

-----------------------------------------------------------------------------
(***************************************************************************)
(* uv_async_send(&loop->wq_async), called with loop->wq_mutex held by a    *)
(* worker or by uv__work_cancel.  The cheap read and the compare-and-swap  *)
(* take effect together; the eventfd write is a step of its own.           *)
(***************************************************************************)
AsyncSend(t) ==
    LET l == LoopOf[cur[t]] IN
    /\ pc[t] = "send"
    /\ pending' = [pending EXCEPT ![l] = 1]
    /\ Goto(t, IF pending[l] = 0 THEN "write" ELSE "unlock")
    /\ UNCHANGED <<poolVars, loopVars, reqVars, efd, cur, incb>>

AsyncWrite(t) ==
    /\ pc[t] = "write"
    /\ efd' = [efd EXCEPT ![LoopOf[cur[t]]] = @ + 1]
    /\ Goto(t, "unlock")
    /\ UNCHANGED <<poolVars, loopVars, reqVars, pending, cur, incb>>

UnlockLoop(t) ==
    /\ pc[t] = "unlock"
    /\ wq_mutex' = [wq_mutex EXCEPT ![LoopOf[cur[t]]] = NoThread]
    /\ cur' = [cur EXCEPT ![t] = NoReq]
    /\ Goto(t, IF t \in Workers THEN "lock" ELSE "user")
    /\ UNCHANGED <<poolVars, loop_wq, local_wq, reqVars, asyncVars, incb>>

-----------------------------------------------------------------------------
(***************************************************************************)
(* uv_queue_work and post(), by the loop thread l, from the program or     *)
(* from a done callback.  uv_once runs init_once before the first post:    *)
(* the pool size comes from the environment, so any non-empty set of       *)
(* workers may be created.                                                 *)
(***************************************************************************)
QueueWork(l, r) ==
    /\ pc[l] = "user"
    /\ LoopOf[r] = l
    /\ r \notin active
    /\ ~CleanupRunning
    /\ active' = active \cup {r}
    /\ ran' = ran \ {r}
    /\ work' = [work EXCEPT ![r] = "fn"]
    /\ cur' = [cur EXCEPT ![l] = r]
    /\ IF threads = {}
       THEN \E ws \in (SUBSET Workers) \ {{}} :
                /\ threads' = ws
                /\ wq' = <<>>
                /\ pc' = [t \in Threads |-> IF t \in ws THEN "lock"
                                           ELSE IF t = l THEN "post" ELSE pc[t]]
       ELSE Goto(l, "post") /\ UNCHANGED <<threads, wq>>
    /\ UNCHANGED <<mutex, waiting, idle_threads, loopVars, linked, status, asyncVars, incb>>

PostLock(l) ==
    /\ pc[l] = "post"
    /\ mutex = NoThread
    /\ mutex' = l
    /\ Goto(l, "posting")
    /\ UNCHANGED <<threads, waiting, idle_threads, wq, loopVars, reqVars, asyncVars, cur, incb>>

PostInsert(l) ==
    /\ pc[l] = "posting"
    /\ linked' = [linked EXCEPT ![cur[l]] = TRUE]
    /\ Post(cur[l], [pc EXCEPT ![l] = "user"])
    /\ cur' = [cur EXCEPT ![l] = NoReq]
    /\ mutex' = NoThread
    /\ UNCHANGED <<threads, idle_threads, loopVars, work, active, ran, status, asyncVars, incb>>

-----------------------------------------------------------------------------
(***************************************************************************)
(* uv_cancel and uv__work_cancel: both locks are taken, the global one     *)
(* first, to decide; the request is then marked outside the locks and      *)
(* handed to the loop's completion queue.  The caller owns the request and *)
(* its callback has not been made.                                         *)
(***************************************************************************)
Cancel(l, r) ==
    /\ pc[l] = "user"
    /\ LoopOf[r] = l
    /\ r \in active
    /\ threads # {} /\ ~CleanupRunning
    /\ cur' = [cur EXCEPT ![l] = r]
    /\ Goto(l, "cancel")
    /\ UNCHANGED <<poolVars, loopVars, reqVars, asyncVars, incb>>

CancelLock(l) ==
    /\ pc[l] = "cancel"
    /\ mutex = NoThread
    /\ mutex' = l
    /\ Goto(l, "cancel_loop")
    /\ UNCHANGED <<threads, waiting, idle_threads, wq, loopVars, reqVars, asyncVars, cur, incb>>

CancelLockLoop(l) ==
    /\ pc[l] = "cancel_loop"
    /\ wq_mutex[l] = NoThread
    /\ wq_mutex' = [wq_mutex EXCEPT ![l] = l]
    /\ Goto(l, "cancel_test")
    /\ UNCHANGED <<poolVars, loop_wq, local_wq, reqVars, asyncVars, cur, incb>>

\* Mutant of Unlink: the node stays in its queue.
UnlinkNothing(q, r) == q

\* QUEUE_REMOVE(&w->wq): unlinks the node from whichever queue it is in.
Unlink(q, r) ==
    IF \E i \in 1..Len(q) : q[i] = r
    THEN LET k == CHOOSE i \in 1..Len(q) : q[i] = r
         IN  SubSeq(q, 1, k - 1) \o SubSeq(q, k + 1, Len(q))
    ELSE q

\* Mutant of CancelTest: does not look at the queue node.
CancelTestIgnoresNode(l) ==
    LET r == cur[l]
    IN  /\ pc[l] = "cancel_test"
        /\ IF work[r] # "null"
           THEN /\ wq' = Unlink(wq, r)
                /\ loop_wq' = [loop_wq EXCEPT ![l] = Unlink(@, r)]
                /\ local_wq' = [local_wq EXCEPT ![l] = Unlink(@, r)]
                /\ Goto(l, "cancelled")
                /\ UNCHANGED cur
           ELSE /\ cur' = [cur EXCEPT ![l] = NoReq]
                /\ Goto(l, "user")
                /\ UNCHANGED <<wq, loop_wq, local_wq>>
        /\ wq_mutex' = [wq_mutex EXCEPT ![l] = NoThread]
        /\ mutex' = NoThread
        /\ UNCHANGED <<threads, waiting, idle_threads, reqVars, asyncVars, incb>>

CancelTest(l) ==
    LET r == cur[l]
        cancelled == linked[r] /\ work[r] # "null"
    IN  /\ pc[l] = "cancel_test"
        /\ IF cancelled
           THEN /\ wq' = Unlink(wq, r)
                /\ loop_wq' = [loop_wq EXCEPT ![l] = Unlink(@, r)]
                /\ local_wq' = [local_wq EXCEPT ![l] = Unlink(@, r)]
                /\ Goto(l, "cancelled")
                /\ UNCHANGED cur
           ELSE /\ cur' = [cur EXCEPT ![l] = NoReq]
                /\ Goto(l, "user")
                /\ UNCHANGED <<wq, loop_wq, local_wq>>
        /\ wq_mutex' = [wq_mutex EXCEPT ![l] = NoThread]
        /\ mutex' = NoThread
        /\ UNCHANGED <<threads, waiting, idle_threads, reqVars, asyncVars, incb>>

CancelMark(l) ==
    /\ pc[l] = "cancelled"
    /\ work' = [work EXCEPT ![cur[l]] = "cancelled"]
    /\ Goto(l, "requeue")
    /\ UNCHANGED <<poolVars, loopVars, linked, active, ran, status, asyncVars, cur, incb>>

CancelRelock(l) ==
    /\ pc[l] = "requeue"
    /\ wq_mutex[l] = NoThread
    /\ wq_mutex' = [wq_mutex EXCEPT ![l] = l]
    /\ Goto(l, "requeueing")
    /\ UNCHANGED <<poolVars, loop_wq, local_wq, reqVars, asyncVars, cur, incb>>

CancelInsert(l) ==
    /\ pc[l] = "requeueing"
    /\ loop_wq' = [loop_wq EXCEPT ![l] = Append(@, cur[l])]
    /\ linked' = [linked EXCEPT ![cur[l]] = TRUE]
    /\ Goto(l, "send")
    /\ UNCHANGED <<poolVars, wq_mutex, local_wq, work, active, ran, status, asyncVars, cur, incb>>

-----------------------------------------------------------------------------
(***************************************************************************)
(* The loop side: uv__async_io drains the eventfd, uv__async_event clears  *)
(* pending, uv__work_done moves the completed work to a local queue and    *)
(* makes the callbacks.                                                    *)
(***************************************************************************)
AsyncIo(l) ==
    /\ pc[l] = "user"
    /\ ~incb[l]
    /\ efd[l] > 0
    /\ efd' = [efd EXCEPT ![l] = 0]
    /\ Goto(l, "event")
    /\ UNCHANGED <<poolVars, loopVars, reqVars, pending, cur, incb>>

AsyncEvent(l) ==
    /\ pc[l] = "event"
    /\ pending' = [pending EXCEPT ![l] = 0]
    /\ Goto(l, IF pending[l] = 1 THEN "done" ELSE "user")
    /\ UNCHANGED <<poolVars, loopVars, reqVars, efd, cur, incb>>

WorkDoneLock(l) ==
    /\ pc[l] = "done"
    /\ wq_mutex[l] = NoThread
    /\ wq_mutex' = [wq_mutex EXCEPT ![l] = l]
    /\ Goto(l, "move")
    /\ UNCHANGED <<poolVars, loop_wq, local_wq, reqVars, asyncVars, cur, incb>>

WorkDoneMove(l) ==
    /\ pc[l] = "move"
    /\ local_wq' = [local_wq EXCEPT ![l] = loop_wq[l]]
    /\ loop_wq' = [loop_wq EXCEPT ![l] = <<>>]
    /\ wq_mutex' = [wq_mutex EXCEPT ![l] = NoThread]
    /\ Goto(l, "pop")
    /\ UNCHANGED <<poolVars, reqVars, asyncVars, cur, incb>>

\* One round of the while loop, up to the user's after_work_cb: the node is
\* removed without QUEUE_INIT, so it stays linked.
WorkDonePop(l) ==
    LET r == Head(local_wq[l]) IN
    /\ pc[l] = "pop"
    /\ local_wq[l] # <<>>
    /\ local_wq' = [local_wq EXCEPT ![l] = Tail(@)]
    /\ active' = active \ {r}
    /\ status' = [status EXCEPT ![r] = IF work[r] = "cancelled" THEN "ECANCELED" ELSE "0"]
    /\ incb' = [incb EXCEPT ![l] = TRUE]
    /\ Goto(l, "user")
    /\ UNCHANGED <<poolVars, wq_mutex, loop_wq, work, linked, ran, asyncVars, cur>>

CallbackReturns(l) ==
    /\ pc[l] = "user"
    /\ incb[l]
    /\ incb' = [incb EXCEPT ![l] = FALSE]
    /\ Goto(l, "pop")
    /\ UNCHANGED <<poolVars, loopVars, reqVars, asyncVars, cur>>

WorkDoneEnd(l) ==
    /\ pc[l] = "pop"
    /\ local_wq[l] = <<>>
    /\ Goto(l, "user")
    /\ UNCHANGED <<poolVars, loopVars, reqVars, asyncVars, cur, incb>>

-----------------------------------------------------------------------------
(***************************************************************************)
(* cleanup() (tuv_cleanup, or the library destructor), by the thread of    *)
(* loop l: posts the exit message, joins the workers, and lets uv_once run *)
(* init_once again.                                                        *)
(***************************************************************************)
Cleanup(l) ==
    /\ pc[l] = "user"
    /\ threads # {}
    /\ ~CleanupRunning
    /\ \A k \in Loops : ~InPoolCall(k)
    /\ Goto(l, "exit_post")
    /\ UNCHANGED <<poolVars, loopVars, reqVars, asyncVars, cur, incb>>

ExitLock(l) ==
    /\ pc[l] = "exit_post"
    /\ mutex = NoThread
    /\ mutex' = l
    /\ Goto(l, "exit_posting")
    /\ UNCHANGED <<threads, waiting, idle_threads, wq, loopVars, reqVars, asyncVars, cur, incb>>

ExitInsert(l) ==
    /\ pc[l] = "exit_posting"
    /\ Post(ExitMsg, [pc EXCEPT ![l] = "join"])
    /\ mutex' = NoThread
    /\ UNCHANGED <<threads, idle_threads, loopVars, reqVars, asyncVars, cur, incb>>

Join(l) ==
    /\ pc[l] = "join"
    /\ \A w \in threads : pc[w] = "exited"
    /\ threads' = {}
    /\ pc' = [t \in Threads |-> IF t = l THEN "user"
                                ELSE IF t \in threads THEN "none" ELSE pc[t]]
    /\ UNCHANGED <<mutex, waiting, idle_threads, wq, loopVars, reqVars, asyncVars, cur, incb>>

-----------------------------------------------------------------------------
WorkerStep(w) ==
    \/ WorkerLock(w) \/ WorkerWait(w) \/ WorkerWoken(w) \/ WorkerTake(w)
    \/ WorkerExit(w) \/ WorkerCall(w) \/ WorkerLockLoop(w) \/ WorkerFinish(w)
    \/ AsyncSend(w) \/ AsyncWrite(w) \/ UnlockLoop(w)

\* Steps the loop thread takes by itself once the program has called in.
LoopStep(l) ==
    \/ PostLock(l) \/ PostInsert(l)
    \/ CancelLock(l) \/ CancelLockLoop(l) \/ CancelTest(l) \/ CancelMark(l)
    \/ CancelRelock(l) \/ CancelInsert(l)
    \/ AsyncSend(l) \/ AsyncWrite(l) \/ UnlockLoop(l)
    \/ AsyncEvent(l) \/ WorkDoneLock(l) \/ WorkDoneMove(l) \/ WorkDonePop(l)
    \/ WorkDoneEnd(l)
    \/ ExitLock(l) \/ ExitInsert(l) \/ Join(l)

\* What the program decides: calls into the library, running the loop, and
\* returning from a callback.
ProgramStep(l) ==
    \/ \E r \in Reqs : QueueWork(l, r) \/ Cancel(l, r)
    \/ Cleanup(l)
    \/ AsyncIo(l)
    \/ CallbackReturns(l)

Next ==
    \/ \E w \in Workers : WorkerStep(w) \/ SpuriousWakeup(w)
    \/ \E l \in Loops : LoopStep(l) \/ ProgramStep(l)

Spec == Init /\ [][Next]_vars

\* Threads are scheduled, a contended mutex is eventually granted, the
\* program keeps running its loops and its callbacks return.
Fairness ==
    /\ \A w \in Workers : SF_vars(WorkerStep(w))
    /\ \A l \in Loops : /\ SF_vars(LoopStep(l))
                        /\ SF_vars(AsyncIo(l))
                        /\ SF_vars(CallbackReturns(l))

FairSpec == Spec /\ Fairness

-----------------------------------------------------------------------------
\* Type correctness of the pool's state (threadpool.c:59-68 and struct uv__work).
TypeOK ==
    /\ threads \subseteq Workers
    /\ mutex \in Threads \cup {NoThread}
    /\ waiting \subseteq Workers
    /\ idle_threads \in Nat
    /\ wq \in Seq(Reqs \cup {ExitMsg})
    /\ wq_mutex \in [Loops -> Threads \cup {NoThread}]
    /\ loop_wq \in [Loops -> Seq(Reqs)]
    /\ local_wq \in [Loops -> Seq(Reqs)]
    /\ work \in [Reqs -> {"null", "fn", "cancelled"}]
    /\ linked \in [Reqs -> BOOLEAN]
    /\ active \subseteq Reqs
    /\ ran \subseteq Reqs
    /\ status \in [Reqs -> {"none", "0", "ECANCELED"}]
    /\ pending \in [Loops -> {0, 1}]
    /\ efd \in [Loops -> Nat]
    /\ pc \in [Threads -> WorkerPcs \cup LoopPcs]
    /\ \A w \in Workers : pc[w] \in WorkerPcs
    /\ \A l \in Loops : pc[l] \in LoopPcs
    /\ cur \in [Threads -> Reqs \cup {NoReq}]
    /\ incb \in [Loops -> BOOLEAN]

\* Where a request can be: in one of the three queues, or in the hands of a
\* thread that has taken it out of one and not yet put it into the next.
Holding(t, r) ==
    /\ cur[t] = r
    /\ pc[t] \in {"call", "exec", "finish", "post", "posting",
                  "cancelled", "requeue", "requeueing"}

Places(r) ==
    {<<"wq", i>> : i \in {j \in 1..Len(wq) : wq[j] = r}}
    \cup {<<"loop_wq", i>> : i \in {j \in 1..Len(loop_wq[LoopOf[r]]) : loop_wq[LoopOf[r]][j] = r}}
    \cup {<<"local_wq", i>> : i \in {j \in 1..Len(local_wq[LoopOf[r]]) : local_wq[LoopOf[r]][j] = r}}
    \cup {<<"thread", t>> : t \in {u \in Threads : Holding(u, r)}}

\* A request between uv_queue_work and its done callback is in exactly one
\* place, and a request outside is in none: however a worker taking the
\* request, its completion and uv_cancel interleave, the node is never lost
\* and never in two lists (threadpool.c:94-117, 220-237, 251-261).
RequestInOnePlace ==
    \A r \in Reqs : Cardinality(Places(r)) = (IF r \in active THEN 1 ELSE 0)

\* The abort() in uv__cancelled (threadpool.c:71-73) is never reached: no
\* worker ever calls the work function of a request that was cancelled or has
\* finished.
NeverAborts == \A w \in Workers : pc[w] # "aborted"

\* idle_threads counts the workers inside uv_cond_wait, also across cleanup
\* and a second init_once, which does not reset it (threadpool.c:89-91, 167).
IdleCountExact ==
    idle_threads = Cardinality({w \in Workers : pc[w] \in {"waiting", "woken"}})

\* No wakeup that is left out is missed.  Signalling only when idle_threads > 0
\* (threadpool.c:125) leaves no work queued while workers sleep that could take
\* it: nobody is blocked on the condition variable, or as many workers are on
\* their way to the queue as it has entries.  And completed work is not
\* forgotten: whenever loop->wq is not empty the loop will look at it again,
\* because the eventfd is readable, or a sender is about to make it so, or
\* uv__work_done has not yet emptied the queue.
NoLostWakeup ==
    /\ \/ waiting = {}
       \/ Len(wq) <= Cardinality({w \in Workers : pc[w] \in {"lock", "locked", "woken"}})
    /\ \A l \in Loops : loop_wq[l] # <<>> =>
           \/ efd[l] > 0
           \/ pc[l] \in {"event", "done", "move"} /\ (pc[l] = "event" => pending[l] = 1)
           \/ \E t \in Threads : pc[t] \in {"send", "write"} /\ LoopOf[cur[t]] = l

\* A done callback reports UV_ECANCELED exactly when the work function did not
\* run for that submission (threadpool.c:260), whoever won the race between the
\* worker and uv_cancel.
StatusTellsWhetherRan ==
    [][\A r \in Reqs : r \in active /\ r \notin active' =>
           status'[r] = IF r \in ran THEN "0" ELSE "ECANCELED"]_vars

\* Every submitted request gets its done callback, unless the program keeps
\* cancelling that same request again after it was cancelled.  The requests are
\* interchangeable, so that one of them stands for each.
SomeReq == CHOOSE r \in Reqs : TRUE
EveryRequestCompletes ==
    <>[][~(Cancel(LoopOf[SomeReq], SomeReq) /\ work[SomeReq] = "cancelled")]_vars
        => (SomeReq \in active ~> SomeReq \notin active)

\* cleanup() returns: every worker sees the exit message, which is left in the
\* queue and passed on with a signal (threadpool.c:96-107), and can be joined.
CleanupReturns == \A l \in Loops : pc[l] = "exit_post" ~> pc[l] = "user"

(***************************************************************************)
(* The pool implements the abstract work queue.  A request has started     *)
(* once a worker has taken it out of the pool's queue, and is cancelled    *)
(* once uv__work_cancel has decided so under both locks.                   *)
(***************************************************************************)
ReqState(r) ==
    CASE r \notin active -> "idle"
      [] r \in active /\ \E w \in Workers : cur[w] = r /\ pc[w] \in {"call", "exec", "finish"}
            -> "running"
      [] r \in active /\ (work[r] = "cancelled" \/ \E l \in Loops : cur[l] = r /\ pc[l] = "cancelled")
            -> "cancelled"
      [] r \in active /\ work[r] = "null" -> "finished"
      [] OTHER -> "queued"

WQ == INSTANCE WorkQueue WITH state <- [r \in Reqs |-> ReqState(r)], result <- status

\* Every interleaving of workers, loops and uv_cancel looks to the program like
\* the abstract work queue.
ImplementsWorkQueue == WQ!Spec
=============================================================================
