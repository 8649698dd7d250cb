----------------------------- MODULE EventLoop -----------------------------
(***************************************************************************)
(* One event loop: uv_run (unix/core.c) with its timers (unix/timer.c),    *)
(* idle handles (unix/loop-watcher.c), async handles (unix/async.c), the   *)
(* epoll wait of uv__io_poll (unix/linux-core.c) and handle closing, and   *)
(* the other threads that call uv_async_send.                              *)
(*                                                                         *)
(* The loop thread is in user code outside uv_run (pc = "user") or inside  *)
(* a callback (cb # NoHandle); there, and only there, it calls the API.    *)
(* The list that a phase of uv_run took over with QUEUE_MOVE, or the list  *)
(* of handles to close, is queue.  timer_heap holds the active timers in   *)
(* the order in which heap_min returns them (TimerQueue).                  *)
(*                                                                         *)
(* A request is one of the thread pool (threadpool.c), or one whose        *)
(* outcome is known when it is made, so that its watcher is fed to the     *)
(* loop (tcp.c:198, pipe.c:210, udp.c:324).                                *)
(***************************************************************************)
EXTENDS Integers, FiniteSets, TimerQueue

CONSTANTS Timers, Idles, Asyncs,  \* the handles of the program
          WqAsync,                \* loop->wq_async, a member of Asyncs
          Reqs,                   \* the requests of the program
          NullCb,                 \* handles and requests that were given no callback
          Threads,                \* the threads that call uv_async_send
          NoHandle,
          Timeouts, Repeats,      \* arguments of uv_timer_start
          UintMax, IntMax,        \* (uint64_t) -1 and INT_MAX
          Modes,                  \* modes the program runs the loop in
          CloseEarly,             \* uv_loop_close is also called too early
          MaxClock, MaxCalls, MaxSends, MaxSignals   \* bounds

Handles == Timers \cup Idles \cup Asyncs

ASSUME HandlesAssumption ==
    /\ IsFiniteSet(Handles)
    /\ Timers \cap (Idles \cup Asyncs) = {} /\ Idles \cap Asyncs = {}
    /\ WqAsync \in Asyncs /\ NoHandle \notin Handles
    /\ Reqs \cap Handles = {} /\ NoHandle \notin Reqs
    /\ NullCb \subseteq Handles \cup Reqs

ASSUME BoundsAssumption ==
    /\ UintMax \in Nat /\ IntMax \in Nat /\ MaxClock \in Nat
    /\ MaxClock <= IntMax /\ IntMax < UintMax
    /\ Timeouts \subseteq 0..UintMax /\ Repeats \subseteq 0..UintMax
    /\ Modes \subseteq {"default", "once", "nowait"}
    /\ CloseEarly \in BOOLEAN
    /\ MaxCalls \in Nat /\ MaxSends \in Nat /\ MaxSignals \in Nat

VARIABLES
    hs,               \* flags of the handles and loop->active_handles
    handle_queue,     \* the handles linked in loop->handle_queue
    closing_handles,  \* loop->closing_handles, the last closed first
    timer_heap, timeout, repeat,
    timer_cb,         \* the timers whose timer_cb is not NULL
    wanted,           \* history: when the timer should fire, unclamped
    idle_handles, async_handles,
    pending,          \* handle->pending of the async handles
    async_fd,         \* async_watcher's eventfd: "closed", "empty", "readable"
    sending,          \* the handle a thread has marked but not written for
    reqs,             \* active_reqs, wq and pending_queue of the loop, and the walk of them
    time,             \* loop->time
    stop_flag, mode, pc, queue, cb,
    poll,             \* locals of uv__io_poll, and how long epoll_wait still waits
    clock,            \* uv__hrtime, in milliseconds
    calls, sends, signals,  \* what the bounds count
    called            \* history: callbacks made by this uv_run

handleVars == <<hs, handle_queue, closing_handles>>
timerVars == <<timer_heap, timeout, repeat, timer_cb, wanted>>
asyncVars == <<async_handles, pending, async_fd, sending>>
runVars == <<stop_flag, mode, pc, queue, cb, poll, called>>
envVars == <<clock, sends, signals>>
vars == <<handleVars, timerVars, idle_handles, asyncVars, time, runVars,
          reqs, envVars, calls>>

\* taken is the list that uv__run_pending or uv__work_done took over, work_done is
\* that uv__work_done has been called and waits for wq_mutex.
NoReqs == [active_reqs |-> {}, wq |-> <<>>, pending_queue |-> <<>>, taken |-> <<>>,
           work_done |-> FALSE, ran_pending |-> FALSE]

NoPoll == [timeout |-> 0, real |-> 0, base |-> 0, wait |-> 0]

Init ==
    /\ hs = [flags |-> [h \in Handles |-> IF h = WqAsync
                                          THEN {"active", "internal"} ELSE {}],
             active_handles |-> 0]
    /\ handle_queue = {WqAsync} /\ closing_handles = <<>>
    /\ timer_heap = <<>>
    /\ timeout = [t \in Timers |-> 0] /\ repeat = [t \in Timers |-> 0]
    /\ timer_cb = {} /\ wanted = [t \in Timers |-> 0]
    /\ idle_handles = <<>>
    /\ async_handles = <<WqAsync>>
    /\ pending = [h \in Asyncs |-> 0]
    /\ async_fd = "empty"
    /\ sending = [s \in Threads |-> NoHandle]
    /\ reqs = NoReqs
    /\ clock = 0 /\ time = 0
    /\ stop_flag = FALSE /\ mode = "default" /\ pc = "user" /\ queue = <<>>
    /\ cb = NoHandle /\ poll = NoPoll /\ called = 0
    /\ calls = 0 /\ sends = 0 /\ signals = 0

-----------------------------------------------------------------------------
(***************************************************************************)
(* The handle macros of src/uv-common.h.  The state they work on is a      *)
(* record: the flags of every handle and loop->active_handles, the number  *)
(* of handles that keep the loop alive.  Each macro is a function from one *)
(* such state to the next, so that an API call that runs several of them   *)
(* is their composition.                                                   *)
(*                                                                         *)
(* UV__HANDLE_CLOSING is 0 on unix: the macros never look at whether the   *)
(* handle is closing.  active_handles is an unsigned int; it is an integer *)
(* here, so that an unmatched decrement shows as a negative number.        *)
(***************************************************************************)
Flags == {"internal", "active", "ref", "closing", "closed"}

IsActive(x, h) == "active" \in x.flags[h]
IsClosing(x, h) == {"closing", "closed"} \cap x.flags[h] # {}
HasRef(x, h) == "ref" \in x.flags[h]

HandleInit(x, h) == [x EXCEPT !.flags[h] = {"ref"}]

HandleStart(x, h) ==
    IF IsActive(x, h) THEN x
    ELSE [x EXCEPT !.flags[h] = @ \cup {"active"},
                   !.active_handles = IF HasRef(x, h) THEN @ + 1 ELSE @]

\* Mutant of HandleStop: the count goes down even if the handle is inactive.
HandleStopTwice(x, h) ==
    [x EXCEPT !.flags[h] = @ \ {"active"},
              !.active_handles = IF HasRef(x, h) THEN @ - 1 ELSE @]

HandleStop(x, h) ==
    IF ~IsActive(x, h) THEN x
    ELSE [x EXCEPT !.flags[h] = @ \ {"active"},
                   !.active_handles = IF HasRef(x, h) THEN @ - 1 ELSE @]

HandleRef(x, h) ==
    IF HasRef(x, h) THEN x
    ELSE [x EXCEPT !.flags[h] = @ \cup {"ref"},
                   !.active_handles = IF IsActive(x, h) THEN @ + 1 ELSE @]

\* Mutant of HandleUnref: an active handle stays counted.
HandleUnrefUncounted(x, h) == [x EXCEPT !.flags[h] = @ \ {"ref"}]

HandleUnref(x, h) ==
    IF ~HasRef(x, h) THEN x
    ELSE [x EXCEPT !.flags[h] = @ \ {"ref"},
                   !.active_handles = IF IsActive(x, h) THEN @ - 1 ELSE @]

SetFlag(x, h, f) == [x EXCEPT !.flags[h] = @ \cup {f}]

Counted(x, H) == {h \in H : IsActive(x, h) /\ HasRef(x, h)}

-----------------------------------------------------------------------------
Remove(q, h) == QueueRemove(q, h)
Member(q, h) == \E i \in DOMAIN q : q[i] = h

Open(h) == h \in handle_queue /\ ~IsClosing(hs, h)
UserRuns == pc # "aborted" /\ (pc = "user" \/ cb # NoHandle)

\* An API call made by the loop thread.
Call == UserRuns /\ calls < MaxCalls /\ calls' = calls + 1

\* Mutant of Alive: requests do not keep the loop alive.
AliveIgnoresRequests == hs.active_handles > 0 \/ closing_handles # <<>>

\* uv__loop_alive
Alive == hs.active_handles > 0 \/ reqs.active_reqs # {} \/ closing_handles # <<>>

-----------------------------------------------------------------------------
(***************************************************************************)
(* Timers.  StartTimer and StopTimer are functions of the timer state, a   *)
(* record, because uv_timer_again and uv__run_timers compose them.         *)
(***************************************************************************)
TimerState == [hs |-> hs, heap |-> timer_heap, timeout |-> timeout,
               repeat |-> repeat, wanted |-> wanted]
SetTimers(ts) ==
    /\ hs' = ts.hs /\ timer_heap' = ts.heap
    /\ timeout' = ts.timeout /\ repeat' = ts.repeat /\ wanted' = ts.wanted

\* Mutant of StopTimer: the timer stays in the heap.
StopTimerLeavesNode(ts, t) == [ts EXCEPT !.hs = HandleStop(@, t)]

StopTimer(ts, t) ==
    IF ~IsActive(ts.hs, t) THEN ts
    ELSE [ts EXCEPT !.heap = QueueRemove(@, t), !.hs = HandleStop(@, t)]

\* Mutant of ClampedTimeout: the sum wraps around.
WrappedTimeout(d) == (time + d) % (UintMax + 1)

ClampedTimeout(d) ==
    LET sum == (time + d) % (UintMax + 1)
    IN  IF sum < d THEN UintMax ELSE sum

StartTimer(ts0, t, d, rep) ==
    LET ts == StopTimer(ts0, t)
        due == [ts.timeout EXCEPT ![t] = ClampedTimeout(d)]
    IN  [hs |-> HandleStart(ts.hs, t), heap |-> QueueInsert(ts.heap, due, t),
         timeout |-> due, repeat |-> [ts.repeat EXCEPT ![t] = rep],
         wanted |-> [ts.wanted EXCEPT ![t] = time + d]]

AgainTimer(ts, t) ==
    IF ts.repeat[t] = 0 THEN ts
    ELSE StartTimer(StopTimer(ts, t), t, ts.repeat[t], ts.repeat[t])

TimerStart(t) ==
    /\ Call /\ Open(t)
    /\ \E d \in Timeouts, rep \in Repeats :
           SetTimers(StartTimer(TimerState, t, d, rep))
    /\ timer_cb' = timer_cb \cup {t}
    /\ UNCHANGED <<handle_queue, closing_handles, idle_handles, asyncVars,
                   time, runVars, reqs, envVars>>

TimerStop(t) ==
    /\ Call /\ Open(t) /\ IsActive(hs, t)
    /\ SetTimers(StopTimer(TimerState, t))
    /\ UNCHANGED <<timer_cb, handle_queue, closing_handles, idle_handles, asyncVars,
                   time, runVars, reqs, envVars>>

TimerAgain(t) ==
    /\ Call /\ Open(t) /\ t \in timer_cb /\ repeat[t] # 0
    /\ SetTimers(AgainTimer(TimerState, t))
    /\ UNCHANGED <<timer_cb, handle_queue, closing_handles, idle_handles, asyncVars,
                   time, runVars, reqs, envVars>>

TimerSetRepeat(t) ==
    /\ Call /\ Open(t)
    /\ \E rep \in Repeats : repeat' = [repeat EXCEPT ![t] = rep]
    /\ UNCHANGED <<handleVars, timer_heap, timeout, timer_cb, wanted, idle_handles,
                   asyncVars, time, runVars, reqs, envVars>>

\* uv__next_timeout; -1 blocks indefinitely.
NextTimeout ==
    IF timer_heap = <<>> THEN -1
    ELSE IF timeout[Head(timer_heap)] <= time THEN 0
    ELSE IF timeout[Head(timer_heap)] - time > IntMax THEN IntMax
    ELSE timeout[Head(timer_heap)] - time

-----------------------------------------------------------------------------
(***************************************************************************)
(* Opening, referencing and closing handles.                               *)
(***************************************************************************)
NotOpen(h) == h \notin handle_queue

TimerInit(t) ==
    /\ Call /\ NotOpen(t)
    /\ hs' = HandleInit(hs, t) /\ handle_queue' = handle_queue \cup {t}
    /\ repeat' = [repeat EXCEPT ![t] = 0] /\ timer_cb' = timer_cb \ {t}
    /\ UNCHANGED <<closing_handles, timer_heap, timeout, wanted, idle_handles,
                   asyncVars, time, runVars, reqs, envVars>>

\* tuv_timer_deinit, for a timer that does not run.
TimerDeinit(t) ==
    /\ Call /\ Open(t) /\ ~IsActive(hs, t)
    /\ handle_queue' = handle_queue \ {t}
    /\ UNCHANGED <<hs, closing_handles, timerVars, idle_handles, asyncVars, time,
                   runVars, reqs, envVars>>

IdleInit(h) ==
    /\ Call /\ NotOpen(h)
    /\ hs' = HandleInit(hs, h) /\ handle_queue' = handle_queue \cup {h}
    /\ UNCHANGED <<closing_handles, timerVars, idle_handles, asyncVars, time,
                   runVars, reqs, envVars>>

\* uv_async_init; uv__async_start opens the watcher again if it was stopped.
AsyncInit(h) ==
    /\ Call /\ NotOpen(h) /\ h # WqAsync
    /\ \A s \in Threads : sending[s] # h
    /\ async_fd' = IF async_fd = "closed" THEN "empty" ELSE async_fd
    /\ hs' = HandleStart(HandleInit(hs, h), h)
    /\ handle_queue' = handle_queue \cup {h}
    /\ pending' = [pending EXCEPT ![h] = 0]
    /\ async_handles' = Append(async_handles, h)
    /\ UNCHANGED <<closing_handles, timerVars, idle_handles, sending, time,
                   runVars, reqs, envVars>>

IdleStart(h) ==
    /\ Call /\ Open(h) /\ ~IsActive(hs, h)
    /\ idle_handles' = <<h>> \o idle_handles
    /\ hs' = HandleStart(hs, h)
    /\ UNCHANGED <<handle_queue, closing_handles, timerVars, asyncVars, time,
                   runVars, reqs, envVars>>

\* QUEUE_REMOVE unlinks the node from whichever list it is in.
IdleStop(h) ==
    /\ Call /\ Open(h) /\ IsActive(hs, h)
    /\ idle_handles' = Remove(idle_handles, h) /\ queue' = Remove(queue, h)
    /\ hs' = HandleStop(hs, h)
    /\ UNCHANGED <<handle_queue, closing_handles, timerVars, asyncVars, time,
                   stop_flag, mode, pc, cb, poll, called, reqs, envVars>>

Ref(h) ==
    /\ Call /\ Open(h) /\ ~HasRef(hs, h)
    /\ hs' = HandleRef(hs, h)
    /\ UNCHANGED <<handle_queue, closing_handles, timerVars, idle_handles,
                   asyncVars, time, runVars, reqs, envVars>>

Unref(h) ==
    /\ Call /\ Open(h) /\ HasRef(hs, h)
    /\ hs' = HandleUnref(hs, h)
    /\ UNCHANGED <<handle_queue, closing_handles, timerVars, idle_handles,
                   asyncVars, time, runVars, reqs, envVars>>

\* uv__make_close_pending
MakeClosePending(h) == closing_handles' = <<h>> \o closing_handles

\* uv_close, by the type of the handle.
CloseTimer(t) ==
    /\ Call /\ Open(t)
    /\ SetTimers(StopTimer([TimerState EXCEPT !.hs = SetFlag(@, t, "closing")], t))
    /\ MakeClosePending(t)
    /\ UNCHANGED <<handle_queue, timer_cb, idle_handles, asyncVars, time,
                   runVars, reqs, envVars>>

CloseIdle(h) ==
    /\ Call /\ Open(h)
    /\ hs' = HandleStop(SetFlag(hs, h, "closing"), h)
    /\ idle_handles' = Remove(idle_handles, h) /\ queue' = Remove(queue, h)
    /\ MakeClosePending(h)
    /\ UNCHANGED <<handle_queue, timerVars, asyncVars, time, stop_flag, mode, pc,
                   cb, poll, called, reqs, envVars>>

\* Mutant of CloseAsync: the handle stays in the list that is being walked.
CloseAsyncLeavesNode(h) ==
    /\ Call /\ Open(h) /\ h # WqAsync
    /\ hs' = HandleStop(SetFlag(hs, h, "closing"), h)
    /\ async_handles' = Remove(async_handles, h)
    /\ MakeClosePending(h)
    /\ UNCHANGED <<handle_queue, timerVars, idle_handles, pending, async_fd,
                   sending, time, runVars, reqs, envVars>>

CloseAsync(h) ==
    /\ Call /\ Open(h) /\ h # WqAsync
    /\ hs' = HandleStop(SetFlag(hs, h, "closing"), h)
    /\ async_handles' = Remove(async_handles, h) /\ queue' = Remove(queue, h)
    /\ MakeClosePending(h)
    /\ UNCHANGED <<handle_queue, timerVars, idle_handles, pending, async_fd,
                   sending, time, stop_flag, mode, pc, cb, poll, called, reqs, envVars>>

Stop ==
    /\ Call /\ ~stop_flag
    /\ stop_flag' = TRUE
    /\ UNCHANGED <<handleVars, timerVars, idle_handles, asyncVars, time, mode, pc,
                   queue, cb, poll, called, reqs, envVars>>

UpdateTime ==
    /\ Call /\ time # clock
    /\ time' = clock
    /\ UNCHANGED <<handleVars, timerVars, idle_handles, asyncVars, runVars,
                   reqs, envVars>>

CallbackReturns ==
    /\ pc # "aborted" /\ cb # NoHandle
    /\ cb' = NoHandle
    /\ UNCHANGED <<handleVars, timerVars, idle_handles, asyncVars, time,
                   stop_flag, mode, pc, queue, poll, called, reqs, envVars, calls>>

-----------------------------------------------------------------------------
(***************************************************************************)
(* Requests.                                                               *)
(***************************************************************************)

\* uv_queue_work; a thread of the pool will do the work.
QueueWork(r) ==
    /\ Call /\ r \notin reqs.active_reqs
    /\ reqs' = [reqs EXCEPT !.active_reqs = @ \cup {r}]
    /\ UNCHANGED <<handleVars, timerVars, idle_handles, asyncVars, time, runVars,
                   envVars>>

\* uv__req_init and uv__io_feed: the outcome is told when uv_run comes to it.
FeedRequest(r) ==
    /\ Call /\ r \notin reqs.active_reqs
    /\ reqs' = [reqs EXCEPT !.active_reqs = @ \cup {r},
                            !.pending_queue = Append(@, r)]
    /\ UNCHANGED <<handleVars, timerVars, idle_handles, asyncVars, time, runVars,
                   envVars>>

-----------------------------------------------------------------------------
(***************************************************************************)
(* uv_run.  Between two callbacks the loop thread is at the head of one of *)
(* the loops of uv_run; At(label) is that it is there, outside a callback.*)
(***************************************************************************)
At(label) == pc = label /\ cb = NoHandle

MakeCallback(h) == cb' = h /\ called' = 1

\* The while condition of uv_run fails at once.
RunNothing ==
    /\ pc = "user" /\ (~Alive \/ stop_flag)
    /\ time' = IF Alive THEN time ELSE clock
    /\ stop_flag' = FALSE
    /\ <<time', stop_flag'>> # <<time, stop_flag>>
    /\ UNCHANGED <<handleVars, timerVars, idle_handles, asyncVars, mode, pc,
                   queue, cb, poll, called, reqs, envVars, calls>>

RunBegin ==
    /\ pc = "user" /\ Alive /\ ~stop_flag
    /\ mode' \in Modes
    /\ time' = clock /\ pc' = "timers" /\ called' = 0
    /\ UNCHANGED <<handleVars, timerVars, idle_handles, asyncVars, stop_flag,
                   queue, cb, poll, reqs, envVars, calls>>

TimerDue == timer_heap # <<>> /\ timeout[Head(timer_heap)] <= time

\* uv__run_timers, before and after polling
FireTimer ==
    /\ At("timers") \/ At("timers_once")
    /\ TimerDue
    /\ LET t == Head(timer_heap) IN
           /\ SetTimers(AgainTimer(StopTimer(TimerState, t), t))
           /\ MakeCallback(t)
    /\ UNCHANGED <<handle_queue, closing_handles, timer_cb, idle_handles,
                   asyncVars, time, stop_flag, mode, pc, queue, poll, reqs, envVars, calls>>

\* uv__run_pending takes over the list.
TimersDone ==
    /\ At("timers") /\ ~TimerDue
    /\ reqs' = [reqs EXCEPT !.taken = reqs.pending_queue, !.pending_queue = <<>>,
                            !.ran_pending = reqs.pending_queue # <<>>]
    /\ pc' = "pending"
    /\ UNCHANGED <<handleVars, timerVars, idle_handles, asyncVars, time, stop_flag,
                   mode, queue, cb, poll, called, envVars, calls>>

\* One round of the loop of uv__run_pending or of uv__work_done: the request is
\* unregistered, then its callback is made.
RequestDone ==
    /\ At("pending") \/ At("async")
    /\ reqs.taken # <<>>
    /\ LET r == Head(reqs.taken) IN
           /\ reqs' = [reqs EXCEPT !.taken = Tail(@), !.active_reqs = @ \ {r}]
           /\ IF r \notin NullCb THEN MakeCallback(r) ELSE UNCHANGED <<cb, called>>
    /\ UNCHANGED <<handleVars, timerVars, idle_handles, asyncVars, time, stop_flag,
                   mode, pc, queue, poll, envVars, calls>>

\* uv__run_idle takes over the list.
PendingDone ==
    /\ At("pending") /\ reqs.taken = <<>>
    /\ queue' = idle_handles /\ idle_handles' = <<>> /\ pc' = "idle"
    /\ UNCHANGED <<handleVars, timerVars, asyncVars, time, stop_flag, mode, cb,
                   poll, called, reqs, envVars, calls>>

RunIdle ==
    /\ At("idle") /\ queue # <<>>
    /\ queue' = Tail(queue) /\ idle_handles' = Append(idle_handles, Head(queue))
    /\ MakeCallback(Head(queue))
    /\ UNCHANGED <<handleVars, timerVars, asyncVars, time, stop_flag, mode, pc,
                   poll, reqs, envVars, calls>>

\* Mutant of BackendTimeout: the poll blocks although a handle is closing.
BackendTimeoutIgnoresClosing ==
    IF \/ stop_flag \/ (hs.active_handles = 0 /\ reqs.active_reqs = {})
       \/ idle_handles # <<>> \/ reqs.pending_queue # <<>>
    THEN 0 ELSE NextTimeout

\* uv_backend_timeout
BackendTimeout ==
    IF \/ stop_flag \/ (hs.active_handles = 0 /\ reqs.active_reqs = {})
       \/ idle_handles # <<>> \/ reqs.pending_queue # <<>> \/ closing_handles # <<>>
    THEN 0 ELSE NextTimeout

\* uv_run enters uv__io_poll, which waits in epoll_wait.
IdleDone ==
    /\ At("idle") /\ queue = <<>>
    /\ LET d == IF mode = "nowait" \/ (mode = "once" /\ reqs.ran_pending)
                THEN 0 ELSE BackendTimeout
       IN  poll' = [timeout |-> d, real |-> d, base |-> time,
                    wait |-> IF d = -1 THEN 0 ELSE d]
    /\ pc' = "poll"
    /\ UNCHANGED <<handleVars, timerVars, idle_handles, asyncVars, time,
                   stop_flag, mode, queue, cb, called, reqs, envVars, calls>>

\* uv__io_poll returns and uv__run_closing_handles takes over the list.
PollReturn ==
    /\ pc' = "closing" /\ queue' = closing_handles /\ closing_handles' = <<>>
    /\ poll' = NoPoll

\* The label update_timeout of uv__io_poll.
UpdateTimeout ==
    LET left == poll.real - (clock - poll.base)
    IN  IF left <= 0 THEN PollReturn
        ELSE /\ poll' = [poll EXCEPT !.timeout = left, !.real = left,
                                     !.wait = left]
             /\ UNCHANGED <<pc, queue, closing_handles>>

\* loop->nfds == 0: the async watcher was the only one.
PollNothing ==
    /\ At("poll") /\ async_fd = "closed"
    /\ PollReturn
    /\ UNCHANGED <<hs, handle_queue, timerVars, idle_handles, asyncVars, time,
                   stop_flag, mode, cb, called, reqs, envVars, calls>>

PollTimesOut ==
    /\ At("poll") /\ async_fd = "empty"
    /\ poll.timeout # -1 /\ poll.wait = 0
    /\ time' = clock
    /\ IF poll.timeout = 0 THEN PollReturn ELSE UpdateTimeout
    /\ UNCHANGED <<hs, handle_queue, timerVars, idle_handles, asyncVars,
                   stop_flag, mode, cb, called, reqs, envVars, calls>>

\* epoll_wait fails with EINTR while it blocks.
PollInterrupted ==
    /\ At("poll") /\ async_fd = "empty" /\ poll.timeout # 0
    /\ signals < MaxSignals /\ signals' = signals + 1
    /\ time' = clock
    /\ IF poll.timeout = -1 THEN UNCHANGED <<poll, pc, queue, closing_handles>>
                            ELSE UpdateTimeout
    /\ UNCHANGED <<hs, handle_queue, timerVars, idle_handles, asyncVars,
                   stop_flag, mode, cb, called, reqs, clock, sends, calls>>

\* uv__async_io empties the eventfd, uv__async_event takes over the list.
AsyncIo ==
    /\ At("poll") /\ async_fd = "readable"
    /\ time' = clock
    /\ async_fd' = "empty" /\ poll' = NoPoll
    /\ queue' = async_handles /\ async_handles' = <<>> /\ pc' = "async"
    /\ UNCHANGED <<handleVars, timerVars, idle_handles, pending, sending,
                   stop_flag, mode, cb, called, reqs, envVars, calls>>

WqMutexFree == \A s \in Threads : sending[s] # WqAsync

\* uv__work_done takes over the finished requests.
WorkDone ==
    /\ At("async") /\ reqs.work_done /\ WqMutexFree
    /\ reqs' = [reqs EXCEPT !.taken = reqs.wq, !.wq = <<>>, !.work_done = FALSE]
    /\ UNCHANGED <<handleVars, timerVars, idle_handles, asyncVars, time, runVars,
                   envVars, calls>>

\* uv__async_event visits a handle only when the callback before has returned.
WorkTold == ~reqs.work_done /\ reqs.taken = <<>>

\* One round of the while loop of uv__async_event; the callback of wq_async is
\* uv__work_done.
AsyncNext ==
    /\ At("async") /\ WorkTold /\ queue # <<>>
    /\ queue' = Tail(queue) /\ async_handles' = Append(async_handles, Head(queue))
    /\ pending' = [pending EXCEPT ![Head(queue)] = 0]
    /\ IF pending[Head(queue)] = 1 /\ Head(queue) \notin NullCb \cup {WqAsync}
       THEN MakeCallback(Head(queue)) ELSE UNCHANGED <<cb, called>>
    /\ reqs' = [reqs EXCEPT !.work_done = pending[Head(queue)] = 1 /\ Head(queue) = WqAsync]
    /\ UNCHANGED <<handleVars, timerVars, idle_handles, async_fd, sending, time,
                   stop_flag, mode, pc, poll, envVars, calls>>

\* Mutant of AsyncDone: the eventfd is emptied after the handles were visited.
AsyncDoneDrains ==
    /\ At("async") /\ WorkTold /\ queue = <<>>
    /\ PollReturn /\ async_fd' = "empty"
    /\ UNCHANGED <<hs, handle_queue, timerVars, idle_handles, async_handles,
                   pending, sending, time, stop_flag, mode, cb, called, reqs, envVars, calls>>

AsyncDone ==
    /\ At("async") /\ WorkTold /\ queue = <<>>
    /\ PollReturn
    /\ UNCHANGED <<hs, handle_queue, timerVars, idle_handles, asyncVars, time,
                   stop_flag, mode, cb, called, reqs, envVars, calls>>

\* uv__finish_close
FinishClose ==
    /\ At("closing") /\ queue # <<>>
    /\ LET h == Head(queue) IN
           /\ hs' = HandleUnref(SetFlag(hs, h, "closed"), h)
           /\ handle_queue' = handle_queue \ {h}
           /\ IF h \notin NullCb THEN MakeCallback(h) ELSE UNCHANGED <<cb, called>>
    /\ queue' = Tail(queue)
    /\ UNCHANGED <<closing_handles, timerVars, idle_handles, asyncVars, time,
                   stop_flag, mode, pc, poll, reqs, envVars, calls>>

\* Mutant of RunAgain: handles that wait for their close callback are ignored.
RunAgainIgnoresClosing ==
    IF mode = "default" /\ hs.active_handles > 0 /\ ~stop_flag
    THEN time' = clock /\ pc' = "timers" /\ UNCHANGED stop_flag
    ELSE pc' = "user" /\ stop_flag' = FALSE /\ UNCHANGED time

\* The end of the while body: go round again or return from uv_run.
RunAgain ==
    IF mode = "default" /\ Alive /\ ~stop_flag
    THEN time' = clock /\ pc' = "timers" /\ UNCHANGED stop_flag
    ELSE pc' = "user" /\ stop_flag' = FALSE /\ UNCHANGED time

CloseDone ==
    /\ At("closing") /\ queue = <<>>
    /\ IF mode = "once" THEN time' = clock /\ pc' = "timers_once" /\ UNCHANGED stop_flag
                        ELSE RunAgain
    /\ UNCHANGED <<handleVars, timerVars, idle_handles, asyncVars, mode, queue,
                   cb, poll, called, reqs, envVars, calls>>

OnceDone ==
    /\ At("timers_once") /\ ~TimerDue
    /\ RunAgain
    /\ UNCHANGED <<handleVars, timerVars, idle_handles, asyncVars, mode, queue,
                   cb, poll, called, reqs, envVars, calls>>

(***************************************************************************)
(* uv_loop_close, which does nothing while a request is active.            *)
(* tuv_async_deinit comes before the test for open handles.  The program   *)
(* has joined its threads.                                                 *)
(***************************************************************************)
LoopClose ==
    /\ pc = "user" /\ Call /\ reqs.active_reqs = {}
    /\ CloseEarly \/ handle_queue \subseteq {WqAsync}
    /\ \A s \in Threads : sending[s] = NoHandle
    /\ async_fd' = "closed"
    /\ hs' = HandleStop(hs, WqAsync)
    /\ async_handles' = Remove(async_handles, WqAsync)
    /\ handle_queue' = handle_queue \ {WqAsync}
    /\ pc' = IF handle_queue' = {} THEN "closed" ELSE pc
    /\ UNCHANGED <<closing_handles, timerVars, idle_handles, pending, sending,
                   time, stop_flag, mode, queue, cb, poll, called, reqs, envVars>>

-----------------------------------------------------------------------------
(***************************************************************************)
(* The other threads: uv_async_send, and the clock.                        *)
(***************************************************************************)

\* uv_async_send up to the cmpxchg; a send that finds pending set does nothing.
Send(s, h) ==
    /\ pc \notin {"closed", "aborted"}
    /\ sends < MaxSends /\ sending[s] = NoHandle
    /\ h \in handle_queue \ {WqAsync} /\ pending[h] = 0
    /\ pending' = [pending EXCEPT ![h] = 1]
    /\ sending' = [sending EXCEPT ![s] = h]
    /\ sends' = sends + 1
    /\ UNCHANGED <<handleVars, timerVars, idle_handles, async_handles, async_fd,
                   time, runVars, reqs, clock, signals, calls>>

\* A thread of the pool has done the work of a request that is in no list: worker
\* puts it into wq and calls uv_async_send with wq_mutex held.
AtWork(r) ==
    /\ r \in reqs.active_reqs
    /\ \A q \in {reqs.wq, reqs.pending_queue, reqs.taken} : ~Member(q, r)

WorkerDone(s, r) ==
    /\ pc \notin {"closed", "aborted"}
    /\ AtWork(r) /\ sending[s] = NoHandle /\ WqMutexFree
    /\ reqs' = [reqs EXCEPT !.wq = Append(@, r)]
    /\ IF pending[WqAsync] = 0
       THEN /\ pending' = [pending EXCEPT ![WqAsync] = 1]
            /\ sending' = [sending EXCEPT ![s] = WqAsync]
       ELSE UNCHANGED <<pending, sending>>
    /\ UNCHANGED <<handleVars, timerVars, idle_handles, async_handles, async_fd,
                   time, runVars, envVars, calls>>

\* uv__async_send: write() to a closed descriptor fails and aborts.
SendWrite(s) ==
    /\ pc # "aborted" /\ sending[s] # NoHandle
    /\ sending' = [sending EXCEPT ![s] = NoHandle]
    /\ IF async_fd = "closed" THEN pc' = "aborted" /\ UNCHANGED async_fd
                              ELSE async_fd' = "readable" /\ UNCHANGED pc
    /\ UNCHANGED <<handleVars, timerVars, idle_handles, async_handles, pending,
                   time, stop_flag, mode, queue, cb, poll, called, reqs, envVars, calls>>

\* A millisecond passes, also for a thread that waits in epoll_wait.  The clock
\* stands still at its bound.
Tick ==
    /\ pc \notin {"closed", "aborted"}
    /\ clock < MaxClock \/ poll.wait > 0
    /\ clock' = IF clock < MaxClock THEN clock + 1 ELSE clock
    /\ poll' = IF poll.wait > 0 THEN [poll EXCEPT !.wait = @ - 1] ELSE poll
    /\ UNCHANGED <<handleVars, timerVars, idle_handles, asyncVars, time, stop_flag,
                   mode, pc, queue, cb, called, reqs, sends, signals, calls>>

UserCall ==
    \/ \E t \in Timers : \/ TimerInit(t) \/ TimerDeinit(t) \/ TimerStart(t) \/ TimerStop(t)
                         \/ TimerAgain(t) \/ TimerSetRepeat(t) \/ CloseTimer(t)
    \/ \E h \in Idles : IdleInit(h) \/ IdleStart(h) \/ IdleStop(h) \/ CloseIdle(h)
    \/ \E h \in Asyncs : AsyncInit(h) \/ CloseAsync(h)
    \/ \E h \in Handles \ {WqAsync} : Ref(h) \/ Unref(h)
    \/ \E r \in Reqs : QueueWork(r) \/ FeedRequest(r)
    \/ Stop \/ UpdateTime \/ LoopClose

LoopStep ==
    \/ CallbackReturns
    \/ FireTimer \/ TimersDone \/ RequestDone \/ PendingDone \/ RunIdle \/ IdleDone
    \/ PollNothing \/ PollTimesOut \/ AsyncIo \/ AsyncNext \/ WorkDone \/ AsyncDone
    \/ FinishClose \/ CloseDone \/ OnceDone

ThreadStep ==
    \E s \in Threads : \/ SendWrite(s)
                       \/ \E h \in Asyncs : Send(s, h)
                       \/ \E r \in Reqs : WorkerDone(s, r)

Next ==
    \/ UserCall \/ LoopStep \/ RunNothing \/ RunBegin \/ PollInterrupted \/ Tick
    \/ ThreadStep

Spec == Init /\ [][Next]_vars

(***************************************************************************)
(* The loop thread does not stop inside uv_run, callbacks return, the      *)
(* program keeps calling uv_run, a thread inside uv_async_send finishes,   *)
(* the thread pool does its work, and time passes.                         *)
(***************************************************************************)
Worker == \E s \in Threads, r \in Reqs : WorkerDone(s, r)

Fairness ==
    /\ WF_vars(LoopStep) /\ WF_vars(RunBegin \/ RunNothing) /\ WF_vars(Tick)
    /\ WF_vars(Worker) /\ \A s \in Threads : WF_vars(SendWrite(s))

FairSpec == Spec /\ Fairness

-----------------------------------------------------------------------------
Pcs == {"user", "timers", "pending", "idle", "poll", "async", "closing", "timers_once",
        "closed", "aborted"}

\* The type invariant of the loop's state.
TypeOK ==
    /\ hs \in [flags : [Handles -> SUBSET Flags], active_handles : Nat]
    /\ handle_queue \subseteq Handles /\ closing_handles \in Seq(Handles)
    /\ timer_heap \in Seq(Timers)
    /\ timeout \in [Timers -> 0..UintMax] /\ repeat \in [Timers -> 0..UintMax]
    /\ timer_cb \subseteq Timers /\ wanted \in [Timers -> Nat]
    /\ idle_handles \in Seq(Idles) /\ async_handles \in Seq(Asyncs)
    /\ pending \in [Asyncs -> {0, 1}]
    /\ async_fd \in {"closed", "empty", "readable"}
    /\ sending \in [Threads -> Asyncs \cup {NoHandle}]
    /\ reqs \in [active_reqs : SUBSET Reqs, wq : Seq(Reqs), pending_queue : Seq(Reqs),
                taken : Seq(Reqs), work_done : BOOLEAN, ran_pending : BOOLEAN]
    /\ clock \in 0..MaxClock /\ time \in 0..clock
    /\ stop_flag \in BOOLEAN /\ mode \in {"default", "once", "nowait"}
    /\ pc \in Pcs /\ queue \in Seq(Handles) /\ cb \in Handles \cup Reqs \cup {NoHandle}
    /\ poll \in [timeout : Int, real : Int, base : Nat, wait : Nat]
    /\ called \in {0, 1}
    /\ calls \in 0..MaxCalls /\ sends \in 0..MaxSends /\ signals \in 0..MaxSignals

\* active_handles counts exactly the handles that are active and referenced,
\* through every order of start, stop, ref, unref, close and their callbacks.
ActiveCountExact == hs.active_handles = Cardinality(Counted(hs, Handles))

Times(q, h) == Cardinality({i \in DOMAIN q : q[i] = h})

\* A handle is active exactly while it is linked, once, in the list of its
\* type or in the part of it that uv__run_idle or uv__async_event took over.
ActiveMeansLinked ==
    \A h \in Handles :
        Times(timer_heap, h) + Times(idle_handles, h) + Times(async_handles, h)
          + (IF pc \in {"idle", "async"} THEN Times(queue, h) ELSE 0)
        = IF IsActive(hs, h) THEN 1 ELSE 0

\* A handle that uv_close was called for waits, once, for its close callback
\* until uv__finish_close has run.
ClosingInOnePlace ==
    \A h \in Handles :
        Times(closing_handles, h) + (IF pc = "closing" THEN Times(queue, h) ELSE 0)
        = IF {"closing", "closed"} \cap hs.flags[h] = {"closing"} THEN 1 ELSE 0

\* The handles that count, are linked and are being closed are the same in every
\* list of the loop, whatever callbacks start, stop and close while uv_run walks the
\* lists, as long as uv__async_send has not aborted the process.
ListsSound == TypeOK /\ (pc # "aborted" => ActiveMeansLinked /\ ClosingInOnePlace)

\* A timer, idle or async callback is only made for a handle that is open, the
\* close callback only once and as the handle's last one, whatever earlier callbacks
\* of the same pass closed or stopped, and the callback of a request once for each
\* time it was made.
CallbacksOnlyWhileOpen ==
    [][cb' \notin {cb, NoHandle} =>
         IF cb' \in Reqs THEN cb' \in reqs.active_reqs
         ELSE
         IF pc = "closing" THEN /\ "closing" \in hs.flags[cb']
                                /\ "closed" \notin hs.flags[cb']
                           ELSE Open(cb')]_vars

\* A send whose callback is outstanding will wake the loop: pending is never
\* left set with the eventfd empty, nobody about to write to it and the
\* handle already passed by uv__async_event.
NoLostSend ==
    \A h \in Asyncs :
        Open(h) /\ pending[h] = 1 =>
            \/ async_fd = "readable"
            \/ \E s \in DOMAIN sending : sending[s] = h
            \/ pc = "async" /\ Member(queue, h)

\* No timer fires before the time it was started for, however large the
\* timeout or repeat it was given.
TimersNeverEarly ==
    [][cb' \in Timers \ {cb} /\ pc # "closing" => wanted[cb'] <= clock]_vars

NothingLeft ==
    /\ reqs.active_reqs = {}
    /\ \A h \in Handles : /\ "closing" \in hs.flags[h] => "closed" \in hs.flags[h]
                          /\ ~(Open(h) /\ IsActive(hs, h) /\ HasRef(hs, h))

\* uv_run(UV_RUN_DEFAULT) returns only after uv_stop or when no request is active, no
\* open handle is active and referenced and every close callback has been made.
RunsUntilDead ==
    [][At("closing") /\ pc' = "user" /\ mode = "default" => stop_flag \/ NothingLeft]_vars

\* uv__async_send never finds the eventfd closed.
NeverAborts == pc # "aborted"

\* A send whose callback is outstanding wakes the loop, and none meets a closed eventfd.
SendsKept == NoLostSend /\ NeverAborts

\* UV_RUN_ONCE: at least one callback has been invoked when uv_run returns.
OnceMakesProgress ==
    [][pc # "user" /\ pc' = "user" /\ mode = "once" => called' = 1]_vars

\* Every request that is made gets its callback.
RequestOwed == reqs.active_reqs # {}

\* Every handle that is closed gets out of the loop.
CloseOwed == \E h \in Handles : "closing" \in hs.flags[h] /\ "closed" \notin hs.flags[h]
CloseFinishes == CloseOwed ~> ~CloseOwed

\* A send to a referenced open handle is delivered.
SendOwed == \E h \in Asyncs : Open(h) /\ HasRef(hs, h) /\ pending[h] = 1
SendsDelivered == SendOwed ~> ~SendOwed

\* A timer that is due is fired, restarted or stopped.
TimerOwed == \E t \in Timers : IsActive(hs, t) /\ HasRef(hs, t) /\ timeout[t] <= clock
=============================================================================
