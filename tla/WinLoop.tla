------------------------------ MODULE WinLoop -------------------------------
(***************************************************************************)
(* The event loop of the Windows port, and the table of all loops.         *)
(***************************************************************************)
EXTENDS Integers, Sequences, FiniteSets

CONSTANTS
    Menus,         \* programs: the handles, the requests for the thread pool, and the
    \* bounds on its calls, on its sends, on the wake-ups of the
    \* system and on the time; and whether GetQueuedCompletionStatusEx exists
    Timers, Asyncs, Watchers,
    WqAsync,       \* wq_async of the loop, one of Asyncs
    Phase,         \* "idle", "prepare" or "check" of a watcher
    Senders,       \* threads that call uv_async_send
    Modes,         \* arguments of uv_run
    Timeouts, Repeats,
    Width,         \* 2^w of the time, which is unsigned
    MaxDelay,   \* UINT_MAX - 1, the longest wait
    Loops,
    Chunk,            \* UV__LOOPS_CHUNK_SIZE
    MaxResumes, MaxInits, MaxFails   \* bounds

VARIABLES
    s,      \* the structures of libtuv
    os,     \* what the system holds
    run,    \* the place of the threads in the code
    hist    \* history, and what the bounds count

vars == <<s, os, run, hist>>

-----------------------------------------------------------------------------
(***************************************************************************)
(* The loop of the Windows port (win/core.c, handle-inl.h, req-inl.h) with *)
(* timers, loop watchers and async handles: packages of a completion port  *)
(* become pending requests, and a handle that is closed goes through an    *)
(* endgame once nothing of it is under way.                                *)
(***************************************************************************)
\* s: the loop and its handles
\* os: the completion port and the clock
\* run: the loop's thread and the threads that send
\* hist: what happened, and what the bounds count

None == "none"
Wake == "wake"
Infinite == -1

Own == s.all \cup {WqAsync}
Init ==
    /\ \E menu \in Menus : LET m == menu.handles IN
         s = [menu |-> menu, all |-> m, active |-> (m \cap Asyncs) \cup {WqAsync}, ref |-> m,
              closing |-> {}, closed |-> {}, reqs |-> {}, wq |-> <<>>,
              count |-> Cardinality(m \cap Asyncs), pending |-> <<>>, endgames |-> <<>>,
              due |-> [t \in m \cap Timers |-> 0], id |-> [t \in m \cap Timers |-> 0],
              repeat |-> [t \in m \cap Timers |-> 0], armed |-> {}, counter |-> 0,
              list |-> [p \in {"idle", "prepare", "check"} |-> <<>>],
              next |-> None, sent |-> {}, stop |-> FALSE, time |-> 0]
    /\ os = [iocp |-> <<>>, now |-> 0, pool |-> {}]
    /\ run = [pc |-> "out", mode |-> None, ran |-> FALSE, timeout |-> 0, deadline |-> 0,
              phase |-> None, work |-> <<>>, done |-> <<>>, cb |-> None, back |-> None,
              half |-> None,
              send |-> [t \in Senders |-> None]]
    /\ hist = [calls |-> 0, sends |-> 0, runs |-> 0, wakes |-> 0, called |-> {}, must |-> {},
               owed |-> {}, ends |-> [h \in s.all |-> 0], cbs |-> FALSE, result |-> None,
               want |-> [t \in s.all \cap Timers |-> 0], kept |-> {}]

-----------------------------------------------------------------------------
\* The macros of uv-common.h and handle-inl.h.
Counted(st, h) == h \in st.ref /\ h \in st.active

HandleStart(st, h) ==
    IF h \in st.active THEN st
    ELSE [st EXCEPT !.active = @ \cup {h}, !.count = @ + IF h \in st.ref THEN 1 ELSE 0]

HandleStop(st, h) ==
    IF h \notin st.active THEN st
    ELSE [st EXCEPT !.active = @ \ {h}, !.count = @ - IF h \in st.ref THEN 1 ELSE 0]

\* Mutant of HandleClosing: a handle that is active but not referenced is not counted.
HandleClosingActive(st, h) ==
    [st EXCEPT !.count = @ + IF h \in st.active THEN 0 ELSE 1,
               !.closing = @ \cup {h}, !.active = @ \ {h}]

\* uv__handle_closing: a closing handle always counts.
HandleClosing(st, h) ==
    [st EXCEPT !.count = @ + IF Counted(st, h) THEN 0 ELSE 1,
               !.closing = @ \cup {h}, !.active = @ \ {h}]

HandleClose(st, h) == [st EXCEPT !.count = @ - 1, !.closed = @ \cup {h}]

InSeq(x, q) == \E i \in DOMAIN q : q[i] = x

\* uv_want_endgame: the list is a stack, and the flag says that the handle is in it.
WantEndgame(st, h) ==
    IF InSeq(h, st.endgames) THEN st ELSE [st EXCEPT !.endgames = <<h>> \o @]

-----------------------------------------------------------------------------
\* Timers: get_clamped_due_time.
Due(time, timeout) ==
    LET sum == (time + timeout) % Width IN IF sum < timeout THEN Width - 1 ELSE sum

TimerStop(st, t) ==
    IF t \in st.active THEN HandleStop([st EXCEPT !.armed = @ \ {t}], t) ELSE st

TimerStart(st, t, timeout, repeat) ==
    HandleStart([TimerStop(st, t) EXCEPT
                   !.due[t] = Due(st.time, timeout), !.repeat[t] = repeat,
                   !.id[t] = st.counter, !.counter = @ + 1, !.armed = @ \cup {t}], t)

TimerAgain(st, t) ==
    IF st.repeat[t] = 0 THEN st ELSE TimerStart(st, t, st.repeat[t], st.repeat[t])

\* uv_timer_compare, the order of the tree
Before(st, t, u) ==
    \/ st.due[t] < st.due[u]
    \/ st.due[t] = st.due[u] /\ st.id[t] < st.id[u]

First(st) == CHOOSE t \in st.armed : \A u \in st.armed \ {t} : Before(st, t, u)

\* uv__next_timeout: the difference of two unsigned numbers, read as a signed one
NextTimeout(st) ==
    IF st.armed = {} THEN Infinite
    ELSE LET delta == (st.due[First(st)] - st.time) % Width
         IN IF 2 * delta >= Width THEN 0
            ELSE IF delta >= MaxDelay THEN MaxDelay ELSE delta

-----------------------------------------------------------------------------
\* Loop watchers.  Mutant of WatcherStop: the pass keeps its next handle.
WatcherStopKeeps(st, w) ==
    IF w \notin st.active THEN st
    ELSE HandleStop([st EXCEPT !.list[Phase[w]] = SelectSeq(@, LAMBDA x : x # w)], w)

After(q, w) ==
    LET i == CHOOSE i \in DOMAIN q : q[i] = w IN IF i = Len(q) THEN None ELSE q[i + 1]

WatcherStop(st, w) ==
    IF w \notin st.active THEN st
    ELSE HandleStop([st EXCEPT
           !.list[Phase[w]] = SelectSeq(@, LAMBDA x : x # w),
           !.next = IF @ = w THEN After(st.list[Phase[w]], w) ELSE @], w)

WatcherStart(st, w) ==
    IF w \in st.active THEN st
    ELSE HandleStart([st EXCEPT !.list[Phase[w]] = <<w>> \o @], w)

-----------------------------------------------------------------------------
\* What the program calls, outside uv_run and in callbacks.
Program == run.pc \in {"out", "cb"} /\ run.half = None

Call ==
    /\ Program /\ hist.calls < s.menu.calls
    /\ hist' = [hist EXCEPT !.calls = @ + 1]
    /\ UNCHANGED <<os, run>>

Open(h) == h \in s.all \ s.closing

StartTimer(t, timeout, repeat) ==
    /\ Open(t) /\ Program /\ hist.calls < s.menu.calls
    /\ s' = TimerStart(s, t, timeout, repeat)
    /\ hist' = [hist EXCEPT !.calls = @ + 1, !.want[t] = s.time + timeout]
    /\ UNCHANGED <<os, run>>

StopTimer(t) == Open(t) /\ t \in s.active /\ Call /\ s' = TimerStop(s, t)

AgainTimer(t) ==
    /\ Open(t) /\ s.repeat[t] # 0 /\ Program /\ hist.calls < s.menu.calls
    /\ s' = TimerAgain(TimerStop(s, t), t)
    /\ hist' = [hist EXCEPT !.calls = @ + 1, !.want[t] = s.time + s.repeat[t]]
    /\ UNCHANGED <<os, run>>

StartWatcher(w) == Open(w) /\ w \notin s.active /\ Call /\ s' = WatcherStart(s, w)

StopWatcher(w) ==
    /\ Open(w) /\ w \in s.active
    /\ Program /\ hist.calls < s.menu.calls
    /\ hist' = [hist EXCEPT !.calls = @ + 1, !.must = @ \ {w}]
    /\ s' = WatcherStop(s, w)
    /\ UNCHANGED <<os, run>>

Unref(h) ==
    /\ h \in s.ref \ s.closing /\ Call
    /\ s' = [s EXCEPT !.ref = @ \ {h}, !.count = @ - IF h \in s.active THEN 1 ELSE 0]

Ref(h) ==
    /\ h \in s.all \ (s.ref \cup s.closing) /\ Call
    /\ s' = [s EXCEPT !.ref = @ \cup {h}, !.count = @ + IF h \in s.active THEN 1 ELSE 0]

StopLoop == ~s.stop /\ Call /\ s' = [s EXCEPT !.stop = TRUE]

\* uv_close of a timer and of a loop watcher
Close(h) ==
    /\ Open(h) /\ h \notin Asyncs
    /\ Program /\ hist.calls < s.menu.calls
    /\ hist' = [hist EXCEPT !.calls = @ + 1, !.must = @ \ {h}]
    /\ s' = WantEndgame(HandleClosing(
              IF h \in Timers THEN TimerStop(s, h) ELSE WatcherStop(s, h), h), h)
    /\ UNCHANGED <<os, run>>

\* uv_async_close tests async_sent and then marks the handle; a thread may send
\* between the two.
CloseAsync(h) ==
    /\ Open(h) /\ h \in Asyncs
    /\ Program /\ hist.calls < s.menu.calls
    /\ hist' = [hist EXCEPT !.calls = @ + 1]
    /\ s' = IF h \in s.sent THEN s ELSE WantEndgame(s, h)
    /\ run' = [run EXCEPT !.half = h]
    /\ UNCHANGED os

CloseAsyncEnds ==
    /\ run.half # None
    /\ s' = HandleClosing(s, run.half)
    /\ run' = [run EXCEPT !.half = None]
    /\ hist' = [hist EXCEPT !.owed = @ \ {run.half}]
    /\ UNCHANGED os

\* uv_queue_work, and every other call that gives a request to the thread pool
QueueWork(r) ==
    /\ r \notin s.reqs /\ Program /\ hist.calls < s.menu.calls
    /\ s' = [s EXCEPT !.reqs = @ \cup {r}]
    /\ os' = [os EXCEPT !.pool = @ \cup {r}]
    /\ hist' = [hist EXCEPT !.calls = @ + 1]
    /\ UNCHANGED run

Calls ==
    \/ \E r \in s.menu.reqs : QueueWork(r)
    \/ \E t \in Own \cap Timers :
         \/ \E timeout \in Timeouts, repeat \in Repeats : StartTimer(t, timeout, repeat)
         \/ StopTimer(t)
         \/ AgainTimer(t)
    \/ \E w \in Own \cap Watchers : StartWatcher(w) \/ StopWatcher(w)
    \/ \E h \in s.all : Unref(h) \/ Ref(h) \/ Close(h) \/ CloseAsync(h)
    \/ StopLoop

-----------------------------------------------------------------------------

\* uv_async_send on another thread: the exchange, and the package for the port.
Posts(h) == h \notin s.sent

Send(t, h) ==
    /\ Open(h) /\ run.send[t] = None /\ hist.sends < s.menu.sends
    /\ s' = [s EXCEPT !.sent = @ \cup {h}]
    /\ run' = [run EXCEPT !.send[t] = IF Posts(h) THEN h ELSE None]
    /\ hist' = [hist EXCEPT !.sends = @ + 1, !.owed = @ \cup {h}]
    /\ UNCHANGED os

Post(t) ==
    /\ run.send[t] # None
    /\ os' = [os EXCEPT !.iocp = Append(@, run.send[t])]
    /\ run' = [run EXCEPT !.send[t] = None]
    /\ UNCHANGED <<s, hist>>

\* A worker of the thread pool is done with r: wq_mutex is held until uv_async_send
\* for wq_async has returned.
WqMutexFree == \A t \in Senders : run.send[t] # WqAsync

WorkerDone(t, r) ==
    /\ r \in os.pool /\ run.send[t] = None /\ WqMutexFree
    /\ s' = [s EXCEPT !.wq = Append(@, r), !.sent = @ \cup {WqAsync}]
    /\ run' = [run EXCEPT !.send[t] = IF Posts(WqAsync) THEN WqAsync ELSE None]
    /\ os' = [os EXCEPT !.pool = @ \ {r}]
    /\ UNCHANGED hist

\* uv__wake_all_loops, when the system resumes
WakeAll ==
    /\ s.menu.ex /\ hist.wakes < s.menu.wakes
    /\ os' = [os EXCEPT !.iocp = Append(@, Wake)]
    /\ hist' = [hist EXCEPT !.wakes = @ + 1]
    /\ UNCHANGED <<s, run>>

Tick ==
    /\ os.now < s.menu.now
    /\ os' = [os EXCEPT !.now = @ + 1]
    /\ UNCHANGED <<s, run, hist>>

-----------------------------------------------------------------------------
\* uv_run
Alive(st) == st.count > 0 \/ st.reqs # {} \/ st.endgames # <<>>
UpdateTime(st) == [st EXCEPT !.time = os.now]

\* What keeps the loop alive, by the flags of the handles and the requests.
Kept(st) == st.reqs \cup {h \in Own : Counted(st, h) \/ h \in st.closing \ st.closed}

\* uv_run returns: the stop flag is cleared.
Return ==
    /\ run' = [run EXCEPT !.pc = "out"]
    /\ s' = [s EXCEPT !.stop = FALSE]
    /\ hist' = [hist EXCEPT !.kept = Kept(s),
                   !.result = IF s.stop THEN "stopped" ELSE IF Alive(s) THEN "alive" ELSE "dead"]

\* A callback of h is called; the loop goes on at back when it returns.
Callback(h, back) == [run EXCEPT !.pc = "cb", !.cb = h, !.back = back]

CbReturns ==
    /\ run.pc = "cb" /\ run.half = None
    /\ run' = [run EXCEPT !.pc = run.back, !.cb = None, !.back = None]
    /\ UNCHANGED <<s, os, hist>>

Run(mode) ==
    /\ run.pc = "out" /\ run.half = None /\ hist.runs < 1
    /\ s' = IF Alive(s) THEN s ELSE UpdateTime(s)
    /\ run' = [run EXCEPT !.pc = "head", !.mode = mode]
    /\ hist' = [hist EXCEPT !.runs = @ + 1, !.cbs = FALSE, !.result = None]
    /\ UNCHANGED os

\* The condition of the while loop
While ==
    /\ run.pc = "head"
    /\ IF Alive(s) /\ ~s.stop
       THEN /\ s' = UpdateTime(s)
            /\ run' = [run EXCEPT !.pc = "timers"]
            /\ UNCHANGED hist
       ELSE Return
    /\ UNCHANGED os

TimerDue(st, t) == st.due[t] <= st.time

\* uv_process_timers
ProcessTimers ==
    /\ run.pc \in {"timers", "timers2"}
    /\ IF s.armed # {} /\ TimerDue(s, First(s))
       THEN LET t == First(s)
            IN /\ s' = TimerAgain(TimerStop(s, t), t)
               /\ run' = Callback(t, run.pc)
               /\ hist' = [hist EXCEPT !.cbs = TRUE, !.called = {<<hist.want[t], s.time>>},
                    !.want[t] = s.time + s.repeat[t]]
       ELSE /\ run' = [run EXCEPT !.pc = IF @ = "timers" THEN "reqs" ELSE "end"]
            /\ hist' = [hist EXCEPT !.called = {}]
            /\ UNCHANGED s
    /\ UNCHANGED os

\* uv_process_reqs detaches the circular list of pending requests ...
TakeReqs ==
    /\ run.pc = "reqs"
    /\ run' = [run EXCEPT !.ran = s.pending # <<>>, !.work = s.pending, !.pc = "req"]
    /\ s' = [s EXCEPT !.pending = <<>>]
    /\ UNCHANGED <<os, hist>>

\* Mutant of Waked: the endgame of a handle that waits for this package is not started.
WakedForgets(st, h) == [st EXCEPT !.sent = @ \ {h}]

Waked(st, h) ==
    LET clear == [st EXCEPT !.sent = @ \ {h}]
    IN IF h \in st.closing THEN WantEndgame(clear, h) ELSE clear

\* ... and handles them one by one: uv_process_async_wakeup_req.
ProcessReq ==
    /\ run.pc = "req"
    /\ IF run.work = <<>>
       THEN run' = [run EXCEPT !.pc = "idle"] /\ UNCHANGED <<s, hist>>
       ELSE LET h == Head(run.work)
                rest == [run EXCEPT !.work = Tail(@)]
            IN /\ s' = Waked(s, h)
               /\ IF h \in s.closing
                  THEN run' = rest /\ UNCHANGED hist
                  ELSE IF h = WqAsync
                  THEN run' = [rest EXCEPT !.pc = "wq"] /\ UNCHANGED hist
                  ELSE /\ run' = [rest EXCEPT !.pc = "cb", !.cb = h, !.back = "req"]
                       /\ hist' = [hist EXCEPT !.cbs = TRUE, !.owed = @ \ {h}]
    /\ UNCHANGED os

\* The callback of wq_async is uv__work_done: it takes the queue ...
TakeWq ==
    /\ run.pc = "wq" /\ WqMutexFree
    /\ run' = [run EXCEPT !.done = s.wq, !.pc = "done"]
    /\ s' = [s EXCEPT !.wq = <<>>]
    /\ UNCHANGED <<os, hist>>

\* ... and unregisters the requests and calls them back, one by one.
WorkDone ==
    /\ run.pc = "done"
    /\ IF run.done = <<>>
       THEN run' = [run EXCEPT !.pc = "req"] /\ UNCHANGED <<s, hist>>
       ELSE /\ s' = [s EXCEPT !.reqs = @ \ {Head(run.done)}]
            /\ run' = [run EXCEPT !.done = Tail(@), !.pc = "cb", !.cb = Head(run.done),
                                  !.back = "done"]
            /\ hist' = [hist EXCEPT !.cbs = TRUE]
    /\ UNCHANGED os

-----------------------------------------------------------------------------
AfterPhase == [idle |-> "prepare", prepare |-> "timeout", check |-> "endgames"]

\* uv_idle_invoke, uv_prepare_invoke and uv_check_invoke: the next handle is found
\* before the callback, and uv_*_stop moves it on.
Invoke ==
    /\ run.pc \in {"idle", "prepare", "check"}
    /\ s' = [s EXCEPT !.next = IF s.list[run.pc] = <<>> THEN None ELSE Head(s.list[run.pc])]
    /\ hist' = [hist EXCEPT !.must = {w \in Own \cap Watchers : InSeq(w, s.list[run.pc])}]
    /\ run' = [run EXCEPT !.pc = "invoke", !.phase = run.pc]
    /\ UNCHANGED os

InvokeNext ==
    /\ run.pc = "invoke"
    /\ IF s.next = None
       THEN /\ run' = [run EXCEPT !.pc = AfterPhase[run.phase], !.phase = None]
            /\ UNCHANGED <<s, hist>>
       ELSE /\ s' = [s EXCEPT !.next = After(s.list[run.phase], s.next)]
            /\ hist' = [hist EXCEPT !.must = @ \ {s.next}, !.cbs = TRUE]
            /\ run' = Callback(s.next, "invoke")
    /\ UNCHANGED os

\* Mutant of BackendTimeout: a closed handle whose endgame is due is forgotten.
BackendTimeoutWaits(st) ==
    IF \/ st.stop \/ (st.count = 0 /\ st.reqs = {}) \/ st.pending # <<>>
       \/ st.list["idle"] # <<>>
    THEN 0 ELSE NextTimeout(st)

\* uv_backend_timeout
BackendTimeout(st) ==
    IF \/ st.stop \/ (st.count = 0 /\ st.reqs = {}) \/ st.pending # <<>>
       \/ st.endgames # <<>> \/ st.list["idle"] # <<>>
    THEN 0 ELSE NextTimeout(st)

Timeout ==
    /\ run.pc = "timeout"
    /\ LET timeout == IF run.mode = "default" \/ (run.mode = "once" /\ ~run.ran)
                      THEN BackendTimeout(s) ELSE 0
       IN run' = [run EXCEPT !.pc = "poll", !.timeout = timeout, !.deadline = s.time + timeout]
    /\ UNCHANGED <<s, os, hist>>

\* uv_poll_ex takes all packages, uv_poll one; empty ones only wake the loop.
PollDequeues ==
    /\ run.pc = "poll" /\ os.iocp # <<>>
    /\ LET taken == IF s.menu.ex THEN os.iocp ELSE <<Head(os.iocp)>>
       IN /\ os' = [os EXCEPT !.iocp = SubSeq(@, Len(taken) + 1, Len(@))]
          /\ s' = UpdateTime([s EXCEPT !.pending = @ \o SelectSeq(taken, LAMBDA x : x # Wake)])
    /\ run' = [run EXCEPT !.pc = "check"]
    /\ UNCHANGED hist

\* The wait ends, sometimes a little early; then it is made again for what is left.
PollTimesOut ==
    /\ run.pc = "poll" /\ os.iocp = <<>> /\ run.timeout # Infinite
    /\ os.now + 1 >= run.deadline
    /\ s' = IF run.timeout > 0 THEN UpdateTime(s) ELSE s
    /\ run' = IF run.timeout > 0 /\ run.deadline > os.now
              THEN [run EXCEPT !.timeout = run.deadline - os.now]
              ELSE [run EXCEPT !.pc = "check"]
    /\ UNCHANGED <<os, hist>>

\* uv_async_endgame, uv_timer_endgame and uv_loop_watcher_endgame
Ends(st, h) == h \in st.closing /\ h \notin st.sent

\* uv_process_endgames: uv__handle_close calls close_cb, which may close more handles.
ProcessEndgames ==
    /\ run.pc = "endgames"
    /\ IF s.endgames = <<>>
       THEN /\ run' = [run EXCEPT !.pc = IF run.mode = "once" THEN "timers2" ELSE "end"]
            /\ UNCHANGED <<s, hist>>
       ELSE LET h == Head(s.endgames)
                rest == [s EXCEPT !.endgames = Tail(@)]
            IN IF Ends(s, h)
               THEN /\ s' = HandleClose(rest, h)
                    /\ run' = Callback(h, "endgames")
                    /\ hist' = [hist EXCEPT !.ends[h] = @ + 1, !.cbs = TRUE]
               ELSE s' = rest /\ UNCHANGED <<run, hist>>
    /\ UNCHANGED os

\* The end of an iteration; UV_RUN_ONCE and UV_RUN_NOWAIT make one only.
IterationEnds ==
    /\ run.pc = "end"
    /\ IF run.mode = "default"
       THEN run' = [run EXCEPT !.pc = "head"] /\ UNCHANGED <<s, hist>>
       ELSE Return
    /\ UNCHANGED os

LoopStep ==
    \/ CbReturns \/ CloseAsyncEnds \/ While \/ ProcessTimers \/ TakeReqs \/ ProcessReq
    \/ TakeWq \/ WorkDone
    \/ Invoke \/ InvokeNext \/ Timeout \/ PollDequeues \/ PollTimesOut
    \/ ProcessEndgames \/ IterationEnds

ThreadStep == \E t \in Senders : Post(t) \/ \E r \in os.pool : WorkerDone(t, r)

Next ==
    \/ Calls
    \/ \E mode \in Modes : Run(mode)
    \/ LoopStep \/ ThreadStep \/ Tick \/ WakeAll
    \/ \E t \in Senders, h \in s.all \cap Asyncs : Send(t, h)

Spec ==
    /\ Init /\ [][Next]_vars
    /\ WF_vars(LoopStep) /\ WF_vars(ThreadStep) /\ WF_vars(Tick)

-----------------------------------------------------------------------------
\* The type invariant.
TypeOK ==
    /\ s.closed \subseteq s.closing /\ s.closing \cup s.active \cup s.ref \cup s.armed \subseteq Own
    /\ s.count \in 0 .. Cardinality(Own) /\ s.sent \subseteq Asyncs
    /\ s.time \in 0 .. s.menu.now /\ s.time <= os.now
    /\ run.pc \in {"out", "cb", "head", "timers", "reqs", "req", "wq", "done", "idle", "prepare", "invoke",
                   "timeout", "poll", "check", "endgames", "timers2", "end"}

\* active_handles is what the flags of all handles say, closing ones included, over
\* every path of start, stop, ref, unref and close: uv_run ends exactly when it should.
CountExact ==
    s.count = Cardinality({h \in Own : Counted(s, h) \/ h \in s.closing \ s.closed})

Packages ==
    {<<"iocp", i>> : i \in {i \in DOMAIN os.iocp : os.iocp[i] # Wake}}
        \cup {<<"pending", i>> : i \in DOMAIN s.pending}
        \cup {<<"work", i>> : i \in DOMAIN run.work}
        \cup {<<"send", t>> : t \in {t \in Senders : run.send[t] # None}}

HandleOf(p) ==
    CASE p[1] = "iocp" -> os.iocp[p[2]]
      [] p[1] = "pending" -> s.pending[p[2]]
      [] p[1] = "work" -> run.work[p[2]]
      [] OTHER -> run.send[p[2]]

\* The one request of an async handle is never in two places (uv_insert_pending_req
\* would corrupt its list), and async_sent says that it is in one.
RequestOnce ==
    \A h \in Own \cap Asyncs :
        Cardinality({p \in Packages : HandleOf(p) = h}) = IF h \in s.sent THEN 1 ELSE 0

\* A closing handle is in the list of endgames once, or its package is still to
\* come; its close callback is called once, and nothing of it is left then.
EndgameOnce ==
    \A h \in s.closing :
        /\ Cardinality({i \in DOMAIN s.endgames : s.endgames[i] = h})
             \in IF h \in s.closed THEN {0} ELSE IF h \in s.sent THEN {0, 1} ELSE {1}
        /\ hist.ends[h] = IF h \in s.closed THEN 1 ELSE 0
        /\ h \in s.closed => h \notin s.sent \cup s.active \cup s.armed

\* A pass over the loop watchers calls each handle that was active at its beginning
\* and was not stopped by another callback, and no handle that is not active.
PassComplete ==
    /\ run.pc \in {"timeout", "prepare", "endgames"} => hist.must = {}
    /\ run.pc = "invoke" /\ s.next # None => s.next \in s.active

\* A timer's callback is not called before the time it was started for, the sum of the
\* loop's time and the time-out in exact arithmetic, although the sum is kept in a number
\* that is unsigned and of a fixed width.
TimersNeverEarly == \A c \in hist.called : c[1] <= c[2]

\* uv_run in default mode returns only when no handle and no request keeps the loop alive
\* or uv_stop was called.
RunsUntilDead ==
    run.mode = "default" /\ hist.result \in {"alive", "dead"} => hist.kept = {}

\* What core.c says of UV_RUN_ONCE: when it returns a callback was invoked.
OnceMakesProgress ==
    run.pc = "out" /\ run.mode = "once" /\ hist.result = "alive" => hist.cbs

Running == run.mode = "default" /\ run.pc # "out"

\* While the loop runs, a handle whose close was called gets its close callback, although
\* packages of it may still be on their way; a send leads to a callback that begins after
\* it, or to a close; and a request of the thread pool to its callback.
LoopOwes == Running /\ (s.closing # s.closed \/ hist.owed # {} \/ s.reqs # {})

-----------------------------------------------------------------------------
(***************************************************************************)
(* The table of all loops of the Windows port (win/core.c): uv_loop_init   *)
(* enters a loop, uv__loop_close removes it, and the thread that the       *)
(* system calls when the machine resumes wakes every loop in it.  The      *)
(* table grows by chunks and is cut in half when most of it is free.       *)
(***************************************************************************)
\* s: the table (a function on its places), its size, the state of every loop
\* os: the completion ports, and the lock of the table
\* run: the waking thread: the next place it reads
\* hist: posts of the round, whom it owes one, posts to a closed port, bounds

Null == "null"

Capacity(tab) == Cardinality(DOMAIN tab)

\* uv__loops_init
TableInit ==
    /\ s = [tab |-> [i \in 0..Chunk - 1 |-> Null], size |-> 0, st |-> [l \in Loops |-> "out"]]
    /\ os = [port |-> [l \in Loops |-> "none"], lock |-> FALSE]
    /\ run = [i |-> 0]
    /\ hist = [woken |-> {}, owed |-> {}, late |-> FALSE, resumes |-> 0, inits |-> 0, fails |-> 0]

\* uv_loop_init creates the port (the rest of it cannot fail before uv__loops_add)
LoopInit(l) ==
    /\ s.st[l] = "out" /\ hist.inits < MaxInits
    /\ \E ok \in IF hist.fails < MaxFails THEN BOOLEAN ELSE {TRUE} :
         /\ hist' = [hist EXCEPT !.inits = @ + 1, !.fails = IF ok THEN @ ELSE @ + 1]
         /\ s' = [s EXCEPT !.st[l] = IF ok THEN "made" ELSE "out"]
         /\ os' = [os EXCEPT !.port[l] = IF ok THEN "open" ELSE @]
    /\ UNCHANGED run

\* the table with room for one more, the new places cleared
Grown(tab) == [i \in 0..Capacity(tab) + Chunk - 1 |-> IF i \in DOMAIN tab THEN tab[i] ELSE Null]

\* Mutant of Full: tested one place too late.
FullLate(tab, size) == size > Capacity(tab)

Full(tab, size) == size = Capacity(tab)

\* uv__loops_add; when realloc fails uv_loop_init closes the port again
LoopsAdd(l) ==
    /\ s.st[l] = "made" /\ ~os.lock
    /\ \/ /\ s' = [s EXCEPT !.tab = [IF Full(s.tab, s.size) THEN Grown(s.tab) ELSE s.tab
                                        EXCEPT ![s.size] = l],
                            !.size = @ + 1, !.st[l] = "open"]
          /\ UNCHANGED <<os, hist>>
       \/ /\ Full(s.tab, s.size) /\ hist.fails < MaxFails
          /\ s' = [s EXCEPT !.st[l] = "out"]
          /\ os' = [os EXCEPT !.port[l] = "invalid"]
          /\ hist' = [hist EXCEPT !.fails = @ + 1]
    /\ UNCHANGED run

\* downsize only when it grew, and more than half of the table is free
Halves(tab, size) == Capacity(tab) >= 4 * Chunk /\ size < Capacity(tab) \div 2

Halved(tab, size) ==
    IF Halves(tab, size) THEN [i \in 0..(Capacity(tab) \div 2) - 1 |-> tab[i]] ELSE tab

\* the last loop takes the place of the removed one
Swapped(tab, size, l) ==
    [i \in DOMAIN tab |->
        IF i = size - 1 THEN Null ELSE IF tab[i] = l THEN tab[size - 1] ELSE tab[i]]

\* uv__loop_close: uv__loops_remove (realloc may fail to shrink the table) ...
LoopsRemove(l) ==
    /\ s.st[l] = "open" /\ ~os.lock
    /\ \E i \in 0..s.size - 1 : s.tab[i] = l
    /\ LET tab == Swapped(s.tab, s.size, l) IN
       \E t \in {tab, Halved(tab, s.size - 1)} :
         s' = [s EXCEPT !.tab = t, !.size = @ - 1, !.st[l] = "removed"]
    /\ UNCHANGED <<os, run, hist>>

\* ... and, when the rest has been destroyed, the port
LoopClose(l) ==
    /\ s.st[l] = "removed"
    /\ s' = [s EXCEPT !.st[l] = "out"]
    /\ os' = [os EXCEPT !.port[l] = "closed"]
    /\ UNCHANGED <<run, hist>>

\* The machine resumes: uv__wake_all_loops takes the lock ...
WakeStarts ==
    /\ ~os.lock /\ hist.resumes < MaxResumes
    /\ os' = [os EXCEPT !.lock = TRUE]
    /\ run' = [i |-> 0]
    /\ hist' = [hist EXCEPT !.resumes = @ + 1, !.woken = {},
                            !.owed = {l \in Loops : s.st[l] = "open"}]
    /\ UNCHANGED s

\* ... posts to one loop after the other (a port that failed to open is passed over) ...
WakeOne ==
    /\ os.lock /\ run.i < s.size
    /\ LET l == s.tab[run.i] IN
       hist' = IF l = Null THEN [hist EXCEPT !.late = TRUE]
               ELSE IF os.port[l] = "invalid" THEN hist
               ELSE [hist EXCEPT !.woken = @ \cup {l}, !.late = @ \/ os.port[l] # "open"]
    /\ run' = [run EXCEPT !.i = @ + 1]
    /\ UNCHANGED <<s, os>>

\* ... and releases it.
WakeEnds ==
    /\ os.lock /\ run.i >= s.size
    /\ os' = [os EXCEPT !.lock = FALSE]
    /\ UNCHANGED <<s, run, hist>>

TableNext ==
    \/ \E l \in Loops : LoopInit(l) \/ LoopsAdd(l) \/ LoopsRemove(l) \/ LoopClose(l)
    \/ WakeStarts \/ WakeOne \/ WakeEnds

TableSpec == TableInit /\ [][TableNext]_vars

-----------------------------------------------------------------------------
\* The type invariant.
TableTypeOK == s.size \in 0..Cardinality(Loops) /\ DOMAIN s.tab = 0..Capacity(s.tab) - 1 /\ os.lock \in BOOLEAN

\* The first places of the table hold the open loops, each once, and no place is read or
\* written beyond what was allocated, through growth, removal from the middle and halving.
TableExact ==
    /\ s.size <= Capacity(s.tab)
    /\ {s.tab[i] : i \in 0..s.size - 1} = {l \in Loops : s.st[l] = "open"}
    /\ s.size = Cardinality({l \in Loops : s.st[l] = "open"})

\* The waking thread posts to every loop that was open when it took the lock, and never to
\* the port of a loop that is closed.
WakesAll ==
    /\ ~hist.late
    /\ ~os.lock => hist.owed \subseteq hist.woken
=============================================================================
