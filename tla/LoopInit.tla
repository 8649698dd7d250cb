------------------------------ MODULE LoopInit ------------------------------
(***************************************************************************)
(* uv_loop_init, which undoes what it did when a step fails, and           *)
(* uv__loop_close (loop.c), with the descriptors of the wakeup that        *)
(* uv__async_start opens in one of four ways (async.c).                    *)
(***************************************************************************)
EXTENDS Integers, FiniteSets, Sequences

CONSTANTS MaxInits, MaxFds      \* bounds

VARIABLES
    s,      \* the loop: its descriptors (-1: none), locks and watcher table
    os,     \* the open descriptors, and what the kernel supports
    run,    \* the place in uv_loop_init or uv__loop_close
    hist    \* what was closed twice or destroyed twice, and the failed tries

vars == <<s, os, run, hist>>

NoLoop == [backend |-> -1, sig |-> <<-1, -1>>, rfd |-> -1, wfd |-> -1, emfile |-> -1,
           locks |-> {}, watchers |-> FALSE]

Init ==
    /\ s = NoLoop
    /\ \E k \in {"eventfd2", "eventfd", "pipe"}, proc \in BOOLEAN :
           os = [open |-> {}, kernel |-> k, proc |-> proc, no2 |-> FALSE, no |-> FALSE]
    /\ run = "start"
    /\ hist = [bad |-> FALSE, inits |-> 0, failed |-> FALSE, lost |-> {}]

Free == {fd \in 1..MaxFds : fd \notin os.open /\ \A g \in 1..MaxFds : g < fd => g \in os.open}
Closed(fds) ==
    /\ os' = [os EXCEPT !.open = @ \ fds]
    /\ hist' = [hist EXCEPT !.bad = @ \/ ~(fds \subseteq os.open)]
Fails(pc) == run' = pc /\ hist' = [hist EXCEPT !.failed = TRUE] /\ UNCHANGED <<s, os>>

\* uv_loop_init up to uv__platform_loop_init; what an earlier try left is lost.
Begin ==
    /\ run = "start" /\ hist.inits < MaxInits
    /\ s' = NoLoop
    /\ hist' = [hist EXCEPT !.inits = @ + 1, !.failed = FALSE,
                            !.lost = os.open \cup (IF s.watchers THEN {0} ELSE {})]
    /\ run' = "platform" /\ UNCHANGED os

\* uv__platform_loop_init: epoll_create1, or epoll_create
Platform ==
    /\ run = "platform"
    /\ \/ \E fd \in Free : /\ s' = [s EXCEPT !.backend = fd]
                           /\ os' = [os EXCEPT !.open = @ \cup {fd}]
                           /\ run' = "signal" /\ UNCHANGED hist
       \/ Fails("start")

\* uv_signal_init of child_watcher: a pipe and its watcher
SignalInit ==
    /\ run = "signal"
    /\ \/ \E a, b \in 1..MaxFds : /\ a < b /\ {a, b} \cap os.open = {}
                                  /\ \A g \in 1..b : g \in os.open \cup {a, b}
                                  /\ s' = [s EXCEPT !.sig = <<a, b>>, !.watchers = TRUE]
                                  /\ os' = [os EXCEPT !.open = @ \cup {a, b}]
                                  /\ run' = "rwlock" /\ UNCHANGED hist
       \/ Fails("fail_signal_init")

LockInit(pc, lock, next, fail) ==
    /\ run = pc
    /\ \/ s' = [s EXCEPT !.locks = @ \cup {lock}] /\ run' = next /\ UNCHANGED <<os, hist>>
       \/ Fails(fail)

RwlockInit == LockInit("rwlock", "cloexec_lock", "mutex", "fail_rwlock_init")
MutexInit == LockInit("mutex", "wq_mutex", "eventfd2", "fail_mutex_init")

\* uv__async_eventfd: eventfd2, then eventfd; what is missing is remembered.
Eventfd ==
    /\ run = "eventfd2"
    /\ LET no2 == os.no2 \/ os.kernel # "eventfd2"
           no  == os.no \/ (no2 /\ os.kernel = "pipe")
       IN IF no2 /\ no
          THEN os' = [os EXCEPT !.no2 = no2, !.no = no] /\ run' = "pipe" /\ UNCHANGED <<s, hist>>
          ELSE \/ \E fd \in Free : /\ s' = [s EXCEPT !.rfd = fd, !.wfd = -1]
                                   /\ os' = [os EXCEPT !.open = @ \cup {fd}, !.no2 = no2]
                                   /\ run' = "ready" /\ UNCHANGED hist
               \/ Fails("fail_async_init")

\* Mutant of Reopened: the ends of the pipe are kept open beside the new descriptor.
ReopenedKeeps(a, b) == {}

\* The descriptors that are closed when the pipe was opened again through procfs.
Reopened(a, b) == {a, b}

\* The rest of uv__async_start without an eventfd: a pipe, and where /proc can open
\* it for reading and writing one descriptor instead of both ends.
AsyncPipe ==
    /\ run = "pipe"
    /\ \/ \E a, b, c \in 1..MaxFds :
              /\ a < b /\ b < c /\ {a, b, c} \cap os.open = {}
              /\ \A g \in 1..c : g \in os.open \cup {a, b, c}
              /\ IF os.proc
                 THEN /\ s' = [s EXCEPT !.rfd = c, !.wfd = c]
                      /\ os' = [os EXCEPT !.open = (@ \cup {a, b, c}) \ Reopened(a, b)]
                 ELSE /\ s' = [s EXCEPT !.rfd = a, !.wfd = b]
                      /\ os' = [os EXCEPT !.open = @ \cup {a, b}]
              /\ run' = "ready" /\ UNCHANGED hist
       \/ Fails("fail_async_init")

-----------------------------------------------------------------------------

\* The labels of uv_loop_init, each falling through to the next.
FailAsync ==
    /\ run = "fail_async_init"
    /\ s' = [s EXCEPT !.locks = @ \ {"wq_mutex"}]
    /\ run' = "fail_mutex_init" /\ UNCHANGED <<os, hist>>

FailMutex ==
    /\ run = "fail_mutex_init"
    /\ s' = [s EXCEPT !.locks = @ \ {"cloexec_lock"}]
    /\ run' = "fail_rwlock_init" /\ UNCHANGED <<os, hist>>

\* uv__signal_loop_cleanup
SignalCleanup(pc, next) ==
    /\ run = pc
    /\ Closed({s.sig[1], s.sig[2]} \ {-1})
    /\ s' = [s EXCEPT !.sig = <<-1, -1>>]
    /\ run' = next

FailRwlock == SignalCleanup("fail_rwlock_init", "fail_signal_init")

\* uv__platform_loop_delete closes the inotify descriptor, if there is one; the
\* backend's own and the watcher table stay.
FailSignal == run = "fail_signal_init" /\ run' = "start" /\ UNCHANGED <<s, os, hist>>

\* A stream server keeps a spare descriptor.
Emfile ==
    /\ run = "ready" /\ s.emfile = -1
    /\ \E fd \in Free : /\ s' = [s EXCEPT !.emfile = fd]
                        /\ os' = [os EXCEPT !.open = @ \cup {fd}]
    /\ UNCHANGED <<run, hist>>

\* uv__loop_close
CloseSignals == SignalCleanup("ready", "async")

\* Mutant of AsyncEnds: the same descriptor is closed as both ends.
AsyncEndsTwice == <<s.rfd, s.wfd>>

\* The descriptors that uv__async_stop closes, in order.
AsyncEnds == IF s.wfd \in {-1, s.rfd} THEN <<s.rfd>> ELSE <<s.wfd, s.rfd>>

CloseAsync ==
    /\ run = "async"
    /\ LET es == AsyncEnds
       IN /\ os' = [os EXCEPT !.open = @ \ {es[i] : i \in DOMAIN es}]
          /\ hist' = [hist EXCEPT !.bad = @ \/ (\E i \in DOMAIN es : es[i] \notin os.open)
                                            \/ Cardinality({es[i] : i \in DOMAIN es}) # Len(es)]
    /\ s' = [s EXCEPT !.rfd = -1, !.wfd = -1]
    /\ run' = "descriptors"

CloseRest ==
    /\ run = "descriptors"
    /\ Closed({s.emfile, s.backend} \ {-1})
    /\ s' = NoLoop
    /\ run' = "start"

Next ==
    \/ Begin \/ Platform \/ SignalInit \/ RwlockInit \/ MutexInit \/ Eventfd \/ AsyncPipe
    \/ FailAsync \/ FailMutex \/ FailRwlock \/ FailSignal
    \/ Emfile \/ CloseSignals \/ CloseAsync \/ CloseRest

Spec == Init /\ [][Next]_vars

-----------------------------------------------------------------------------
\* The type invariant.
TypeOK == os.open \subseteq 1..MaxFds /\ s.backend \in -1..MaxFds /\ s.rfd \in -1..MaxFds

\* Every descriptor is closed once, and when uv__loop_close is done nothing of the
\* loop is left, whichever kind of wakeup it had.
ClosedOnce ==
    /\ ~hist.bad
    /\ run = "start" /\ s = NoLoop => os.open \subseteq hist.lost

\* What a failing uv_loop_init leaves is exactly the descriptor of the backend and, once
\* the signal pipe was watched, the watcher table: loop.c:127-130 gives neither back, so
\* that every failure after uv__platform_loop_init loses a descriptor.  Locks and pipes
\* are released.
InitLeaves ==
    run = "start" /\ hist.failed =>
        /\ s.locks = {} /\ s.sig = <<-1, -1>>
        /\ os.open \ hist.lost = {s.backend} \ {-1}

\* While the loop is used, each lock exists and each of its descriptors is open and
\* is used for one purpose.
LoopComplete ==
    run = "ready" =>
        LET fds == <<s.backend, s.sig[1], s.sig[2], s.rfd>>
        IN /\ s.locks = {"cloexec_lock", "wq_mutex"}
           /\ \A i, j \in 1..4 : fds[i] \in os.open /\ (i # j => fds[i] # fds[j])
           /\ s.wfd # -1 => s.wfd \in os.open
           /\ os.open \subseteq hist.lost
                  \cup {s.backend, s.sig[1], s.sig[2], s.rfd, s.wfd, s.emfile}
=============================================================================
