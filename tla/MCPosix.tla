------------------------------- MODULE MCPosix -------------------------------
(***************************************************************************)
(* Instances for TLC of parts of the POSIX port, each by itself: the event *)
(* backends with I/O watchers and poll handles, signals and processes,     *)
(* requests of the thread pool, file polling and file events, the barrier, *)
(* loop initialisation and the red-black tree.  The variables belong to    *)
(* the part that kind names.                                               *)
(***************************************************************************)
EXTENDS Integers, TLC

CONSTANTS Kinds, l1, l2, h1, h2

VARIABLES kind, s, os, run, hist

vars == <<kind, s, os, run, hist>>

-----------------------------------------------------------------------------
PollerCalls ==
    [b \in {"epoll", "kqueue", "port", "pollset", "table"} |-> IF b = "epoll" THEN 3 ELSE 2]
Polls == {"b"}

Poller == INSTANCE Poller
    WITH Backends <- DOMAIN PollerCalls, Fds <- {1, 2}, Io <- {"a"}, Sig <- "g", SigFd <- 3,
         MaxEvents <- 2, Count <- 2, PollReuse <- FALSE, MaxFiles <- 4, MaxReady <- 2,
         MaxPollerCalls <- PollerCalls

\* Two loops with a signal handle each; SIGCHLD's is internal, one signal is refused.
Signal == INSTANCE Signal
    WITH Loops <- {l1, l2}, Handles <- {h1, h2}, LoopOf <- h1 :> l1 @@ h2 :> l2,
         Internal <- {h2}, Signums <- {1, 2}, Invalid <- {2}, PipeSize <- 1, Batch <- 1,
         MaxSignals <- 2, MaxSignalCalls <- 4, Keys <- 1..7
Procs == {"p1", "p2", "p3"}
Process == INSTANCE Process
    WITH MaxMessages <- 2, MaxProcessCalls <- 5,
         OpenFds <- {0, 1, 2, 3}, MaxStdio <- 4, Containers <- {-1, -2, 0, 1, 3}, MaxFd <- 18,
         Workers <- {"w1", "w2"}, OneLock <- TRUE, MarkFails <- FALSE, MaxOpens <- 2, MaxForks <- 2

Ctxs == {1, 2}
FsPoll == INSTANCE FsPoll
    WITH Stats <- {1, 2}, Errors <- {-1}, FailStat <- FALSE, MaxChanges <- 2, MaxFsPollCalls <- 4
Reqs == {"r1", "r2"}
FsRequest == INSTANCE FsRequest
    WITH MaxEntries <- 2, CancelLargeReads <- FALSE, CleanupAtLast <- FALSE, MaxRequestCalls <- 3,
         Lens <- {<<2>>, <<1, 2>>, <<1, 0, 2>>, <<2, 1, 1>>, <<1, 1, 2, 1>>}, Offs <- {-1, 0, 2},
         Sizes <- {0, 2, 3, 8}, Modes <- {<<"vector", 2>>, <<"each", 1>>, <<"each", 2>>, <<"each", 4>>},
         ShortCalls <- FALSE, MaxInterrupts <- 2
FsEvent == INSTANCE FsEvent
    WITH Handles <- {"h1", "h2"}, Paths <- {"p", "q"}, MaxChanges <- 2, MaxWatches <- 3,
         ListFails <- FALSE, MaxInotifyCalls <- 5, FailStream <- TRUE, RestartInCb <- TRUE,
         Failing <- {"part", "realpath", "cf_cb"}, MaxFsEventsCalls <- 4

Threads == {"t1", "t2", "t3"}
Barrier == INSTANCE Barrier WITH Threshold <- 3, Ndebug <- FALSE, Rounds <- 2, EarlyReuse <- FALSE,
         MaxSpurious <- 2
LoopInit == INSTANCE LoopInit WITH MaxInits <- 3, MaxFds <- 12

-----------------------------------------------------------------------------
Init ==
    /\ kind \in Kinds
    /\ \/ kind = "poller" /\ Poller!Init
       \/ kind = "signal" /\ Signal!Init
       \/ kind = "process" /\ Process!Init
       \/ kind = "spawn" /\ Process!SpawnInit
       \/ kind = "cloexec" /\ Process!CloexecInit
       \/ kind = "fspoll" /\ FsPoll!Init
       \/ kind = "fsrequest" /\ FsRequest!Init
       \/ kind = "fstransfer" /\ FsRequest!TransferInit
       \/ kind = "inotify" /\ FsEvent!InotifyInit
       \/ kind = "fsevents" /\ FsEvent!FsEventsInit
       \/ kind = "barrier" /\ Barrier!Init
       \/ kind = "loopinit" /\ LoopInit!Init
       \/ kind = "rbtree" /\ Signal!RbInit /\ os = 0 /\ run = 0

Next ==
    /\ \/ kind = "poller" /\ Poller!Next
       \/ kind = "signal" /\ Signal!Next
       \/ kind = "process" /\ Process!Next
       \/ kind = "spawn" /\ Process!SpawnNext
       \/ kind = "cloexec" /\ Process!CloexecNext
       \/ kind = "fspoll" /\ FsPoll!Next
       \/ kind = "fsrequest" /\ FsRequest!Next
       \/ kind = "fstransfer" /\ FsRequest!TransferNext
       \/ kind = "inotify" /\ FsEvent!InotifyNext
       \/ kind = "fsevents" /\ FsEvent!FsEventsNext
       \/ kind = "barrier" /\ Barrier!Next
       \/ kind = "loopinit" /\ LoopInit!Next
       \/ kind = "rbtree" /\ Signal!RbNext /\ UNCHANGED <<os, run>>
    /\ UNCHANGED kind

\* The loop's thread goes on, ...
LoopThread ==
    /\ \/ kind = "poller" /\ Poller!LoopStep
       \/ kind = "signal" /\ Signal!LoopStep(l1)
       \/ kind = "process" /\ Process!LoopStep
       \/ kind = "fspoll" /\ FsPoll!LoopStep
       \/ kind = "fsrequest" /\ FsRequest!LoopStep
       \/ kind = "fstransfer" /\ FsRequest!TransferNext
       \/ kind = "fsevents" /\ FsEvent!UvStep
    /\ UNCHANGED kind

\* ... so does that of a second loop, ...
SecondLoop == kind = "signal" /\ Signal!LoopStep(l2) /\ UNCHANGED kind

\* ... and so do signal handlers and one of the other threads, of the pool, of the
\* program or of CoreFoundation, as long as one of them can.
OtherThreads ==
    /\ \/ kind = "signal" /\ Signal!HandlerStep
       \/ kind = "process" /\ Process!Sigchld
       \/ kind = "fspoll" /\ \E c \in Ctxs : FsPoll!StatWorks(c) \/ FsPoll!TimerFires(c)
       \/ kind = "fsrequest" /\ \E r \in Reqs : FsRequest!Work(r)
       \/ kind = "barrier" /\ \E t \in Threads : Barrier!Step(t)
       \/ kind = "fsevents" /\ FsEvent!CfStep
    /\ UNCHANGED kind

Spec ==
    Init /\ [][Next]_vars /\ WF_vars(LoopThread) /\ WF_vars(SecondLoop) /\ WF_vars(OtherThreads)

-----------------------------------------------------------------------------
\* The variables have the types of the part that runs.
TypeOK ==
    CASE kind = "poller" -> Poller!TypeOK
      [] kind = "signal" -> Signal!TypeOK
      [] kind = "process" -> Process!TypeOK
      [] kind = "spawn" -> Process!SpawnTypeOK
      [] kind = "cloexec" -> Process!CloexecTypeOK
      [] kind = "fspoll" -> FsPoll!TypeOK
      [] kind = "fsrequest" -> FsRequest!TypeOK
      [] kind = "fstransfer" -> FsRequest!TransferTypeOK
      [] kind = "inotify" -> FsEvent!InotifyTypeOK
      [] kind = "fsevents" -> FsEvent!FsEventsTypeOK
      [] kind = "barrier" -> Barrier!TypeOK
      [] kind = "loopinit" -> LoopInit!TypeOK
      [] kind = "rbtree" -> Signal!RbTypeOK

\* What libtuv keeps agrees with what it stands for, in every order of calls, callbacks
\* and signals: the watchers of uv__io_start and uv__io_stop, and the kernel's interest
\* when uv__io_poll blocks; the signals that have a handler and the messages on their way;
\* the rings of processes and the SIGCHLD watcher; active_reqs; the lists of inotify
\* handles; the semaphore and the stream of FSEvents; the loop that uv_loop_init made; and
\* the order, balance and links of RB_INSERT and RB_REMOVE.  The kernel's interest is that
\* of epoll, event ports and pollset; a message to the CF thread can always be allocated
\* when a handle starts ("signal" is not in Failing), or a handle would stay in the list
\* of a failed start (fsevents.c:841).
BooksExact ==
    CASE kind = "poller" -> TypeOK /\ Poller!WatchersExact /\ Poller!InterestKept
      [] kind = "signal" -> TypeOK /\ Signal!HandlersMatch /\ Signal!CaughtExact
      [] kind = "process" -> TypeOK /\ Process!RingsSound /\ Process!WatcherRuns
      [] kind = "fsrequest" -> TypeOK /\ FsRequest!RegisteredExact
      [] kind = "inotify" -> TypeOK /\ FsEvent!ListsExact
      [] kind = "fsevents" -> TypeOK /\ FsEvent!SemExact /\ FsEvent!StreamCovers
      [] kind = "loopinit" -> TypeOK /\ LoopInit!LoopComplete
      [] kind = "rbtree" -> TypeOK /\ Signal!Balanced /\ Signal!TreeExact
      [] OTHER -> TypeOK

\* Memory and descriptors have one owner while they are used and are given back once: the
\* handle that a signal message points to, the descriptors of uv_spawn in the parent and in
\* the child, those that another thread opens or receives while uv_spawn forks, contexts of
\* fs-poll.c, blocks of a request, the copied buffers of a transfer, watches of inotify,
\* handles and parts of the CF loop.  What a uv_loop_init that fails leaves is stated
\* exactly: the descriptor of the backend, and the watcher table.  Where a call that fails
\* loses something else, the failure is left out: the first stat of fs-poll.c (FailStat), a
\* large read that is cancelled and a scan that is cleaned up early (CancelLargeReads,
\* CleanupAtLast), memory for a list of inotify (ListFails; linux-inotify.c:244), the mark
\* of a received descriptor, whose result nobody looks at (MarkFails; core.c:621), opening
\* under the lock of another loop (OneLock), a stdio stream that is in use already (Busy, not
\* in Containers; process.c:530), and in fsevents.c the thread, a mutex, and the message that
\* a handle stops (Failing).
OwnedOnce ==
    CASE kind = "signal" -> Signal!NoDanglingMessage
      [] kind = "spawn" -> Process!ParentRestored /\ Process!ChildIsClean
      [] kind = "cloexec" -> Process!NothingInherited /\ Process!OpenedMarked
      [] kind = "fspoll" -> FsPoll!ContextsOwned
      [] kind = "fsrequest" -> FsRequest!FreedOnce /\ FsRequest!NothingLost
      [] kind = "fstransfer" -> FsRequest!CopyHeld
      [] kind = "inotify" -> FsEvent!WatchesOwned
      [] kind = "fsevents" -> FsEvent!HandlesAlive /\ FsEvent!StopFrees
      [] kind = "loopinit" -> LoopInit!ClosedOnce /\ LoopInit!InitLeaves
      [] kind = "barrier" -> Barrier!DestroyedAlone
      [] OTHER -> TRUE

\* The outcome is what was promised: an exit is reported once; a child has the stdio its
\* parent asked for, and the parent the error of execvp(); a transfer moved the bytes it
\* reports; a change is reported once to every inotify handle; no thread leaves a barrier
\* early; RB_FIND, RB_NFIND, RB_NEXT and RB_PREV find what is there.  A transfer is made
\* with one call for each buffer where there is no preadv or pwritev: if one of these but
\* the last stops short, or is interrupted when bytes were moved, the next goes on at the
\* wrong place or the bytes are moved again, and this is left out (ShortCalls).  The error of
\* execvp() reaches a parent with four open descriptors; with three, a child with five
\* overwrites its end of the pipe.
OutcomeExact ==
    CASE kind = "process" -> Process!ExitOnce
      [] kind = "spawn" -> Process!ChildHasStdio /\ Process!ExecErrorSeen
      [] kind = "fstransfer" -> FsRequest!TransferExact
      [] kind = "inotify" -> FsEvent!HeardExact
      [] kind = "barrier" -> Barrier!Together
      [] kind = "rbtree" -> Signal!SearchExact
      [] OTHER -> TRUE

\* A callback is made only for what is wanted when it is made.  uv__io_poll passes on no
\* event of a file that was closed to another one with the same descriptor
\* (uv__platform_invalidate_fd), and with epoll and kqueue nothing the watcher does not want
\* any more; poll_cb of fs-poll.c reports nothing after uv_fs_poll_stop; and
\* UV__FSEVENTS_PROCESS calls back for active handles only.  Left out: a program that closes
\* the file of a poll handle in a callback (PollReuse), since uv_poll_stop does not invalidate
\* its events, and poll handles in the poll tables of NuttX and TizenRT.
CallbackWanted ==
    [][/\ kind = "poller" /\ Poller!Calls /\ ~(run.backend = "table" /\ run'.cur \in Polls) =>
              run'.file = os.file[s.w[run'.cur].fd]
       /\ kind = "poller" /\ Poller!Calls /\ run.backend \in {"epoll", "kqueue"} =>
              run'.got \subseteq s.w[run'.cur].pevents \cup {"err"}
       /\ kind = "fspoll" /\ run.pc # "cb" /\ run'.pc = "cb" =>
              s.active /\ s.handle = "open" /\ s.ctx = run'.ctx
       /\ kind = "fsevents" /\ run.uv = "process" /\ run'.uv = "cb" => run.cb \in s.active]_vars

\* What somebody waits for: a thread in pthread_barrier_wait although enough have come, in
\* uv_fs_event_stop until the CF thread answers, in uv__fsevents_loop_delete until it ends,
\* or in uv__signal_lock; the close of a signal handle that uv__signal_close delays; an exit
\* that uv__chld has to report although signals are merged; the last state of a file, from
\* poll_cb; the callback of a request.
Owed ==
    CASE kind = "barrier" -> s.out > 0 /\ \E t \in Threads : run[t] = "waiting"
      [] kind = "fsevents" -> run.uv \in {"wait", "join"}
      [] kind = "signal" -> os.locked \/ \E h \in {h1, h2} : s[h].close = "closing"
      [] kind = "process" -> \E p \in s.active : /\ os.child[p] \in {"exited", "reaped"}
                                                /\ s.handle[p] = "open" /\ hist.exits[p] = 0
      [] kind = "fspoll" -> s.active /\ ~FsPoll!Told
      [] kind = "fsrequest" -> \E r \in Reqs : s.r[r].st \in {"queued", "worked", "cancelled"}
      [] OTHER -> FALSE

\* What somebody waits for comes; and uv__io_poll returns after a callback, however many
\* events there are.  A barrier is used again only when all of the last group have left it:
\* a thread that comes back earlier makes the ones that still leave wait on, for ever
\* (EarlyReuse); and so do all without assertions, since the signal of the last thread is
\* inside one (Ndebug; pthread-barrier.c:76).
Answered ==
    /\ Owed ~> ~Owed
    /\ kind = "poller" /\ run.pc = "cb" ~> kind = "poller" /\ run.pc = "none"
=============================================================================
