------------------------------ MODULE MCWindows ------------------------------
(***************************************************************************)
(* Instances for TLC of the parts of the Windows port, each by itself: the *)
(* variables belong to the part that kind names.                           *)
(***************************************************************************)
EXTENDS Integers, Sequences, SequencesExt, TLC

CONSTANTS Kinds, t1, t2, a1, a2, wq, w1, w2, w3

VARIABLES kind, s, os, run, hist

vars == <<kind, s, os, run, hist>>

-----------------------------------------------------------------------------
\* The loop: what a program does with few handles of each sort.
Menu(handles, reqs, calls, sends, wakes, now, ex) ==
    [handles |-> handles, reqs |-> reqs, calls |-> calls, sends |-> sends, wakes |-> wakes,
     now |-> now, ex |-> ex]
MenusDef ==
    {Menu({t1, t2}, {}, 2, 0, 0, 2, TRUE), Menu({t1}, {}, 3, 0, 0, 2, TRUE),
     Menu({w1, w2, w3}, {}, 4, 0, 0, 0, TRUE), Menu({a1}, {}, 2, 3, 0, 0, TRUE),
     Menu({a1, a2}, {}, 2, 2, 0, 0, FALSE), Menu({t1, a1}, {}, 1, 1, 1, 1, TRUE),
     Menu({}, {"q1", "q2"}, 3, 0, 0, 0, FALSE), Menu({t1}, {"q1"}, 2, 0, 0, 1, TRUE)}
PhaseDef == w1 :> "idle" @@ w2 :> "idle" @@ w3 :> "check"

\* The table of loops: four, in a table that grows by one place.
WinLoop == INSTANCE WinLoop
    WITH Menus <- MenusDef, Timers <- {t1, t2}, Asyncs <- {a1, a2, wq}, WqAsync <- wq, Watchers <- {w1, w2, w3},
         Phase <- PhaseDef, Senders <- {"p", "q"}, Modes <- {"default", "once"},
         Timeouts <- {1, 15}, Repeats <- {0, 1}, Width <- 16, MaxDelay <- 6,
         Loops <- {"a", "b", "c", "d"}, Chunk <- 1, MaxResumes <- 1, MaxInits <- 4, MaxFails <- 1

-----------------------------------------------------------------------------
\* Sockets: a socket of its own provider, one that bypasses the port, and a shared one.
TcpWays == {<<"plain", FALSE>>, <<"bypass", FALSE>>, <<"bypass", TRUE>>, <<"emulate", TRUE>>}

Tcp == INSTANCE WinTcp
    WITH Writes <- {"w1"}, Ways <- TcpWays, RestartFailed <- FALSE, MaxTcpCalls <- 4, MaxData <- 1
Server == INSTANCE WinTcpServer
    WITH SimultaneousAccepts <- 2, FailAccepts <- TRUE, ListenAgain <- FALSE,
         AcceptAfterError <- FALSE, MaxServerCalls <- 5, MaxArrivals <- 3
Udp == INSTANCE WinUdp
    WITH Sends <- {"s1"}, Ways <- {<<"plain", FALSE>>, <<"bypass", FALSE>>},
         RestartFailed <- FALSE, MaxUdpCalls <- 4, MaxDatagrams <- 2
Poll == INSTANCE WinPoll
    WITH SlowWays <- BOOLEAN, Interests <- {{}, {"R"}, {"R", "W"}}, MaxPollCalls <- 3, MaxChanges <- 2

-----------------------------------------------------------------------------
\* Pipes, signals, watched directories and processes.
Pipe == INSTANCE WinPipe
    WITH PipeWrites <- {"w1", "w2"}, PipeWays <- {"overlapped", "blocking", "thread"},
         CloseConnecting <- FALSE, SetupFails <- FALSE, MaxPipeCalls <- 4, MaxPipeData <- 1
PipeServer == INSTANCE WinPipeServer
    WITH Instances <- {1}, ListenTwice <- FALSE, CloseUnbound <- FALSE,
         MaxListenCalls <- 5, MaxClients <- 2
PipeThread == INSTANCE WinPipeThread
    WITH ShutdownReading <- FALSE, StartsLate <- FALSE, Duplicates <- {TRUE},
         PeerSilent <- FALSE, MaxThreadCalls <- 4, MaxThreadData <- 2,
         BareFrames <- FALSE, DataFails <- FALSE, ImportFails <- BOOLEAN,
         MaxFrames <- 2, MaxFrameBytes <- 2
Signal == INSTANCE WinSignal
    WITH Watchers <- {"h1", "h2"}, Control <- {"SIGINT"}, Other <- {"SIGWINCH"},
         CloseRaces <- FALSE, MaxSignalCalls <- 4, MaxSignals <- 2
FsEvent == INSTANCE WinFsEvent
    WITH RestartPending <- FALSE, StopInCallback <- FALSE, OpenFails <- FALSE,
         MaxWatchCalls <- 4, MaxBatches <- 2
\* uv_spawn, with the command line, the environment and the search it computes.
Process == INSTANCE WinProcess
    WITH Stdio <- {<<>>, <<"pipe", "fd", "stream", "ignore">>, <<"bad fd", "pipe">>,
                   <<"ignore", "pipe", "pipe", "pipe">>},
         MaxKills <- 2,
         Chars <- {"a", "_", "q", "b"}, MaxArgLen <- 3, MinArgs <- 1, MaxArgs <- 2,
         Names <- 1..5, Required <- {2, 4}, MaxVars <- 3,
         Files <- {<<"f">>, <<"f", ".", "x">>, <<"f", ".">>, <<"d", "b", "f">>, <<"e", ":", "f">>,
                   <<"b", "f">>, <<"d", ":", "f">>},
         Cwds <- {<<"d", ":", "b", "w">>, <<"d", ":", "b">>},
         PathChars <- {"d", "b", ":", ";", "q"}, MaxPathLen <- 4, LoneQuotes <- FALSE

-----------------------------------------------------------------------------
\* The file system.
File(k, r, o, d) == [kind |-> k, rp |-> r, ro |-> o, data |-> d]
FilesDef ==
    {File("none", "no", FALSE, FALSE), File("dir", "no", FALSE, FALSE), File("file", "no", FALSE, FALSE),
     File("file", "link", FALSE, FALSE), File("file", "nodata", FALSE, TRUE)}
    \cup {File("file", "no", o, TRUE) : o \in BOOLEAN}
    \cup {File("dir", r, o, FALSE) : r \in {"link", "junction", "mount"}, o \in BOOLEAN}
FlagsDef ==
    {c \cup a \cup t : c \in SUBSET {"creat", "excl", "trunc", "readonly"},
                       a \in {{}, {"wronly"}, {"append"}, {"rdwr", "append"}}, t \in {{}, {"temporary"}}}
    \cup {{"sequential", "random"}, {"wronly", "rdwr"}}
Long == <<"b", "b", "?", "b">>
TargetsDef ==
    {p \o t : p \in {<<>>, <<"a", ":">>, <<"a", ":", "b">>, Long, Long \o <<"a", ":">>, <<"b", "b", "a">>},
              t \in BoundedSeq({"a", "b", "s"}, 3)}

FsRequest == INSTANCE WinFsRequest WITH Reqs <- {"r1"}, AccessModes <- {{2}, {2, 4}}, MaxFsCalls <- 2
FsOps == INSTANCE WinFsOps
    WITH Files <- FilesDef, Flags <- FlagsDef, LateFailures <- FALSE, MaxTries <- 2, MaxEntries <- 3,
         Targets <- TargetsDef, Moves <- FALSE,
         Lens <- {<<2>>, <<1, 2>>, <<0, 2>>, <<2, 0, 1>>, <<3, 3>>}, Offs <- {-1, 0, 2},
         Size <- 4, BufSize <- 2, Short <- FALSE

-----------------------------------------------------------------------------
\* Threads and what they share.
Thread == INSTANCE WinThread
    WITH Created <- {"t1", "t2"}, RwThreads <- {"t1", "t2", "t3"}, MaxLocks <- 2,
         Consumers <- {"c1", "c2", "c3"}, SignalsInRow <- FALSE, BroadcastRaces <- FALSE,
         MaxWakes <- 3, MaxTimeouts <- 2,
         BarrierThreads <- {"t1", "t2", "t3"}, SerialDestroys <- FALSE, Rounds <- 3

-----------------------------------------------------------------------------
Init ==
    /\ kind \in Kinds
    /\ \/ kind = "loop" /\ WinLoop!Init
       \/ kind = "loops" /\ WinLoop!TableInit
       \/ kind = "tcp" /\ Tcp!Init
       \/ kind = "server" /\ Server!Init
       \/ kind = "udp" /\ Udp!Init
       \/ kind = "poll" /\ Poll!Init
       \/ kind = "pipe" /\ Pipe!Init
       \/ kind = "pipe server" /\ PipeServer!Init
       \/ kind = "pipe thread" /\ PipeThread!Init
       \/ kind = "ipc" /\ PipeThread!IpcInit
       \/ kind = "signal" /\ Signal!Init
       \/ kind = "fs event" /\ FsEvent!Init
       \/ kind = "process" /\ Process!Init
       \/ kind = "fs request" /\ FsRequest!Init
       \/ kind = "fs" /\ FsOps!Init
       \/ kind = "links" /\ FsOps!LinkInit
       \/ kind = "transfer" /\ FsOps!TransferInit
       \/ kind = "thread" /\ Thread!OnceInit
       \/ kind = "rwlock" /\ Thread!RwInit
       \/ kind = "cond" /\ Thread!CondInit
       \/ kind = "barrier" /\ Thread!BarrierInit
       \/ /\ os = 0 /\ run = 0 /\ hist = 0
          /\ \/ kind = "args" /\ Process!LineInit
             \/ kind = "env" /\ Process!EnvInit
             \/ kind = "search" /\ Process!SearchInit

\* The parts that may come to rest; the others must not block their threads.
MayStop == Kinds \ {"thread", "rwlock", "barrier", "fs", "transfer"}

Next ==
    /\ \/ kind = "loop" /\ WinLoop!Next
       \/ kind = "loops" /\ WinLoop!TableNext
       \/ kind = "tcp" /\ Tcp!Next
       \/ kind = "server" /\ Server!Next
       \/ kind = "udp" /\ Udp!Next
       \/ kind = "poll" /\ Poll!Next
       \/ kind = "pipe" /\ Pipe!Next
       \/ kind = "pipe server" /\ PipeServer!Next
       \/ kind = "pipe thread" /\ PipeThread!Next
       \/ kind = "ipc" /\ PipeThread!IpcNext
       \/ kind = "signal" /\ Signal!Next
       \/ kind = "fs event" /\ FsEvent!Next
       \/ kind = "process" /\ Process!Next
       \/ kind = "fs request" /\ FsRequest!Next
       \/ kind = "fs" /\ FsOps!Next
       \/ kind = "links" /\ FsOps!LinkNext
       \/ kind = "transfer" /\ FsOps!TransferNext
       \/ kind = "thread" /\ Thread!OnceNext
       \/ kind = "rwlock" /\ Thread!RwNext
       \/ kind = "cond" /\ Thread!CondNext
       \/ kind = "barrier" /\ Thread!BarrierNext
       \/ /\ UNCHANGED <<os, run, hist>>
          /\ \/ kind = "args" /\ Process!LineNext
             \/ kind = "env" /\ Process!EnvNext
             \/ kind = "search" /\ Process!SearchNext
       \/ kind \in MayStop /\ UNCHANGED <<s, os, run, hist>>
    /\ UNCHANGED kind

\* The thread of the loop goes on ...
LoopThread ==
    /\ \/ kind = "loop" /\ WinLoop!LoopStep
       \/ kind = "tcp" /\ Tcp!LoopStep
       \/ kind = "server" /\ Server!LoopStep
       \/ kind = "udp" /\ Udp!LoopStep
       \/ kind = "poll" /\ Poll!LoopStep
       \/ kind = "pipe" /\ Pipe!LoopStep
       \/ kind = "pipe server" /\ PipeServer!LoopStep
       \/ kind = "pipe thread" /\ PipeThread!LoopStep
       \/ kind = "signal" /\ Signal!LoopStep
       \/ kind = "fs event" /\ FsEvent!LoopStep
       \/ kind = "process" /\ Process!LoopStep
    /\ UNCHANGED kind

\* ... and so do other threads, the system and the clock.
OtherThreads ==
    /\ \/ kind = "loop" /\ (WinLoop!ThreadStep \/ WinLoop!Tick)
       \/ kind = "tcp" /\ Tcp!KernelStep
       \/ kind = "server" /\ Server!KernelStep
       \/ kind = "udp" /\ Udp!KernelStep
       \/ kind = "poll" /\ Poll!KernelStep
       \/ kind = "pipe" /\ Pipe!KernelStep
       \/ kind = "pipe server" /\ PipeServer!KernelStep
       \/ kind = "pipe thread" /\ PipeThread!KernelStep
       \/ kind = "signal" /\ Signal!KernelStep
       \/ kind = "process" /\ Process!KernelStep
    /\ UNCHANGED kind

Spec == Init /\ [][Next]_vars /\ WF_vars(LoopThread) /\ WF_vars(OtherThreads)

-----------------------------------------------------------------------------
\* The variables have the types of the part that runs.
TypeOK ==
    CASE kind = "loop" -> WinLoop!TypeOK
      [] kind = "loops" -> WinLoop!TableTypeOK
      [] kind = "tcp" -> Tcp!TypeOK
      [] kind = "server" -> Server!TypeOK
      [] kind = "udp" -> Udp!TypeOK
      [] kind = "poll" -> Poll!TypeOK
      [] kind = "pipe" -> Pipe!TypeOK
      [] kind = "pipe server" -> PipeServer!TypeOK
      [] kind = "pipe thread" -> PipeThread!TypeOK
      [] kind = "ipc" -> PipeThread!IpcTypeOK
      [] kind = "signal" -> Signal!TypeOK
      [] kind = "fs event" -> FsEvent!TypeOK
      [] kind = "process" -> Process!TypeOK
      [] kind = "fs request" -> FsRequest!TypeOK
      [] kind = "fs" -> FsOps!TypeOK
      [] kind = "transfer" -> FsOps!TransferTypeOK
      [] kind = "thread" -> Thread!OnceTypeOK
      [] kind = "rwlock" -> Thread!RwTypeOK
      [] kind = "cond" -> Thread!CondTypeOK
      [] kind = "barrier" -> Thread!BarrierTypeOK
      [] kind = "args" -> Process!LineTypeOK
      [] kind = "env" -> Process!EnvTypeOK
      [] kind = "search" -> Process!SearchTypeOK
      [] kind = "links" -> FsOps!LinkTypeOK

\* What decides when a handle may end and when uv_run returns is counted exactly, over the
\* paths of start, stop, close and completion that the constants leave in.  reqs_pending is
\* the number of requests that the kernel, the port, a thread or the list of the loop has,
\* each in one place, and a request that exists once is not under way twice:
\* uv_insert_pending_req would corrupt its list.  active_handles, activecnt, active_reqs
\* and ctrl_handler_refs count what they stand for; the table of loops holds the open
\* loops, each once.  The code does queue a request twice, or counts wrongly, on the paths
\* that are left out: reading started again before a read that failed at once was told
\* (RestartFailed; tcp.c:549, udp.c), a second listen (ListenAgain, ListenTwice), watching
\* started again while the last request is under way, or stopped by its callback
\* (RestartPending, StopInCallback); and uv_accept after an error has ended the listening
\* meets the assertion at tcp.c:403 (AcceptAfterError).
CountsExact ==
    CASE kind = "loop" -> TypeOK /\ WinLoop!RequestOnce /\ WinLoop!CountExact /\ WinLoop!RunsUntilDead
      [] kind = "loops" -> TypeOK /\ WinLoop!TableExact /\ WinLoop!WakesAll
      [] kind = "tcp" -> TypeOK /\ Tcp!ReqsExact /\ Tcp!ReadOnce /\ Tcp!ActiveExact
      [] kind = "server" -> TypeOK /\ Server!AcceptsOnce /\ Server!ListeningActive /\ Server!OneAccept
      [] kind = "udp" -> TypeOK /\ Udp!ReqsExact /\ Udp!RecvOnce
      [] kind = "poll" -> TypeOK /\ Poll!SubmittedExact
      [] kind = "pipe" -> TypeOK /\ Pipe!ReqsExact /\ Pipe!RequestOnce
      [] kind = "pipe server" -> TypeOK /\ PipeServer!InstancesOnce
      [] kind = "signal" -> TypeOK /\ Signal!PostedOnce /\ Signal!HookedExact
      [] kind = "fs event" -> TypeOK /\ FsEvent!WatchOnce
      [] kind = "fs request" -> TypeOK /\ FsRequest!RegisteredExact
      [] OTHER -> TypeOK

\* What is closed, ended or failed is quiet.  The close callback comes once, and then
\* nothing of the handle is left in the kernel, in the port or in the loop.  What it owned
\* is not open any more, with two exceptions, which are stated exactly: the sockets that a
\* TCP server has accepted and the program has not (tcp.c:264), and the accept_reqs of a
\* pipe whose bind failed (pipe.c:463), are lost.  Whatever call fails, no handle made for a
\* child, no memory of a request and no directory entry is left behind; and until then the
\* path of a request, the names of a watched directory and the handle through which a thread
\* is cancelled are alive.  Left out, because the code loses something there: a pipe that
\* the connect thread or uv_pipe_open cannot set up (SetupFails; pipe.c:608), a close while
\* a pipe connects or before it is bound (CloseConnecting, CloseUnbound), a shutdown that
\* ends while a thread reads (ShutdownReading), a watched directory that vanishes
\* (OpenFails), and uv_fs_access without W_OK, whose mode overwrites the flag that the path
\* is to be freed (AccessModes; fs.c:2403).
ClosedQuiet ==
    CASE kind = "loop" -> WinLoop!EndgameOnce
      [] kind = "tcp" -> Tcp!ClosedQuiet
      [] kind = "server" -> Server!FreedIdle
      [] kind = "udp" -> Udp!ClosedQuiet
      [] kind = "poll" -> Poll!PollFreed
      [] kind = "pipe" -> Pipe!PipeFreed
      [] kind = "pipe server" -> PipeServer!InstancesFreed
      [] kind = "pipe thread" -> PipeThread!HandleOpen /\ PipeThread!MutexAlive
      [] kind = "fs event" -> FsEvent!NamesAlive
      [] kind = "process" -> Process!ExitNeverLate /\ Process!NoChildHandles
      [] kind = "fs request" -> FsRequest!NothingLost /\ FsRequest!PathAlive
      [] kind = "fs" -> FsOps!NothingLeft
      [] OTHER -> TRUE

\* While the program reads, receives, listens or watches, the call that notices the next
\* data, connection or change is under way.
StaysArmed ==
    CASE kind = "tcp" -> Tcp!ReadingArmed
      [] kind = "udp" -> Udp!ReceivingArmed
      [] kind = "server" -> Server!KeepsAccepting
      [] kind = "fs event" -> FsEvent!KeepsWatching
      [] OTHER -> TRUE

\* A callback is told only what the program wants at that time, although the completion
\* was under way when it stopped, changed its interest or paused; a pass over the watchers
\* calls each one that stays active, once; no timer fires before its time, however large
\* the time-out; a refused send does not end the receiving of a UDP handle.  A paused pipe
\* has no thread in ReadFile if DuplicateHandle gave the loop a handle to cancel it with:
\* where that fails it has one (Duplicates; pipe.c:963), and a shutdown takes the means to
\* pause away.  A signal that comes between the closing of its handle and the endgame meets
\* the assertion at signal.c:351 and is left out (CloseRaces).
CallbackWanted ==
    /\ [](CASE kind = "loop" -> WinLoop!PassComplete /\ WinLoop!TimersNeverEarly
            [] kind = "tcp" -> Tcp!ReadWanted
            [] kind = "poll" -> Poll!PollWanted
            [] kind = "pipe thread" -> PipeThread!PausedQuiet
            [] kind = "signal" -> Signal!NeverLate
            [] OTHER -> TRUE)
    /\ [][kind = "udp" /\ s.reading /\ ~s'.reading /\ run.pc = "reqs" =>
             ~("recv" \in os.failed /\ os.why = "reset") \/ hist'.calls > hist.calls]_vars

\* Data arrives as it was sent.  A TCP connection is not shut down before its writes, a
\* pipe that is not overlapped has one writing thread, and its eof timer runs only beside a
\* read and closes nothing over data that has arrived; a pipe that carries sockets is taken
\* apart into the frames that were written, with its sockets in order, none both given away
\* and closed, and the preallocated header request serves one write at a time; file
\* transfers tell how many bytes moved, and these are the first.  The allocated header
\* requests are freed but for those whose own write failed, which are lost (pipe.c:1328,
\* 1336).  A socket sent without data, a write whose header is out and whose data fails
\* (BareFrames, DataFails) and a transfer that stops short between buffers (Short) break
\* this and are left out.
DataInOrder ==
    CASE kind = "tcp" -> Tcp!FinLast
      [] kind = "pipe" -> Pipe!OneWriter /\ Pipe!TimerBesideRead /\ Pipe!TimerLosesNothing
      [] kind = "ipc" -> PipeThread!FramesAligned /\ PipeThread!SocketsInOrder /\ PipeThread!HeaderRequests
      [] kind = "transfer" -> FsOps!TransferExact /\ FsOps!SendExact
      [] OTHER -> TRUE

\* What is computed in several passes or calls is right, and fits where it is put: the
\* command line of a child, which its run-time library takes apart again; its environment,
\* sorted and merged with the required variables; the files that are tried for it, in
\* order; the text of links, read back; and the result of a file operation, which is what
\* happened to the file, with the flags of uv_fs_open, links told from what looks like one
\* and no directory deleted by uv_fs_unlink.  Left out, because they break this: a child
\* without any argument, whose command line has no end (MinArgs; process.c:572), a PATH
\* entry that is one quote (LoneQuotes), a call that fails after another changed the file
\* (LateFailures), a file that moves while its path is asked for (Moves).
ResultTold ==
    CASE kind = "args" -> Process!ArgsArrive /\ Process!LineFits
      [] kind = "env" -> Process!EnvMerged /\ Process!EnvFits
      [] kind = "search" -> /\ Process!SearchesInOrder /\ Process!AbsoluteNames
                            /\ Process!SlicesInside
      [] kind = "links" -> FsOps!LinksReadBack /\ FsOps!NamesFit
      [] kind = "fs" -> /\ FsOps!ResultTold /\ FsOps!UnlinkSafe /\ FsOps!LinksTold
                        /\ FsOps!OpenExact /\ FsOps!EntriesFit
      [] OTHER -> TRUE

\* What thread.c builds from events, semaphores and critical sections keeps its promise:
\* uv_once runs its callback once, before any thread returns from it, and uv_thread_self
\* tells a thread the handle its creator has; a writer is alone, and the semaphore of a
\* read-write lock is free when nobody has it; no wakeup of a condition variable is lost
\* and no broadcast stays behind; no thread leaves a barrier before all have come, and one
\* of them is the serial one.  This is every interleaving but three.  A signal that comes
\* while an event of the condition variable is still set is lost with it, since the event
\* of a signal resets itself, or leaves the broadcast behind (SignalsInRow); so does a
\* broadcast that meets waiters which have just woken up or timed out and are still
\* counted (BroadcastRaces), against the comment at thread.c:523; and the serial thread may
\* not destroy the barrier when it returns (SerialDestroys).
ThreadsSafe ==
    CASE kind = "thread" -> Thread!OnceExact /\ Thread!SelfTold
      [] kind = "rwlock" -> Thread!WriterAlone /\ Thread!SemaphoreExact
      [] kind = "cond" -> Thread!NoLostWakeup /\ Thread!BroadcastReset
      [] kind = "barrier" -> Thread!LeavesTogether /\ Thread!OneSerial /\ Thread!AliveInside
      [] OTHER -> TRUE

Owed ==
    CASE kind = "loop" -> WinLoop!LoopOwes
      [] kind = "tcp" -> Tcp!Owes
      [] kind \in {"server", "udp", "poll", "pipe server"} -> s.closing /\ ~s.closed
      [] kind = "pipe" -> Pipe!PipeOwes
      [] kind = "pipe thread" -> PipeThread!ThreadOwes
      [] kind = "signal" -> \E h \in DOMAIN s : Signal!SignalOwes(h)
      [] kind = "fs event" -> FsEvent!WatchOwes
      [] kind = "process" -> Process!ProcessOwes
      [] OTHER -> FALSE
PollOwed == kind = "poll" /\ Poll!PollOwes

\* What the loop, the kernel or a thread owes the program it gives: close callbacks, sends
\* of async handles, shutdowns, signals, changes and exits; and what is ready and wanted
\* is reported by a poll handle, or the watching ends with an error.  Stopping and closing
\* a pipe with a reading thread come to their end if the thread has not started, or
\* resumed, after the pause of the close (StartsLate), and if the other end answers a
\* thread that nothing can interrupt, because it started after a shutdown had destroyed
\* the mutex (PeerSilent): otherwise they hang.
Answered == (Owed ~> ~Owed) /\ (PollOwed ~> ~PollOwed)
=============================================================================
