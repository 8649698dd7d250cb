------------------------------- MODULE WinPipe -------------------------------
(***************************************************************************)
(* A named-pipe connection of the Windows port (win/pipe.c): overlapped or *)
(* on threads of the system's pool, with the shutdown that flushes on a    *)
(* thread and then waits for the peer with the eof timer.                  *)
(***************************************************************************)
EXTENDS WinHandle

CONSTANTS PipeWrites,       \* write requests
          PipeWays,         \* of "overlapped", "blocking", "thread"
          CloseConnecting,  \* the program may close while a connect waits on a thread
          SetupFails,       \* uv_set_pipe_handle may fail for a pipe that the connect thread
                            \* opened or that uv_pipe_open duplicated
          MaxPipeCalls, MaxPipeData   \* bounds

Requests == PipeWrites \cup {"read", "connect", "shutdown"}

Init ==
    /\ \E way \in PipeWays :
         s = HandleInit @@
             [way |-> way, handle |-> "none", conn |-> FALSE,
              readable |-> FALSE, writable |-> FALSE, reading |-> FALSE,
              readPending |-> FALSE, writes |-> 0, queue |-> <<>>, shutdown |-> FALSE,
              timer |-> "none"]
    /\ os = [iocp |-> <<>>, flight |-> {}, failed |-> {}, data |-> 0, eof |-> FALSE,
             stale |-> FALSE, leaked |-> FALSE]
    /\ run = RunInit
    /\ hist = [calls |-> 0, data |-> 0, called |-> {}, lost |-> FALSE]

Call == Program /\ hist.calls < MaxPipeCalls /\ hist' = [hist EXCEPT !.calls = @ + 1]
CalledBack(req) == hist' = [hist EXCEPT !.called = @ \cup {req}]

-----------------------------------------------------------------------------
\* uv_set_pipe_handle with the access the handle has
SetPipe(h, access) ==
    [h EXCEPT !.handle = "open", !.readable = "r" \in access, !.writable = "w" \in access]

\* uv_pipe_connection_init
ConnectionInit(h) == [h EXCEPT !.conn = TRUE, !.timer = "none"]

\* uv_pipe_open: when it fails the program has its descriptor as it was; a standard one
\* (0 to 2) is duplicated first, and a later failure leaves the duplicate open.
Open ==
    /\ Call /\ s.handle = "none" /\ "connect" \notin s.registered
    /\ \/ \E access \in {{"r", "w"}, {"w"}} : s' = ConnectionInit(SetPipe(s, access)) /\ UNCHANGED os
       \/ UNCHANGED <<s, os>>
       \/ SetupFails /\ os' = [os EXCEPT !.leaked = TRUE] /\ UNCHANGED s
    /\ UNCHANGED run

\* uv_pipe_connect: at once, with an error, or on a thread while the server is busy.
Connect ==
    /\ Call /\ s.handle = "none" /\ "connect" \notin s.registered \cup hist.called
    /\ LET h == Register([s EXCEPT !.reqs = @ + 1], "connect")
       IN \/ /\ s' = InsertPending(SetPipe(h, {"r", "w"}), "connect")
             /\ UNCHANGED os
          \/ /\ s' = InsertPending(h, "connect")
             /\ os' = [os EXCEPT !.failed = @ \cup {"connect"}]
          \/ /\ s' = h
             /\ os' = [os EXCEPT !.flight = @ \cup {"connect"}]
    /\ UNCHANGED run

\* pipe_connect_thread_proc: the thread writes to the handle before it posts; a pipe it
\* opened and could not set up stays open.
ConnectThread ==
    /\ "connect" \in os.flight
    /\ LET done == [os EXCEPT !.flight = @ \ {"connect"}, !.iocp = Append(@, "connect")]
       IN \/ s' = SetPipe(s, {"r", "w"}) /\ os' = done
          \/ \E leaked \in {FALSE, SetupFails} :
                 /\ os' = [done EXCEPT !.failed = @ \cup {"connect"}, !.leaked = @ \/ leaked]
                 /\ UNCHANGED s
    /\ UNCHANGED <<run, hist>>

\* The timer that waits for the peer's end: eof_timer_start, _stop, _destroy
TimerStart(h) == IF h.timer = "none" THEN h ELSE [h EXCEPT !.timer = "armed"]
TimerStop(h) == IF h.timer = "none" THEN h ELSE [h EXCEPT !.timer = "idle"]
TimerDestroy(h) == [h EXCEPT !.timer = "none"]

\* uv_pipe_queue_read: the timer runs only beside a read that was started.
QueueRead(h, fails) ==
    LET r == [h EXCEPT !.readPending = TRUE, !.reqs = @ + 1]
    IN IF fails THEN InsertPending(r, "read") ELSE TimerStart(r)

Readable == os.data > 0 \/ os.eof

\* An overlapped read begins with a clear status; that of a read on a thread keeps an
\* error for ever.
Queued(fails) ==
    IF fails THEN [os EXCEPT !.failed = @ \cup {"read"}, !.stale = @ \/ s.way = "thread"]
    ELSE IF Readable
    THEN [os EXCEPT !.iocp = Append(@, "read"),
            !.failed = IF os.data = 0 THEN @ \cup {"read"} ELSE @ \ {"read"}]
    ELSE [os EXCEPT !.flight = @ \cup {"read"}, !.failed = @ \ {"read"}]

\* uv_read_start and uv_pipe_read_start
ReadStart ==
    /\ Call /\ s.readable /\ ~s.reading /\ s.conn
    /\ LET h == IncreaseActive([s EXCEPT !.reading = TRUE])
       IN IF s.readPending THEN s' = h /\ UNCHANGED os
          ELSE \E fails \in BOOLEAN : s' = QueueRead(h, fails) /\ os' = Queued(fails)
    /\ UNCHANGED run

\* uv_read_stop; a read on a thread is cancelled and comes back as if it had succeeded.
StopReading(h) == IF h.reading THEN DecreaseActive([h EXCEPT !.reading = FALSE]) ELSE h

Cancelled(o) ==
    IF s.way = "thread" /\ "read" \in o.flight
    THEN [o EXCEPT !.flight = @ \ {"read"}, !.iocp = Append(@, "read")] ELSE o

ReadStop ==
    /\ Call /\ s.reading
    /\ s' = StopReading(s) /\ os' = Cancelled(os)
    /\ UNCHANGED run

-----------------------------------------------------------------------------
\* uv_queue_non_overlapped_write: one thread writes at a time.
WriteNext(h) == IF h.queue = <<>> THEN h ELSE [h EXCEPT !.queue = Tail(@)]
WriteThread(h, o) == IF h.queue = <<>> THEN o ELSE [o EXCEPT !.flight = @ \cup {Head(h.queue)}]

Idle(h) == h.writes = 0

\* uv_pipe_write_impl without framing: an error is returned and leaves no request.
Write(w) ==
    /\ Call /\ s.writable /\ s.conn /\ w \notin s.registered \cup hist.called
    /\ LET h == Register([s EXCEPT !.reqs = @ + 1, !.writes = @ + 1], w)
           q == [h EXCEPT !.queue = Append(@, w)]
       IN \/ UNCHANGED <<s, os>>
          \/ /\ s.way = "overlapped" /\ s' = h
             /\ os' = [os EXCEPT !.flight = @ \cup {w}]
          \/ /\ s.way = "blocking" /\ s' = h
             /\ os' = [os EXCEPT !.iocp = Append(@, w)]
          \/ /\ s.way = "thread"
             /\ IF Idle(s) THEN s' = WriteNext(q) /\ os' = WriteThread(q, os)
                ELSE s' = q /\ UNCHANGED os
    /\ UNCHANGED run

\* uv_shutdown of stream.c
Shutdown ==
    /\ Call /\ s.writable /\ s.conn
    /\ s' = WantEndgame(Register([s EXCEPT !.writable = FALSE, !.shutdown = TRUE,
                                           !.reqs = @ + 1], "shutdown"))
    /\ UNCHANGED <<os, run>>

\* close_pipe: what is under way comes back with an error.
ClosePipe(o) == [o EXCEPT !.failed = @ \cup o.flight]

\* uv_pipe_close with uv_pipe_cleanup
Close ==
    /\ Call /\ (CloseConnecting \/ s.conn \/ "connect" \notin s.registered)
    /\ LET quiet == StopReading(s)
           shut == IF s.conn THEN [TimerDestroy(quiet) EXCEPT !.handle = "closed"] ELSE quiet
           h == IF s.reqs = 0 THEN WantEndgame(shut) ELSE shut
       IN /\ s' = HandleClosing([h EXCEPT !.readable = FALSE, !.writable = FALSE])
          /\ os' = IF s.conn THEN ClosePipe(Cancelled(os)) ELSE os
    /\ UNCHANGED run

-----------------------------------------------------------------------------
\* Data or the end comes from the peer; it completes the read that waits.
Arrive ==
    /\ s.conn /\ s.handle = "open" /\ ~os.eof /\ hist.data < MaxPipeData
    /\ \E last \in BOOLEAN :
         LET o == IF last THEN [os EXCEPT !.eof = TRUE] ELSE [os EXCEPT !.data = @ + 1]
         IN os' = IF "read" \in os.flight
                  THEN [o EXCEPT !.flight = @ \ {"read"}, !.iocp = Append(@, "read"),
                          !.failed = IF last THEN @ \cup {"read"} ELSE @]
                  ELSE o
    /\ hist' = [hist EXCEPT !.data = @ + 1]
    /\ UNCHANGED <<s, run>>

\* A write or a flush ends; a read only when its pipe is closed.
Complete(req) ==
    /\ req \in os.flight \ {"connect"} /\ (req = "read" => req \in os.failed)
    /\ os' = [os EXCEPT !.flight = @ \ {req}, !.iocp = Append(@, req)]
    /\ UNCHANGED <<s, run, hist>>

-----------------------------------------------------------------------------
\* uv_process_pipe_connect_req
ProcessConnect ==
    /\ Req("connect")
    /\ LET h == Unregister(s, "connect")
       IN s' = IF "connect" \in os.failed THEN h ELSE ConnectionInit(h)
    /\ run' = [Taken EXCEPT !.pc = "cb", !.back = "reqDone"]
    /\ CalledBack("connect")
    /\ UNCHANGED os

ReqDone ==
    /\ run.pc = "reqDone"
    /\ s' = DecreasePending(s)
    /\ run' = [run EXCEPT !.pc = "reqs"]
    /\ UNCHANGED <<os, hist>>

\* uv_pipe_read_error_or_eof: reading ends, and with the end of the pipe the readability.
ReadEnds(h, eof) ==
    StopReading(TimerDestroy(IF eof THEN [h EXCEPT !.readable = FALSE] ELSE h))

ReadTaken(h) == TimerStop([h EXCEPT !.readPending = FALSE])

\* uv_process_pipe_read_req up to the callback
ProcessRead ==
    /\ Req("read")
    /\ LET h == ReadTaken(s)
           broken == os.eof /\ os.data = 0
           calling == [Taken EXCEPT !.pc = "cb", !.back = "readDone"]
       IN IF "read" \in os.failed \/ os.stale
          THEN IF s.reading
               THEN s' = ReadEnds(h, os.eof /\ ~os.stale) /\ UNCHANGED os
                    /\ run' = [Taken EXCEPT !.pc = "cb", !.back = "reqDone"]
               ELSE s' = h /\ run' = [Taken EXCEPT !.pc = "reqDone"] /\ UNCHANGED os
          ELSE IF ~s.reading \/ (os.data = 0 /\ ~broken)
          THEN s' = h /\ run' = [Taken EXCEPT !.pc = "readDone"] /\ UNCHANGED os
          ELSE IF broken
          THEN s' = ReadEnds(h, TRUE) /\ run' = calling /\ UNCHANGED os
          ELSE \/ s' = h /\ run' = calling /\ os' = [os EXCEPT !.data = @ - 1]
               \/ s' = ReadEnds(h, FALSE) /\ run' = calling /\ UNCHANGED os  \* ReadFile fails
    /\ UNCHANGED hist

\* Another read, unless a callback started one.
ReadDone ==
    /\ run.pc = "readDone"
    /\ IF s.reading /\ ~s.readPending
       THEN /\ s' = DecreasePending(QueueRead(s, FALSE))
            /\ os' = Queued(FALSE)
       ELSE s' = DecreasePending(s) /\ UNCHANGED os
    /\ run' = [run EXCEPT !.pc = "reqs"]
    /\ UNCHANGED hist

\* uv_process_pipe_write_req up to the callback ...
ProcessWrite(w) ==
    /\ Req(w)
    /\ s' = Unregister(s, w)
    /\ run' = [Taken EXCEPT !.pc = "cb", !.back = "writeDone"]
    /\ CalledBack(w)
    /\ UNCHANGED os

\* ... and after it: the next write starts, and the last one lets a shutdown go on.
WriteDone ==
    /\ run.pc = "writeDone"
    /\ LET h == WriteNext([s EXCEPT !.writes = @ - 1])
       IN s' = DecreasePending(IF s.shutdown /\ h.writes = 0 THEN WantEndgame(h) ELSE h)
    /\ os' = WriteThread(s, os)
    /\ run' = [run EXCEPT !.pc = "reqs"]
    /\ UNCHANGED hist

\* A pipe that is still read waits for the peer, if a read is under way with the timer
\* running; another one is closed.
AfterFlush(h) ==
    IF h.readable THEN [h EXCEPT !.timer = IF h.readPending THEN "armed" ELSE "idle"]
    ELSE [h EXCEPT !.handle = "closed"]

\* uv_process_pipe_shutdown_req
ProcessShutdown ==
    /\ Req("shutdown")
    /\ s' = AfterFlush(Unregister(s, "shutdown"))
    /\ os' = IF s.readable THEN os ELSE ClosePipe(os)
    /\ run' = [Taken EXCEPT !.pc = "cb", !.back = "reqDone"]
    /\ CalledBack("shutdown")

\* Mutant of ReadWaits: a read that has completed but was not processed is not noticed.
ReadWaitsAlways(o) == TRUE

\* HasOverlappedIoCompleted; of a read on a thread it says nothing.
ReadWaits(o) == "read" \in o.flight /\ "read" \notin o.failed

\* eof_timer_cb closes the pipe under the read, and reports the end.
EofTimer ==
    /\ run.pc = "idle" /\ s.timer = "armed"
    /\ \E waits \in IF s.way = "thread" THEN BOOLEAN ELSE {ReadWaits(os)} :
         IF waits
         THEN /\ s' = ReadEnds([s EXCEPT !.handle = "closed"], TRUE)
              /\ os' = ClosePipe(os)
              /\ run' = Calling("idle")
              /\ hist' = [hist EXCEPT !.lost = @ \/ (os.data > 0 /\ s.way # "thread")]
         ELSE s' = TimerStop(s) /\ UNCHANGED <<os, run, hist>>

-----------------------------------------------------------------------------
\* uv_pipe_endgame: a shutdown flushes, at once or on a thread; then the close.
Endgame ==
    /\ run.pc = "endgame"
    /\ LET h == [s EXCEPT !.endgame = FALSE, !.shutdown = FALSE]
           back == [run EXCEPT !.pc = "idle"]
       IN IF s.conn /\ s.shutdown /\ s.writes = 0
          THEN \/ /\ ~s.closing /\ run' = back /\ UNCHANGED hist
                  /\ \/ s' = InsertPending(h, "shutdown") /\ UNCHANGED os
                     \/ s' = h /\ os' = [os EXCEPT !.flight = @ \cup {"shutdown"}]
               \/ /\ s' = Unregister([h EXCEPT !.writable = ~s.closing], "shutdown")
                  /\ run' = Calling("shutdownDone") /\ UNCHANGED os
                  /\ CalledBack("shutdown")
          ELSE /\ s' = IF s.closing /\ s.reqs = 0
                       THEN HandleClose([s EXCEPT !.endgame = FALSE])
                       ELSE [s EXCEPT !.endgame = FALSE]
               /\ run' = back /\ UNCHANGED <<os, hist>>

ShutdownDone ==
    /\ run.pc = "shutdownDone"
    /\ s' = DecreasePending(s)
    /\ run' = [run EXCEPT !.pc = IF s'.endgame THEN "endgame" ELSE "idle"]
    /\ UNCHANGED <<os, hist>>

LoopStep ==
    \/ LoopRounds \/ ProcessConnect \/ ReqDone \/ ProcessRead \/ ReadDone \/ WriteDone
    \/ ProcessShutdown \/ EofTimer \/ Endgame \/ ShutdownDone
    \/ \E w \in PipeWrites : ProcessWrite(w)

KernelStep == ConnectThread \/ \E req \in os.flight : Complete(req)

Next ==
    \/ Open \/ Connect \/ ReadStart \/ ReadStop \/ Shutdown \/ Close
    \/ (\E w \in PipeWrites : Write(w)) \/ Arrive \/ LoopStep \/ KernelStep

Spec == Init /\ [][Next]_vars /\ WF_vars(LoopStep) /\ WF_vars(KernelStep)

-----------------------------------------------------------------------------
\* The type invariant.
TypeOK ==
    /\ s.handle \in {"none", "open", "closed"} /\ s.timer \in {"none", "idle", "armed"}
    /\ s.registered \subseteq Requests /\ os.flight \subseteq Requests
    /\ s.writes >= 0 /\ s.reqs >= 0
    /\ run.pc \in {"idle", "cb", "reqs", "reqDone", "readDone", "writeDone", "endgame",
                   "shutdownDone"}

\* reqs_pending is the number of requests under way, wherever they are.
ReqsExact ==
    ~s.closed =>
      s.reqs = Cardinality({req \in Requests : Places(req) > 0}) + Len(s.queue) + One(s.shutdown)
                 + One(run.pc \in {"reqDone", "readDone", "writeDone", "shutdownDone"}
                       \/ (run.pc = "cb" /\ run.back # "idle"))

\* A request is in one place at most, and the read where READ_PENDING says.
RequestOnce ==
    /\ \A req \in Requests : Places(req) <= 1
    /\ s.readPending <=> Places("read") = 1

\* The eof timer runs only while a read is pending, as eof_timer_cb asserts.
TimerBesideRead == s.timer = "armed" => s.readPending

\* The eof timer does not close the pipe over data that has arrived.
TimerLosesNothing == ~hist.lost

\* At most one thread writes to a pipe that is not overlapped, and a write waits only
\* while another one is under way.
OneWriter ==
    s.way = "thread" =>
      /\ Cardinality(os.flight \cap PipeWrites) <= 1
      /\ s.queue # <<>> => s.writes > Len(s.queue)

\* The pipe is not left open when the handle is closed, nor when it could not be set up.
PipeFreed == (s.closed => s.handle # "open") /\ ~os.leaked

\* A handle that is closed gets its close callback, and a shutdown is answered.
PipeOwes == (s.closing /\ ~s.closed) \/ "shutdown" \in s.registered
=============================================================================
