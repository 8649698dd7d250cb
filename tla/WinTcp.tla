-------------------------------- MODULE WinTcp --------------------------------
(***************************************************************************)
(* A TCP connection of the Windows port (win/tcp.c, win/stream.c): connect *)
(* or import, overlapped zero-byte reads followed by reads that do not     *)
(* wait, writes, shutdown in the endgame, and close.                       *)
(***************************************************************************)
EXTENDS WinHandle

CONSTANTS Writes,          \* write requests
          Ways,            \* how the socket completes: <<"plain" | "bypass" | "emulate", shared>>
          RestartFailed,   \* reading may be restarted while a failed read is pending
          MaxTcpCalls, MaxData   \* bounds

Requests == Writes \cup {"read", "connect"}

Init ==
    /\ \E way \in Ways :
         s = HandleInit @@
             [way |-> way[1], shared |-> way[2], socket |-> "none", bound |-> FALSE,
              delayed |-> FALSE, conn |-> FALSE, readable |-> FALSE, writable |-> FALSE,
              reading |-> FALSE, readPending |-> FALSE, writes |-> 0, queued |-> {},
              shutdown |-> FALSE]
    /\ os = [iocp |-> <<>>, flight |-> {}, failed |-> {}, data |-> 0, eof |-> FALSE,
             reset |-> FALSE, fin |-> FALSE]
    /\ run = RunInit @@ [req |-> None]
    /\ hist = [calls |-> 0, data |-> 0, called |-> {}, twice |-> FALSE, unwanted |-> FALSE]

\* A callback of a request is called: once.
CalledBack(req) ==
    hist' = [hist EXCEPT !.called = @ \cup {req}, !.twice = @ \/ req \in hist.called]

Call == Program /\ hist.calls < MaxTcpCalls /\ hist' = [hist EXCEPT !.calls = @ + 1]

-----------------------------------------------------------------------------
\* uv_tcp_set_socket and uv_tcp_try_bind: some errors are reported later.
Bound(h, inuse) == [h EXCEPT !.socket = "open", !.bound = TRUE, !.delayed = @ \/ inuse]

Bind(inuse) ==
    /\ Call /\ ~s.bound /\ s.way # "emulate"
    /\ s' = Bound(s, inuse)
    /\ UNCHANGED <<os, run>>

\* uv_tcp_import of a connection: only such a socket may be in another port already.
Import ==
    /\ Call /\ s.socket = "none" /\ s.shared
    /\ s' = [Bound(s, FALSE) EXCEPT !.conn = TRUE, !.readable = TRUE, !.writable = TRUE]
    /\ UNCHANGED <<os, run>>

\* uv_tcp_try_connect: an error is returned and no request is left.
Connect(result) ==
    /\ Call /\ ~s.conn /\ ~s.delayed /\ ~s.shared /\ "connect" \notin hist.called
    /\ "connect" \notin s.registered /\ result \in Results
    /\ LET h == IF s.bound THEN s ELSE Bound(s, FALSE)
       IN IF result = "error" THEN s' = h /\ UNCHANGED os
          ELSE /\ s' = Start(Register([h EXCEPT !.reqs = @ + 1], "connect"), "connect", result)
               /\ os' = Started("connect", result)
    /\ UNCHANGED run

\* uv_tcp_queue_read.  READ_PENDING is set only when the call did not fail.
QueueRead(h, result) ==
    Start([h EXCEPT !.reqs = @ + 1, !.readPending = result # "error"], "read", result)

ReadResults ==
    IF os.reset THEN {"error"}
    ELSE IF s.way = "bypass" /\ (os.data > 0 \/ os.eof) THEN {"now"} ELSE {"later"}

\* Mutant of NeedsRead: a read that is pending is not noticed.
NeedsReadAlways(h) == TRUE

NeedsRead(h) == ~h.readPending

\* uv_read_start and uv_tcp_read_start
ReadStart ==
    /\ Call /\ ~s.reading /\ s.readable
    /\ RestartFailed \/ s.readPending
         \/ (Places("read") = 0 /\ ~(os.reset /\ run.back \in {"recv", "readDone"}))
    /\ LET h == IncreaseActive([s EXCEPT !.reading = TRUE])
       IN IF ~NeedsRead(s) THEN s' = h /\ UNCHANGED os
          ELSE \E result \in ReadResults :
                 s' = QueueRead(h, result) /\ os' = Started("read", result)
    /\ UNCHANGED run

\* uv_read_stop: the read that is under way is not cancelled.
ReadStop ==
    /\ Call /\ s.reading
    /\ s' = DecreaseActive([s EXCEPT !.reading = FALSE])
    /\ UNCHANGED <<os, run>>

\* uv_tcp_write: an error is reported later
Write(w, result) ==
    /\ Call /\ s.writable /\ w \notin s.registered \cup hist.called
    /\ result \in Results
    /\ s' = Start(Register([s EXCEPT !.reqs = @ + 1, !.writes = @ + 1,
                      !.queued = IF result = "later" THEN @ \cup {w} ELSE @], w), w, result)
    /\ os' = Started(w, result)
    /\ UNCHANGED run

\* uv_shutdown of stream.c
Shutdown ==
    /\ Call /\ s.writable
    /\ s' = WantEndgame(Register([s EXCEPT !.writable = FALSE, !.shutdown = TRUE,
                                           !.reqs = @ + 1], "shutdown"))
    /\ UNCHANGED <<os, run>>

\* uv_tcp_try_cancel_io works except under a layered provider.
\* uv_tcp_close keeps a shared socket open until its read has come back.
Close ==
    /\ Call
    /\ \E cancelled \in IF s.readPending /\ s.shared THEN BOOLEAN ELSE {FALSE} :
         LET quiet == IF s.reading THEN DecreaseActive([s EXCEPT !.reading = FALSE]) ELSE s
             h == HandleClosing([quiet EXCEPT !.readable = FALSE, !.writable = FALSE,
                                   !.socket = IF cancelled THEN @ ELSE "closed"])
         IN /\ s' = IF s.reqs = 0 THEN WantEndgame(h) ELSE h
            /\ os' = [os EXCEPT !.failed = @ \cup os.flight,
                        !.fin = @ \/ (s.readPending /\ ~s.shared)]
    /\ UNCHANGED run

-----------------------------------------------------------------------------
\* The peer, and the kernel: an operation ends, or is aborted with its socket.
Peer ==
    \/ /\ ~os.eof /\ ~os.reset /\ s.conn /\ hist.data < MaxData
       /\ os' = [os EXCEPT !.data = @ + 1] /\ hist' = [hist EXCEPT !.data = @ + 1]
       /\ UNCHANGED <<s, run>>
    \/ /\ ~os.eof /\ s.conn /\ ~os.reset
       /\ \/ os' = [os EXCEPT !.eof = TRUE]
          \/ os' = [os EXCEPT !.reset = TRUE, !.data = 0, !.failed = @ \cup os.flight]
       /\ UNCHANGED <<s, run, hist>>

Complete(req) ==
    /\ req \in os.flight
    /\ req = "read" => os.data > 0 \/ os.eof \/ req \in os.failed
    /\ \E fails \in IF req = "connect" THEN BOOLEAN ELSE {req \in os.failed} :
         os' = [os EXCEPT !.flight = @ \ {req}, !.iocp = Append(@, req),
                          !.failed = IF fails THEN @ \cup {req} ELSE @]
    /\ UNCHANGED <<s, run, hist>>

-----------------------------------------------------------------------------
\* uv_process_tcp_connect_req
ProcessConnect ==
    /\ Req("connect")
    /\ LET h == Unregister(s, "connect")
       IN s' = IF "connect" \in os.failed \/ s.socket # "open" THEN h
               ELSE [h EXCEPT !.conn = TRUE, !.readable = TRUE, !.writable = TRUE]
    /\ run' = [Taken EXCEPT !.pc = "cb", !.back = "reqDone"]
    /\ CalledBack("connect")
    /\ UNCHANGED os

ReqDone ==
    /\ run.pc = "reqDone"
    /\ s' = DecreasePending(s)
    /\ run' = [run EXCEPT !.pc = "reqs"]
    /\ UNCHANGED <<os, hist>>

\* uv_process_tcp_write_req up to the callback
ProcessWrite(w) ==
    /\ Req(w)
    /\ s' = Unregister([s EXCEPT !.queued = @ \ {w}], w)
    /\ run' = [Taken EXCEPT !.pc = "cb", !.back = "writeDone"]
    /\ CalledBack(w)
    /\ UNCHANGED os

\* Mutant of Written: a shutdown that waits for the last write is not continued.
WrittenForgets(h) == DecreasePending([h EXCEPT !.writes = @ - 1])

\* ... and after it: the last write lets a shutdown go on.
Written(h) ==
    LET less == [h EXCEPT !.writes = @ - 1]
    IN DecreasePending(IF h.shutdown /\ less.writes = 0 THEN WantEndgame(less) ELSE less)

WriteDone ==
    /\ run.pc = "writeDone"
    /\ s' = Written(s)
    /\ run' = [run EXCEPT !.pc = "reqs"]
    /\ UNCHANGED <<os, hist>>

\* A read callback: wanted when the program is reading.
ReadCb == hist' = [hist EXCEPT !.unwanted = @ \/ ~s.reading]
StopReading(h) == DecreaseActive([h EXCEPT !.reading = FALSE])

\* uv_process_tcp_read_req: a failed read is reported when the program still reads.
ProcessRead ==
    /\ Req("read")
    /\ IF "read" \in os.failed
       THEN /\ os' = [os EXCEPT !.failed = @ \ {"read"}]
            /\ IF s.reading
               THEN /\ s' = StopReading([s EXCEPT !.readPending = FALSE])
                    /\ run' = [Taken EXCEPT !.pc = "cb", !.back = "reqDone"]
                    /\ ReadCb
               ELSE /\ s' = [s EXCEPT !.readPending = FALSE]
                    /\ run' = [Taken EXCEPT !.pc = "reqDone"]
                    /\ UNCHANGED hist
       ELSE /\ s' = [s EXCEPT !.readPending = FALSE]
            /\ run' = [Taken EXCEPT !.pc = "recv"]
            /\ UNCHANGED <<os, hist>>

\* Mutant of MayRecv: the flag is not looked at again after the callback.
MayRecvAlways(h) == ~h.closing

MayRecv(h) == h.reading

\* Reads that do not wait, until the buffer is not filled or reading was stopped.
Recv ==
    /\ run.pc = "recv"
    /\ IF ~MayRecv(s)
       THEN run' = [run EXCEPT !.pc = "readDone"] /\ UNCHANGED <<s, os, hist>>
       ELSE \/ /\ os.data > 0 /\ ~os.reset
               /\ os' = [os EXCEPT !.data = @ - 1]
               /\ \E full \in BOOLEAN : run' = Calling(IF full THEN "recv" ELSE "readDone")
               /\ ReadCb /\ UNCHANGED s
            \/ /\ os.data = 0 /\ (os.eof \/ os.reset)
               /\ s' = StopReading(IF os.eof THEN [s EXCEPT !.readable = FALSE] ELSE s)
               /\ run' = Calling("readDone")
               /\ ReadCb /\ UNCHANGED os
            \/ /\ os.data = 0 /\ ~os.eof /\ ~os.reset
               /\ run' = Calling("readDone")
               /\ ReadCb /\ UNCHANGED <<s, os>>
            \/ /\ hist.calls < MaxTcpCalls  \* alloc_cb gives no buffer
               /\ hist' = [hist EXCEPT !.calls = @ + 1]
               /\ run' = Calling("readDone") /\ UNCHANGED <<s, os>>

\* Another read is posted, unless a callback did it.
ReadDone ==
    /\ run.pc = "readDone"
    /\ IF s.reading /\ NeedsRead(s)
       THEN \E result \in ReadResults :
              /\ s' = DecreasePending(QueueRead(s, result))
              /\ os' = Started("read", result)
       ELSE s' = DecreasePending(s) /\ UNCHANGED os
    /\ run' = [run EXCEPT !.pc = "reqs"]
    /\ UNCHANGED hist

-----------------------------------------------------------------------------
\* Mutant of ShutdownNow: the writes that are queued are not waited for.
ShutdownNowAlways(h) == h.shutdown

ShutdownNow(h) == h.conn /\ h.shutdown /\ h.writes = 0

\* uv_tcp_endgame: first a shutdown, whose callback may close the handle, then the close.
Endgame ==
    /\ run.pc = "endgame"
    /\ LET h == [s EXCEPT !.endgame = FALSE]
       IN IF ShutdownNow(s)
          THEN /\ s' = Unregister(h, "shutdown")
               /\ os' = [os EXCEPT !.fin = @ \/ ~s.closing]
               /\ run' = Calling("shutdownDone")
               /\ CalledBack("shutdown")
          ELSE IF s.closing /\ s.reqs = 0
          THEN /\ s' = HandleClose([h EXCEPT !.socket = "closed"])
               /\ run' = [run EXCEPT !.pc = "idle"]
               /\ CalledBack("close")
               /\ UNCHANGED os
          ELSE s' = h /\ run' = [run EXCEPT !.pc = "idle"] /\ UNCHANGED <<os, hist>>

ShutdownDone ==
    /\ run.pc = "shutdownDone"
    /\ s' = DecreasePending([s EXCEPT !.shutdown = FALSE])
    /\ run' = [run EXCEPT !.pc = IF s'.endgame THEN "endgame" ELSE "idle"]
    /\ UNCHANGED <<os, hist>>

LoopStep ==
    \/ LoopRounds \/ ProcessConnect \/ ReqDone \/ WriteDone \/ ProcessRead \/ Recv \/ ReadDone
    \/ Endgame \/ ShutdownDone \/ \E w \in Writes : ProcessWrite(w)

KernelStep == \E req \in os.flight : Complete(req)

Next ==
    \/ \E inuse \in BOOLEAN : Bind(inuse)
    \/ Import \/ ReadStart \/ ReadStop \/ Shutdown \/ Close
    \/ \E result \in Results : Connect(result) \/ \E w \in Writes : Write(w, result)
    \/ Peer \/ KernelStep \/ LoopStep

Spec == Init /\ [][Next]_vars /\ WF_vars(LoopStep) /\ WF_vars(KernelStep)

-----------------------------------------------------------------------------
\* The type invariant.
TypeOK ==
    /\ s.socket \in {"none", "open", "closed"} /\ s.registered \subseteq Requests \cup {"shutdown"}
    /\ s.queued \subseteq Writes /\ os.flight \subseteq Requests /\ s.writes >= 0 /\ s.reqs >= 0
    /\ run.pc \in {"idle", "cb", "reqs", "reqDone", "writeDone", "recv", "readDone",
                   "endgame", "shutdownDone"}

\* A request whose handler runs.
Current == One(run.pc \in {"reqDone", "writeDone", "recv", "readDone", "shutdownDone"}
               \/ (run.pc = "cb" /\ run.back # "endgame"))

\* The read request is in one place at most; uv_insert_pending_req asserts that a
\* request is not in the list already.
ReadOnce == Places("read") <= 1

\* reqs_pending is the number of requests under way, in the kernel, in the port, in the
\* loop or with their callback running, so that the endgame comes neither early nor never.
ReqsExact ==
    ~s.closed =>
      s.reqs = Cardinality({req \in Requests : Places(req) > 0}) + Current
                 + One(s.shutdown /\ run.pc # "shutdownDone" /\ run.back # "shutdownDone")

\* The handle is active exactly while it reads or a request is registered.
ActiveExact ==
    /\ s.activecnt = One(s.reading) + Cardinality(s.registered)
    /\ ~s.closing => (s.active <=> s.activecnt > 0)

\* While the program reads, a read is under way, so that data is noticed.
ReadingArmed == s.reading /\ run.pc = "idle" => Places("read") = 1

\* When the close callback runs no request of the handle is anywhere, and each one had
\* its callback, once.
ClosedQuiet ==
    /\ ~hist.twice
    /\ s.closed => s.registered = {} /\ (\A req \in Requests : Places(req) = 0)

\* A read callback is called only while the program reads.
ReadWanted == ~hist.unwanted

\* The connection is not shut down for sending before what was written is sent,
\* unless it is closed.
FinLast == os.fin /\ ~s.closing => s.writes = 0

\* A handle that is closed gets its close callback; a shutdown, too, is answered.
Owes == (s.closing /\ ~s.closed) \/ s.shutdown
Answered == Owes ~> ~Owes
=============================================================================
