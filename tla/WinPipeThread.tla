---------------------------- MODULE WinPipeThread ----------------------------
(***************************************************************************)
(* Reading a pipe that is not overlapped (win/pipe.c): a thread of the     *)
(* system's pool waits in ReadFile for data; the loop's thread interrupts  *)
(* it to stop reading, to close, or only to ask for the pipe's name, which *)
(* would wait for the read otherwise.                                      *)
(***************************************************************************)
EXTENDS Integers, Sequences, SequencesExt, FiniteSets, TLC

CONSTANTS ShutdownReading,  \* uv_shutdown may end while a thread reads
          StartsLate,       \* a thread may start, or resume, between the stop and the closing of the pipe
          Duplicates,       \* whether DuplicateHandle succeeds
          PeerSilent,       \* the other end may stay silent for ever while a thread reads
                            \* that nothing can interrupt
          MaxThreadCalls, MaxThreadData,  \* bounds
          BareFrames,   \* uv_write2 may send a socket without data
          DataFails,    \* the write of the data may fail after its header was written
          ImportFails,  \* whether uv_tcp_import fails
          MaxFrames, MaxFrameBytes        \* bounds

VARIABLES s, os, run, hist

vars == <<s, os, run, hist>>

Init ==
    /\ s = [reading |-> FALSE, pending |-> FALSE, cancelable |-> TRUE, thread |-> FALSE,
            pipe |-> TRUE, reqs |-> 0, closing |-> FALSE, closed |-> FALSE]
    /\ os = [pc |-> "none", handle |-> FALSE, lock |-> "free", alive |-> TRUE, data |-> 0,
             posted |-> FALSE]
    /\ run = [pc |-> "idle", op |-> "none"]
    /\ hist = [calls |-> 0, data |-> 0, dead |-> FALSE, stale |-> FALSE, met |-> FALSE]

\* Taking the mutex: of one that was destroyed anything may come.
Lock ==
    /\ os.lock = "free"
    /\ hist' = [hist EXCEPT !.dead = @ \/ ~os.alive]

-----------------------------------------------------------------------------
Call ==
    /\ run.pc = "idle" /\ ~s.closing /\ hist.calls < MaxThreadCalls
    /\ hist' = [hist EXCEPT !.calls = @ + 1]

\* uv_pipe_queue_read
QueueRead(h) == [h EXCEPT !.pending = TRUE, !.reqs = @ + 1]

ReadStart ==
    /\ Call /\ ~s.reading
    /\ s' = LET h == [s EXCEPT !.reading = TRUE] IN IF s.pending THEN h ELSE QueueRead(h)
    /\ os' = IF s.pending THEN os ELSE [os EXCEPT !.pc = "queued"]
    /\ UNCHANGED run

\* uv__pipe_stop_read and uv__pipe_getname begin with uv__pipe_pause_read.
Pause(op) ==
    /\ Call /\ (op = "stop" => s.reading)
    /\ s' = IF op = "name" THEN s ELSE [s EXCEPT !.reading = FALSE]
    /\ run' = [run EXCEPT !.pc = IF s.cancelable THEN "lock" ELSE "held", !.op = op]
    /\ UNCHANGED os

PauseLock ==
    /\ run.pc = "lock" /\ Lock
    /\ os' = [os EXCEPT !.lock = "main"]
    /\ run' = [run EXCEPT !.pc = "spin"]
    /\ UNCHANGED s

\* The loop reads readfile_thread ...
PauseSpin ==
    /\ run.pc = "spin"
    /\ run' = [run EXCEPT !.pc = IF s.thread THEN "cancel" ELSE "held"]
    /\ UNCHANGED <<s, os, hist>>

\* ... and cancels what that thread waits for.
PauseCancel ==
    /\ run.pc = "cancel"
    /\ os' = IF os.pc = "in" THEN [os EXCEPT !.pc = "aborted"] ELSE os
    /\ run' = [run EXCEPT !.pc = "spin"]
    /\ hist' = [hist EXCEPT !.stale = @ \/ ~os.handle]
    /\ UNCHANGED s

\* What the pause was for is done; uv__pipe_unpause_read.
Unpause ==
    /\ run.pc = "held"
    /\ hist' = [hist EXCEPT !.met = @ \/ (os.pc = "in" /\ s.cancelable)]
    /\ os' = IF s.cancelable THEN [os EXCEPT !.lock = "free"] ELSE os
    /\ run' = [run EXCEPT !.pc = IF run.op = "close" THEN "close" ELSE "idle", !.op = "none"]
    /\ UNCHANGED s

\* The rest of uv_pipe_close
ClosePipe ==
    /\ run.pc = "close"
    /\ s' = [s EXCEPT !.pipe = FALSE, !.closing = TRUE]
    /\ run' = [run EXCEPT !.pc = "idle"]
    /\ UNCHANGED <<os, hist>>

\* uv_pipe_endgame destroys the mutex before it looks why it was called: for a shutdown ...
ShutdownEndgame ==
    /\ Call /\ s.cancelable /\ (os.pc = "none" \/ ShutdownReading)
    /\ s' = [s EXCEPT !.cancelable = FALSE]
    /\ os' = [os EXCEPT !.alive = FALSE]
    /\ UNCHANGED run

\* ... or for the close.
Endgame ==
    /\ run.pc = "idle" /\ s.closing /\ ~s.closed /\ s.reqs = 0
    /\ s' = [s EXCEPT !.cancelable = FALSE, !.closed = TRUE]
    /\ os' = [os EXCEPT !.alive = FALSE]
    /\ UNCHANGED <<run, hist>>

\* uv_process_pipe_read_req
ProcessRead ==
    /\ run.pc = "idle" /\ os.posted
    /\ LET h == [s EXCEPT !.pending = FALSE, !.reqs = @ - 1]
       IN /\ s' = IF s.reading THEN QueueRead(h) ELSE h
          /\ os' = [os EXCEPT !.posted = FALSE, !.pc = IF s.reading THEN "queued" ELSE @,
                              !.data = IF s.reading /\ @ > 0 THEN @ - 1 ELSE @]
    /\ UNCHANGED <<run, hist>>

-----------------------------------------------------------------------------
\* uv_pipe_zero_readfile_thread_proc registers its thread, under the mutex.
ThreadStarts ==
    /\ os.pc = "queued" /\ (run.pc = "close" => StartsLate)
    /\ IF s.cancelable
       THEN Lock /\ \E ok \in Duplicates :
                /\ s' = [s EXCEPT !.thread = ok]
                /\ os' = [os EXCEPT !.pc = "read", !.handle = ok]
       ELSE os' = [os EXCEPT !.pc = "read"] /\ UNCHANGED <<s, hist>>
    /\ UNCHANGED run

\* ReadFile
ThreadReads ==
    /\ os.pc = "read"
    /\ os' = [os EXCEPT !.pc = IF s.pipe THEN "in" ELSE "end"]
    /\ UNCHANGED <<s, run, hist>>

ReadReturns ==
    /\ os.pc = "in" /\ os.data > 0
    /\ os' = [os EXCEPT !.pc = "end"]
    /\ UNCHANGED <<s, run, hist>>

\* The read was cancelled: to stop, or only for a while.
ThreadAborted ==
    /\ os.pc = "aborted"
    /\ IF s.cancelable /\ s.reading
       THEN s' = [s EXCEPT !.thread = FALSE] /\ os' = [os EXCEPT !.pc = "again"]
       ELSE UNCHANGED s /\ os' = [os EXCEPT !.pc = "end"]
    /\ UNCHANGED <<run, hist>>

\* Mutant of ThreadAgain: the mutex is not waited for.
ThreadAgainAtOnce ==
    /\ os.pc = "again"
    /\ s' = [s EXCEPT !.thread = os.handle]
    /\ os' = [os EXCEPT !.pc = "read"]
    /\ UNCHANGED <<run, hist>>

ThreadAgain ==
    /\ os.pc = "again" /\ (run.pc = "close" => StartsLate) /\ Lock
    /\ s' = [s EXCEPT !.thread = os.handle]
    /\ os' = [os EXCEPT !.pc = "read"]
    /\ UNCHANGED run

ThreadEnds ==
    /\ os.pc = "end"
    /\ s' = [s EXCEPT !.thread = IF os.handle THEN FALSE ELSE @]
    /\ os' = [os EXCEPT !.pc = IF os.handle THEN "drop" ELSE "post"]
    /\ UNCHANGED <<run, hist>>

\* The handle of the thread is closed under the mutex.
ThreadDrops ==
    /\ os.pc = "drop" /\ Lock
    /\ os' = [os EXCEPT !.pc = "post", !.handle = FALSE]
    /\ UNCHANGED <<s, run>>

ThreadPosts ==
    /\ os.pc = "post"
    /\ os' = [os EXCEPT !.pc = "none", !.posted = TRUE]
    /\ UNCHANGED <<s, run, hist>>

Arrive ==
    /\ hist.data < MaxThreadData
    /\ os' = [os EXCEPT !.data = @ + 1]
    /\ hist' = [hist EXCEPT !.data = @ + 1]
    /\ UNCHANGED <<s, run>>

\* Nothing can interrupt the thread: it started when a shutdown had destroyed the mutex.
Unregistered == os.pc = "in" /\ ~os.handle

PeerAnswers ==
    /\ Unregistered /\ ~PeerSilent /\ os.data = 0
    /\ os' = [os EXCEPT !.data = 1]
    /\ UNCHANGED <<s, run, hist>>

LoopStep == PauseLock \/ PauseSpin \/ PauseCancel \/ Unpause \/ ClosePipe \/ Endgame \/ ProcessRead

KernelStep ==
    \/ ThreadStarts \/ ThreadReads \/ ReadReturns \/ ThreadAborted \/ ThreadAgain
    \/ ThreadEnds \/ ThreadDrops \/ ThreadPosts \/ PeerAnswers

Next ==
    \/ ReadStart \/ ShutdownEndgame \/ (\E op \in {"stop", "name", "close"} : Pause(op))
    \/ Arrive \/ LoopStep \/ KernelStep

Spec == Init /\ [][Next]_vars /\ WF_vars(LoopStep) /\ WF_vars(KernelStep)

-----------------------------------------------------------------------------
\* The type invariant.
TypeOK ==
    /\ s.reqs \in 0 .. 1 /\ os.lock \in {"free", "main"}
    /\ run.pc \in {"idle", "lock", "spin", "cancel", "held", "close"}
    /\ os.pc \in {"none", "queued", "read", "in", "aborted", "again", "end", "drop", "post"}

\* While the loop's thread has paused the reading, no thread is in ReadFile: any access to
\* the pipe would wait for it.
PausedQuiet == ~hist.met

\* CancelSynchronousIo is called with the handle of a thread that is still open; "only
\* when we hold the mutex lock is it safe to open or close the handle".
HandleOpen == ~hist.stale

\* The mutex is not used after uv_pipe_endgame destroyed it.
MutexAlive == ~hist.dead

ThreadOwes == run.pc # "idle" \/ (s.closing /\ ~s.closed)

-----------------------------------------------------------------------------
(***************************************************************************)
(* Framing on a Windows pipe that passes sockets (win/pipe.c, ipc != 0):   *)
(* the writing end puts a header before the data of each write, and the    *)
(* description of a socket into it; the reading end separates them.  On    *)
(* the wire a header, a description and a byte are one unit each.          *)
(***************************************************************************)
Width == 16     \* remaining_ipc_rawdata_bytes is unsigned

IpcInit ==
    /\ s = [left |-> 0, queue |-> <<>>, closing |-> FALSE, closed |-> FALSE,
            header |-> FALSE, reqs |-> 0, writes |-> 0, active |-> 0]
    /\ os = [wire |-> <<>>, flight |-> <<>>]
    /\ run = [heap |-> 0]
    /\ hist = [frames |-> 0, sent |-> <<>>, got |-> <<>>, given |-> <<>>, lost |-> {},
               sockets |-> <<>>, refused |-> 0, bad |-> FALSE]

-----------------------------------------------------------------------------
(***************************************************************************)
(* The writing end                                                         *)
(***************************************************************************)
Head1(sock, raw) == <<[k |-> "head", sock |-> sock # 0, raw |-> raw]>>

Frame(sock, raw) ==
    Head1(sock, raw) \o (IF sock = 0 THEN <<>> ELSE <<[k |-> "sock", id |-> sock]>>)

Bytes(f, n) == [i \in 1 .. n |-> [k |-> "byte", id |-> <<f, i>>]]

\* The preallocated header request, when it is not in use.
HeaderReq == IF s.header THEN "alloc" ELSE "pre"

Register(h) == [h EXCEPT !.reqs = @ + 1, !.writes = @ + 1, !.active = @ + 1]

\* uv_pipe_write_impl on an ipc pipe: n bytes (-1: no buffer), sock the socket sent or 0.
\* A header whose write fails keeps its request: the preallocated one its type, an
\* allocated one its memory.
Write(sock, n, how) ==
    LET f     == hist.frames + 1
        whole == n < 0
        which == IF whole THEN "data" ELSE HeaderReq
        h     == [s EXCEPT !.header = @ \/ which = "pre"]
    IN /\ hist.frames < MaxFrames /\ (whole => sock # 0)
       /\ CASE how = "no socket" ->   \* uv_tcp_duplicate_socket fails
                 /\ sock # 0 /\ UNCHANGED <<s, os, run>>
                 /\ hist' = [hist EXCEPT !.frames = f]
            [] how = "fails" ->
                 /\ s' = h /\ UNCHANGED os
                 /\ run' = [heap |-> run.heap + (IF which = "alloc" THEN 1 ELSE 0)]
                 /\ hist' = [hist EXCEPT !.frames = f,
                                         !.refused = @ + (IF which = "alloc" THEN 1 ELSE 0)]
            [] how = "ok" ->
                 /\ s' = IF whole THEN Register(h) ELSE Register(Register(h))
                 /\ os' = [wire |-> os.wire \o Frame(sock, n) \o Bytes(f, n),
                           flight |-> os.flight \o <<which>>
                                      \o (IF whole THEN <<>> ELSE <<"data">>)]
                 /\ run' = [heap |-> run.heap + (IF which = "alloc" THEN 1 ELSE 0)]
                 /\ hist' = [hist EXCEPT !.frames = f, !.sent = @ \o Bytes(f, n),
                                         !.sockets = IF sock = 0 THEN @ ELSE Append(@, sock)]
            [] how = "data fails" ->
                 /\ ~whole /\ DataFails
                 /\ s' = Register(h)
                 /\ os' = [wire |-> os.wire \o Frame(sock, n), flight |-> Append(os.flight, which)]
                 /\ run' = [heap |-> run.heap + (IF which = "alloc" THEN 1 ELSE 0)]
                 /\ hist' = [hist EXCEPT !.frames = f,
                                         !.sockets = IF sock = 0 THEN @ ELSE Append(@, sock)]

\* The end of a request: a header's is given back, or freed.
HeaderDone(which) ==
    /\ s' = [s EXCEPT !.header = @ /\ which # "pre",
                      !.reqs = @ - 1, !.writes = @ - 1, !.active = @ - 1]
    /\ run' = [heap |-> run.heap - (IF which = "alloc" THEN 1 ELSE 0)]

\* uv_process_pipe_write_req
ProcessWrite ==
    \E i \in 1 .. Len(os.flight) :
        /\ HeaderDone(os.flight[i])
        /\ os' = [os EXCEPT !.flight = RemoveAt(@, i)]
        /\ UNCHANGED hist

-----------------------------------------------------------------------------
(***************************************************************************)
(* The reading end: r is the wire, the bytes left of the frame, the queue  *)
(* of sockets, what was delivered and whether an assertion failed.         *)
(***************************************************************************)
\* ReadFile into the program's buffer of len bytes.
Deliver(r, avail, len) ==
    LET n == CHOOSE m \in 0 .. Len(r.wire) :
                /\ m <= len /\ m <= avail
                /\ (m = len \/ m = avail \/ m = Len(r.wire))
    IN [r EXCEPT !.wire = SubSeq(@, n + 1, Len(@)), !.left = (@ - n) % Width,
                 !.got = @ \o SubSeq(r.wire, 1, n), !.bad = @ \/ r.left < n]

\* Mutant of Wanted: the read may go past the end of the frame.
WantedAll(r) == Len(r.wire)

\* avail, within the frame
Wanted(r) == IF Len(r.wire) < r.left THEN Len(r.wire) ELSE r.left

\* uv__pipe_insert_pending_socket
Take(r, u) == [r EXCEPT !.queue = Append(@, u.id)]

RECURSIVE ReadLoop(_, _)
\* The loop of uv_process_pipe_read_req
ReadLoop(r, len) ==
    IF r.wire = <<>> THEN r
    ELSE IF r.left > 0 THEN Deliver(r, Wanted(r), len)
    ELSE LET u  == Head(r.wire)
             r1 == [r EXCEPT !.wire = Tail(@)]
             r2 == IF u.sock THEN [Take(r1, Head(r1.wire)) EXCEPT !.wire = Tail(r1.wire)] ELSE r1
         IN IF u.k # "head" THEN [r EXCEPT !.bad = TRUE, !.wire = <<>>]
            ELSE IF u.raw >= 0 THEN ReadLoop([r2 EXCEPT !.left = u.raw], len)
            ELSE Deliver(r2, Len(r.wire), len)

IpcProcessRead ==
    /\ ~s.closing /\ ~hist.bad /\ os.wire # <<>>
    /\ \E len \in 1 .. 2 :
         LET r == ReadLoop([wire |-> os.wire, left |-> s.left, queue |-> s.queue, got |-> hist.got,
                            bad |-> FALSE], len)
         IN /\ s' = [s EXCEPT !.left = r.left, !.queue = r.queue]
            /\ os' = [os EXCEPT !.wire = r.wire]
            /\ hist' = [hist EXCEPT !.got = r.got, !.bad = r.bad]
    /\ UNCHANGED run

\* uv_pipe_accept on an ipc pipe: the item is gone even when the import fails.
Accept ==
    /\ ~s.closing /\ s.queue # <<>>
    /\ s' = [s EXCEPT !.queue = Tail(@)]
    /\ \E fails \in ImportFails :
         hist' = IF fails THEN [hist EXCEPT !.lost = @ \cup {Head(s.queue)}]
                 ELSE [hist EXCEPT !.given = Append(@, Head(s.queue))]
    /\ UNCHANGED <<os, run>>

Close ==
    /\ ~s.closing
    /\ s' = [s EXCEPT !.closing = TRUE]
    /\ UNCHANGED <<os, run, hist>>

\* uv_pipe_endgame materialises the sockets that were not accepted and closes them.
IpcEndgame ==
    /\ s.closing /\ ~s.closed
    /\ s' = [s EXCEPT !.queue = <<>>, !.closed = TRUE]
    /\ hist' = [hist EXCEPT !.lost = @ \cup ToSet(s.queue)]
    /\ UNCHANGED <<os, run>>

IpcNext ==
    \/ \E sock \in 0 .. MaxFrames, how \in {"ok", "no socket", "fails"} \cup (IF DataFails THEN {"data fails"} ELSE {}),
          n \in (IF BareFrames THEN {-1} ELSE {}) \cup 0 .. MaxFrameBytes :
          sock \in {0, hist.frames + 1} /\ Write(sock, n, how)
    \/ ProcessWrite \/ IpcProcessRead \/ Accept \/ Close \/ IpcEndgame

IpcSpec == IpcInit /\ [][IpcNext]_vars

-----------------------------------------------------------------------------
\* The type invariant.
IpcTypeOK ==
    /\ s.left \in 0 .. Width - 1 /\ s.header \in BOOLEAN
    /\ {s.reqs, s.writes, s.active} \subseteq 0 .. 2 * MaxFrames
    /\ os.flight \in Seq({"pre", "alloc", "data"}) /\ run.heap \in 0 .. MaxFrames

\* The reading end never takes data for a header, or a header for data, and counts the
\* bytes of a frame exactly: what it delivers is what was written, in order.
FramesAligned == ~hist.bad /\ IsPrefix(hist.got, hist.sent)

\* Sockets reach the program in the order in which they were sent, and none is both given
\* to it and closed.
SocketsInOrder ==
    /\ IsPrefix(SelectSeq(hist.given, LAMBDA x : x \notin hist.lost), 
                SelectSeq(hist.sockets, LAMBDA x : x \notin hist.lost))
    /\ ToSet(hist.given) \cap hist.lost = {}

\* No two writes share the preallocated header request, it is marked as long as it is in
\* flight, and every allocated one is freed but those whose own write failed.
HeaderRequests ==
    LET of(x) == Cardinality({i \in 1 .. Len(os.flight) : os.flight[i] = x})
    IN /\ of("pre") <= 1 /\ (of("pre") = 1 => s.header)
       /\ run.heap = of("alloc") + hist.refused /\ s.reqs = Len(os.flight)
=============================================================================
