------------------------------- MODULE Stream -------------------------------
(***************************************************************************)
(* The client side of a stream (unix/stream.c, tcp.c, pipe.c): connecting, *)
(* the write queue, reading, shutting down and closing, with the I/O       *)
(* callback uv__stream_io.                                                 *)
(*                                                                         *)
(* s is the handle.  A C function that only changes the handle is an       *)
(* operator from its state to its state, so a sequence of calls is a       *)
(* composition.  run.phase is where uv_run is, run.call where the handle's *)
(* code is; between two steps runs a callback of the program, which may    *)
(* call the API.  The program reads and writes only on a stream that is    *)
(* connecting or connected, gives every request a callback, and calls      *)
(* nothing from alloc_cb.                                                  *)
(***************************************************************************)
EXTENDS Naturals, Sequences, FiniteSets, SequencesExt, FiniteSetsExt

CONSTANTS Types,                \* which of "tcp" and "pipe" the handle may be
          Reqs, Size,           \* the write requests and what they write
          BufLen,               \* what alloc_cb provides
          ReadMax,              \* the initial count of uv__read, 32
          RetryConnect,         \* the program connects again after a failure
          HasSoError,           \* getsockopt(SO_ERROR) is there: not in a build for
                                \* NuttX or TizenRT
          MaxCalls, MaxData, MaxFills, MaxNoMem   \* bounds

VARIABLES
    s,      \* the uv_stream_t; flags also holds UV_CLOSING and UV_CLOSED
    os,     \* the kernel's side of the connection
    run,    \* the loop, and the place in the handle's code
    hist    \* history: the writes whose callback is outstanding, in order,
            \* and what the bounds count

vars == <<s, os, run, hist>>

Events == {"in", "out", "err", "hup"}

Init ==
    /\ s \in [type : Types, fd : {FALSE}, flags : {{}}, pevents : {{}},
              pending : {"init"}, active : {FALSE}, connect_req : {FALSE},
              shutdown_req : {FALSE}, delayed_error : {FALSE}, write_queue : {<<>>},
              write_completed_queue : {<<>>}, write_queue_size : {0}]
    /\ os = [conn |-> "no", full |-> FALSE, rx |-> 0, peer |-> "open"]
    /\ run = [phase |-> "pending", call |-> "none", events |-> {}, count |-> 0,
              after |-> "none", error |-> FALSE, active_reqs |-> 0]
    /\ hist = [order |-> <<>>, nomem |-> 0, calls |-> 0, data |-> 0, fills |-> 0]

-----------------------------------------------------------------------------
IoStart(st, evs) == [st EXCEPT !.pevents = @ \cup evs]

\* uv__io_stop does nothing when the descriptor is gone.
IoStop(st, evs) == IF st.fd THEN [st EXCEPT !.pevents = @ \ evs] ELSE st

IoFeed(st) == [st EXCEPT !.pending = IF @ = "init" THEN "linked" ELSE @]

\* uv__io_close; QUEUE_REMOVE leaves the links of the removed node as they are.
IoClose(st) == [IoStop(st, {"in", "out"}) EXCEPT
                    !.pending = IF @ = "linked" THEN "stale" ELSE @]

SetFlags(st, f) == [st EXCEPT !.flags = @ \cup f]
ClearFlags(st, f) == [st EXCEPT !.flags = @ \ f]

\* The handle stops unless the watcher still asks for ev.
StopUnless(st, ev) == [st EXCEPT !.active = @ /\ ev \in st.pevents]

WritesOf(q) == [i \in DOMAIN q |-> q[i].id]
Bytes(q) == FoldSeq(LAMBDA w, n : w.left + n, 0, q)

\* Mutant of WriteReqFinish: nothing makes the loop call the callback.
WriteReqFinishNotFed(st, left) ==
    [st EXCEPT !.write_queue = Tail(@),
               !.write_completed_queue =
                   Append(@, [id |-> Head(st.write_queue).id, left |-> left])]

\* uv__write_req_finish, for the head of the queue with what is left of it.
WriteReqFinish(st, left) ==
    IoFeed([st EXCEPT !.write_queue = Tail(@),
                      !.write_completed_queue =
                          Append(@, [id |-> Head(st.write_queue).id, left |-> left])])

\* Mutant of WriteFailed: a stream that is read stops with it.
WriteFailedStops(st) ==
    [IoStop(WriteReqFinish(st, Head(st.write_queue).left), {"out"}) EXCEPT !.active = FALSE]

\* The error branch of uv__write.
WriteFailed(st) ==
    StopUnless(IoStop(WriteReqFinish(st, Head(st.write_queue).left), {"out"}), "in")

\* A write fails for good when the connection is not there or broken, or after
\* shutdown().
Broken == os.conn \in {"no", "failed"} \/ os.peer = "reset"

Wrote(st, full) == [s |-> st, full |-> full]

(***************************************************************************)
(* What uv__write may leave: a failed request, all or part of a request    *)
(* written, or nothing written because the kernel's buffer is full.        *)
(***************************************************************************)
Write(st) ==
    IF st.write_queue = <<>> THEN {Wrote(st, os.full)}
    ELSE LET h == Head(st.write_queue)
             Take(n) == [st EXCEPT !.write_queue_size = @ - n,
                                   !.write_queue[1].left = @ - n]
         IN IF Broken \/ "shut" \in st.flags
            THEN {Wrote(WriteFailed(st), os.full)}
            ELSE IF os.full /\ h.left > 0 THEN {Wrote(IoStart(st, {"out"}), TRUE)}
            ELSE {Wrote(IoStart(Take(n), {"out"}), TRUE) : n \in 0..(h.left - 1)}
                 \cup {Wrote(WriteReqFinish(Take(h.left), 0), os.full)}

\* The kernel's side of a uv__write that left w; its buffer fills up.
KernelWrote(w) ==
    /\ os' = [os EXCEPT !.full = w.full]
    /\ w.full # os.full => hist.fills < MaxFills

Fills(w) == IF w.full # os.full THEN hist.fills + 1 ELSE hist.fills

FlushWriteQueue(st) ==
    [st EXCEPT !.write_queue = <<>>, !.write_completed_queue = @ \o st.write_queue]

\* uv__stream_eof up to read_cb.
StreamEof(st) == StopUnless(IoStop(SetFlags(st, {"read_eof"}), {"in"}), "out")

UvReadStop(st) ==
    IF "reading" \notin st.flags THEN st
    ELSE StopUnless(IoStop(ClearFlags(st, {"reading"}), {"in"}), "out")

\* uv__stream_close, under uv__tcp_close and uv__pipe_close.
StreamClose(st) ==
    [UvReadStop(IoClose(st)) EXCEPT !.active = FALSE, !.fd = FALSE]

-----------------------------------------------------------------------------
\* A call of the API by the program, outside the handle's code or in one of
\* its callbacks.
Call ==
    /\ run.call \in {"none", "connect_cb", "read_cb", "eof_cb", "write_cb", "shutdown_cb"}
    /\ "closing" \notin s.flags /\ hist.calls < MaxCalls

Called == hist' = [hist EXCEPT !.calls = @ + 1]

RW == {"readable", "writable"}

\* uv_tcp_open, uv_pipe_open: a connected descriptor.
Open ==
    /\ Call /\ ~s.fd /\ ~s.connect_req
    /\ s' = [SetFlags(s, RW) EXCEPT !.fd = TRUE]
    /\ os' = [os EXCEPT !.conn = "ok"]
    /\ Called /\ UNCHANGED run

\* uv__tcp_bind; an address in use is reported by the next call.
TcpBind ==
    /\ Call /\ s.type = "tcp" /\ os.conn = "no"
    /\ \E inUse \in BOOLEAN :
           s' = [SetFlags(s, RW) EXCEPT !.fd = TRUE, !.delayed_error = inUse]
    /\ Called /\ UNCHANGED <<os, run>>

\* uv_pipe_bind does not mark the stream readable or writable.
PipeBind ==
    /\ Call /\ s.type = "pipe" /\ ~s.fd /\ ~s.connect_req
    /\ s' = [s EXCEPT !.fd = TRUE]
    /\ Called /\ UNCHANGED <<os, run>>

\* A stream whose connect failed may be connected again.
MayConnect == os.conn = "no" \/ (os.conn = "failed" /\ RetryConnect)

\* Mutant of TcpConnect: the refused connect is not fed to the pending queue,
\* and the error is forgotten.
TcpConnectForgets ==
    /\ Call /\ s.type = "tcp" /\ ~s.connect_req /\ MayConnect
    /\ LET st == [SetFlags(s, RW) EXCEPT !.fd = TRUE, !.delayed_error = FALSE]
           req == IoStart([st EXCEPT !.connect_req = TRUE], {"out"})
       IN \/ \E c \in {"ok", "progress"} :
                 /\ s' = req /\ os' = [os EXCEPT !.conn = c]
                 /\ run' = [run EXCEPT !.active_reqs = @ + 1]
          \/ /\ s' = IoFeed(req) /\ os' = [os EXCEPT !.conn = "no"]
             /\ run' = [run EXCEPT !.active_reqs = @ + 1]
          \/ s' = st /\ os' = [os EXCEPT !.conn = "failed"] /\ UNCHANGED run
    /\ Called

\* uv__tcp_connect: connected, in progress, refused at once (reported from the
\* pending queue), or failed at once (reported to the caller).
TcpConnect ==
    /\ Call /\ s.type = "tcp" /\ ~s.connect_req /\ MayConnect
    /\ LET st == [SetFlags(s, RW) EXCEPT !.fd = TRUE, !.delayed_error = FALSE]
           req == IoStart([st EXCEPT !.connect_req = TRUE], {"out"})
       IN \/ \E c \in {"ok", "progress"} :
                 /\ s' = req /\ os' = [os EXCEPT !.conn = c]
                 /\ run' = [run EXCEPT !.active_reqs = @ + 1]
          \/ /\ s' = IoFeed([req EXCEPT !.delayed_error = TRUE])
             /\ os' = [os EXCEPT !.conn = "failed"]
             /\ run' = [run EXCEPT !.active_reqs = @ + 1]
          \/ s' = st /\ os' = [os EXCEPT !.conn = "failed"] /\ UNCHANGED run
    /\ Called

\* uv_pipe_connect: every error, of socket() or connect(), is delayed.
PipeConnect ==
    /\ Call /\ s.type = "pipe" /\ ~s.connect_req /\ MayConnect
    /\ \/ /\ s' = IoStart([SetFlags(s, IF s.fd THEN {} ELSE RW) EXCEPT
                               !.fd = TRUE, !.connect_req = TRUE,
                               !.delayed_error = FALSE],
                          {"in", "out"})
          /\ os' = [os EXCEPT !.conn = "ok"]
       \/ \E fd \in {s.fd, TRUE} :
              /\ s' = IoFeed([s EXCEPT !.fd = fd, !.connect_req = TRUE,
                                       !.delayed_error = TRUE])
              /\ os' = [os EXCEPT !.conn = "failed"]
    /\ run' = [run EXCEPT !.active_reqs = @ + 1]
    /\ Called

Usable == s.fd /\ (s.connect_req \/ os.conn = "ok")
Outstanding(r) == Contains(hist.order, r)

\* uv_write2: with nothing queued it writes at once.
UvWrite(r) ==
    /\ Call /\ Usable /\ ~Outstanding(r)
    /\ LET st == [s EXCEPT !.write_queue = Append(@, [id |-> r, left |-> Size[r]]),
                           !.write_queue_size = @ + Size[r]]
           new == IF s.connect_req THEN {Wrote(st, os.full)}
                  ELSE IF s.write_queue_size = 0 THEN Write(st)
                  ELSE {Wrote(IoStart(st, {"out"}), os.full)}
       IN \E w \in new :
              /\ s' = w.s /\ KernelWrote(w)
              /\ hist' = [hist EXCEPT !.calls = @ + 1, !.order = Append(@, r),
                                      !.fills = Fills(w)]
    /\ run' = [run EXCEPT !.active_reqs = @ + 1]

\* uv_write2 fails to allocate the buffers of a request it has registered.
UvWriteNoMem ==
    /\ Call /\ Usable /\ hist.nomem < MaxNoMem
    /\ run' = [run EXCEPT !.active_reqs = @ + 1]
    /\ hist' = [hist EXCEPT !.calls = @ + 1, !.nomem = @ + 1]
    /\ UNCHANGED <<s, os>>

\* The second half of uv_try_write: the request leaves the queue it is in, q,
\* and write_queue_size forgets what was not written.
Unqueue(st, q) ==
    LET NotTry(w) == w.id # "try"
    IN [st EXCEPT !.write_queue = SelectSeq(@, NotTry),
                  !.write_completed_queue = SelectSeq(@, NotTry),
                  !.write_queue_size = @ - Bytes(SelectSeq(q, LAMBDA w : ~NotTry(w)))]

\* POLLOUT is stopped unless it was asked for before.
RestorePollout(st) == IF "out" \in s.pevents THEN st ELSE IoStop(st, {"out"})

\* uv_try_write of n bytes; it registers and unregisters its request.
UvTryWrite(n) ==
    /\ Call /\ Usable /\ ~s.connect_req /\ s.write_queue_size = 0
    /\ LET st == [s EXCEPT !.write_queue = Append(@, [id |-> "try", left |-> n]),
                           !.write_queue_size = n]
       IN \E w \in Write(st) :
              LET un == Unqueue(w.s, w.s.write_queue \o w.s.write_completed_queue)
              IN /\ s' = RestorePollout(un)
                 /\ KernelWrote(w)
                 /\ hist' = [hist EXCEPT !.calls = @ + 1, !.fills = Fills(w)]
    /\ UNCHANGED run

UvShutdown ==
    /\ Call /\ s.fd
    /\ "writable" \in s.flags /\ s.flags \cap {"shut", "shutting"} = {}
    /\ s' = IoStart(SetFlags([s EXCEPT !.shutdown_req = TRUE], {"shutting"}), {"out"})
    /\ run' = [run EXCEPT !.active_reqs = @ + 1]
    /\ Called /\ UNCHANGED os

ReadStart ==
    /\ Call /\ Usable
    /\ s' = [IoStart(SetFlags(s, {"reading"}), {"in"}) EXCEPT !.active = TRUE]
    /\ Called /\ UNCHANGED <<os, run>>

ReadStop ==
    /\ Call /\ "reading" \in s.flags
    /\ s' = UvReadStop(s)
    /\ Called /\ UNCHANGED <<os, run>>

\* Mutant of Close: the watcher stays in the pending queue.
CloseKeepsPending ==
    /\ Call
    /\ s' = [StreamClose(SetFlags(s, {"closing"})) EXCEPT !.pending = s.pending]
    /\ os' = [os EXCEPT !.rx = 0]
    /\ Called /\ UNCHANGED run

\* uv_close; closing the descriptor ends the connection.
Close ==
    /\ Call
    /\ s' = StreamClose(SetFlags(s, {"closing"}))
    /\ os' = [os EXCEPT !.rx = 0]
    /\ Called /\ UNCHANGED run

-----------------------------------------------------------------------------
At(p) == run.phase = p /\ run.call = "none"

\* The handle's code has returned to the loop.
Returned == [run EXCEPT !.call = "none", !.events = {}, !.count = 0, !.after = "none",
                        !.error = FALSE]

\* What uv__stream_connect asks the kernel for; NuttX and TizenRT take 0 for it.
\* A kernel may give 0 or EINPROGRESS for a connection in progress.
SoError ==
    IF ~HasSoError THEN {"0"}
    ELSE CASE os.conn = "failed" -> {"error"}
           [] os.conn = "progress" -> {"0", "EINPROGRESS"}
           [] OTHER -> {"0"}

\* uv__stream_connect up to the callback.
StreamConnect(st, phase) ==
    LET done == [st EXCEPT !.connect_req = FALSE, !.delayed_error = FALSE]
        Finish(error) ==
            /\ s' = IF error \/ st.write_queue = <<>> THEN IoStop(done, {"out"}) ELSE done
            /\ run' = [run EXCEPT !.phase = phase, !.call = "connect_cb", !.error = error,
                                  !.active_reqs = @ - 1]
    IN \E e \in IF st.delayed_error THEN {"error"} ELSE SoError :
           IF e = "EINPROGRESS" THEN s' = st /\ run' = [run EXCEPT !.phase = phase]
           ELSE Finish(e = "error")

\* uv__read starts with no partial read.
ReadEntry(st) == ClearFlags(st, {"read_partial"})

\* uv__stream_io(events), the loop going on with phase.
StreamIo(st, events, phase) ==
    LET Goto(c) == run' = [run EXCEPT !.phase = phase, !.call = c, !.events = events,
                                      !.count = ReadMax]
    IN IF st.connect_req THEN StreamConnect(st, phase)
       ELSE IF events \cap {"in", "err", "hup"} # {}
            THEN s' = ReadEntry(st) /\ Goto("read")
            ELSE s' = st /\ Goto("write")

\* uv__run_pending calls uv__stream_io with POLLOUT.
RunPending ==
    /\ At("pending")
    /\ IF s.pending = "linked" THEN StreamIo([s EXCEPT !.pending = "init"], {"out"}, "poll")
       ELSE run' = [run EXCEPT !.phase = "poll"] /\ UNCHANGED s
    /\ UNCHANGED <<os, hist>>

\* What epoll_wait() reports for the descriptor, whatever was asked for.
Ready ==
    IF os.conn = "progress" THEN {}
    ELSE IF Broken THEN Events
    ELSE (IF os.rx > 0 \/ os.peer # "open" THEN {"in"} ELSE {})
         \cup (IF os.full THEN {} ELSE {"out"})
         \cup (IF os.peer = "gone" \/ (os.peer = "fin" /\ "shut" \in s.flags)
               THEN {"hup"} ELSE {})

\* The events uv__io_poll passes on: an error or a hangup alone stands for
\* what the watcher asks for, too.
Reported ==
    LET e == Ready \cap (s.pevents \cup {"err", "hup"})
    IN IF s.pevents = {} THEN {}
       ELSE IF e \in {{"err"}, {"hup"}} THEN e \cup s.pevents ELSE e

Poll ==
    /\ At("poll")
    /\ IF Reported # {} THEN StreamIo(s, Reported, "closing")
       ELSE run' = [run EXCEPT !.phase = "closing"] /\ UNCHANGED s
    /\ UNCHANGED <<os, hist>>

ConnectCbReturns ==
    /\ run.call = "connect_cb"
    /\ IF s.fd /\ run.error
       THEN /\ s' = FlushWriteQueue(s)
            /\ run' = [run EXCEPT !.call = "callbacks", !.after = "connect"]
       ELSE run' = Returned /\ UNCHANGED s
    /\ UNCHANGED <<os, hist>>

-----------------------------------------------------------------------------
(***************************************************************************)
(* One round of the loop of uv__read up to read_cb.  run.after is what     *)
(* follows the callback.                                                   *)
(***************************************************************************)
ReadCb(st, rx, after) ==
    /\ s' = st
    /\ os' = [os EXCEPT !.rx = rx]
    /\ run' = [run EXCEPT !.call = "read_cb", !.count = @ - 1, !.after = after]

ReadAgain == "reading" \in s.flags /\ run.count > 0

ReadRound ==
    /\ run.call = "read" /\ ReadAgain
    /\ \/ ReadCb(s, os.rx, "return")                        \* UV_ENOBUFS
       \/ /\ os.rx > 0
          /\ LET n == Min({BufLen, os.rx})
             IN ReadCb(s, os.rx - n, IF n < BufLen THEN "partial" ELSE "more")
       \/ /\ os.rx = 0 /\ os.peer = "open" /\ ~Broken       \* EAGAIN
          /\ ReadCb(IoStart(s, {"in"}), 0, "return")
       \/ /\ os.rx = 0 /\ (os.peer # "open" \/ Broken)
          /\ ReadCb(StreamEof(s), 0, "eof")
       \/ os.rx = 0 /\ Broken /\ ReadCb(s, 0, "error")
    /\ UNCHANGED hist

\* Mutant of AfterRead: a callback that closed the stream is not noticed.
AfterReadUnchecked(st) ==
    LET Goto(c) == run' = IF c = "none" THEN Returned ELSE [run EXCEPT !.call = c]
    IN IF run.events \cap {"out", "err", "hup"} # {} THEN s' = st /\ Goto("write")
       ELSE s' = st /\ Goto("none")

\* uv__stream_io after uv__read, and up to the read_cb of uv__stream_eof or to
\* uv__write.
AfterRead(st) ==
    LET Goto(c) == run' = IF c = "none" THEN Returned ELSE [run EXCEPT !.call = c]
    IN IF ~st.fd THEN s' = st /\ Goto("none")
       ELSE IF /\ "hup" \in run.events
               /\ {"reading", "read_partial"} \subseteq st.flags
               /\ "read_eof" \notin st.flags
            THEN s' = StreamEof(st) /\ Goto("eof_cb")
       ELSE IF run.events \cap {"out", "err", "hup"} # {} THEN s' = st /\ Goto("write")
       ELSE s' = st /\ Goto("none")

ReadEnds ==
    /\ run.call = "read" /\ ~ReadAgain
    /\ AfterRead(s)
    /\ UNCHANGED <<os, hist>>

ReadError(st) ==
    IF "reading" \notin st.flags THEN st
    ELSE StopUnless(IoStop(ClearFlags(st, {"reading"}), {"in"}), "out")

ReadCbReturns ==
    /\ run.call = "read_cb"
    /\ CASE run.after = "more" -> run' = [run EXCEPT !.call = "read"] /\ UNCHANGED s
         [] run.after = "partial" -> AfterRead(SetFlags(s, {"read_partial"}))
         [] run.after = "eof" -> AfterRead(ClearFlags(s, {"reading"}))
         [] run.after = "error" -> AfterRead(ReadError(s))
         [] run.after = "return" -> AfterRead(s)
    /\ UNCHANGED <<os, hist>>

EofCbReturns ==
    /\ run.call = "eof_cb"
    /\ s' = ClearFlags(s, {"reading"})
    /\ run' = IF s.fd THEN [run EXCEPT !.call = "write"] ELSE Returned
    /\ UNCHANGED <<os, hist>>

-----------------------------------------------------------------------------
WriteIo ==
    /\ run.call = "write"
    /\ \E w \in Write(s) :
           /\ s' = w.s /\ KernelWrote(w)
           /\ hist' = [hist EXCEPT !.fills = Fills(w)]
    /\ run' = [run EXCEPT !.call = "callbacks", !.after = "drain", !.events = {},
                          !.count = 0]

\* One round of uv__write_callbacks.
WriteCallback ==
    /\ run.call = "callbacks" /\ s.write_completed_queue # <<>>
    /\ LET w == Head(s.write_completed_queue)
       IN /\ s' = [s EXCEPT !.write_completed_queue = Tail(@),
                            !.write_queue_size = @ - w.left]
          /\ hist' = [hist EXCEPT !.order = SelectSeq(@, LAMBDA r : r # w.id)]
    /\ run' = [run EXCEPT !.call = "write_cb", !.active_reqs = @ - 1]
    /\ UNCHANGED os

WriteCbReturns ==
    /\ run.call = "write_cb"
    /\ run' = [run EXCEPT !.call = "callbacks"]
    /\ UNCHANGED <<s, os, hist>>

\* uv__drain
Drain(st) ==
    IF "shutting" \in st.flags /\ st.flags \cap {"closing", "shut"} = {}
    THEN \E shut \in IF Broken THEN {{}} ELSE {{"shut"}} :
             /\ s' = [SetFlags(ClearFlags(IoStop(st, {"out"}), {"shutting"}), shut) EXCEPT
                          !.shutdown_req = FALSE]
             /\ run' = [run EXCEPT !.call = "shutdown_cb", !.active_reqs = @ - 1]
    ELSE s' = IoStop(st, {"out"}) /\ run' = Returned

\* What follows uv__write_callbacks in each of its three callers.
CallbacksDone ==
    /\ run.call = "callbacks" /\ s.write_completed_queue = <<>>
    /\ CASE run.after = "drain" /\ s.write_queue = <<>> -> Drain(s)
         [] run.after = "destroy" /\ s.shutdown_req ->
                /\ s' = [s EXCEPT !.shutdown_req = FALSE]
                /\ run' = [run EXCEPT !.call = "destroy_cb", !.active_reqs = @ - 1]
         [] run.after = "destroy" /\ ~s.shutdown_req ->
                run' = [run EXCEPT !.call = "close_cb"] /\ UNCHANGED s
         [] OTHER -> run' = Returned /\ UNCHANGED s
    /\ UNCHANGED <<os, hist>>

ShutdownCbReturns ==
    /\ run.call = "shutdown_cb"
    /\ run' = Returned
    /\ UNCHANGED <<s, os, hist>>

-----------------------------------------------------------------------------
\* uv__finish_close and uv__stream_destroy up to the first callback.
FinishClose ==
    /\ At("closing") /\ "closing" \in s.flags /\ "closed" \notin s.flags
    /\ LET st == SetFlags(s, {"closed"})
       IN IF s.connect_req
          THEN s' = st /\ run' = [run EXCEPT !.call = "cancel_cb", !.active_reqs = @ - 1]
          ELSE /\ s' = FlushWriteQueue(st)
               /\ run' = [run EXCEPT !.call = "callbacks", !.after = "destroy"]
    /\ UNCHANGED <<os, hist>>

CancelCbReturns ==
    /\ run.call = "cancel_cb"
    /\ s' = FlushWriteQueue([s EXCEPT !.connect_req = FALSE])
    /\ run' = [run EXCEPT !.call = "callbacks", !.after = "destroy"]
    /\ UNCHANGED <<os, hist>>

DestroyCbReturns ==
    /\ run.call = "destroy_cb"
    /\ run' = [run EXCEPT !.call = "close_cb"]
    /\ UNCHANGED <<s, os, hist>>

CloseCbReturns ==
    /\ run.call = "close_cb"
    /\ run' = Returned
    /\ UNCHANGED <<s, os, hist>>

NextIteration ==
    /\ At("closing") /\ "closing" \notin s.flags
    /\ run' = [run EXCEPT !.phase = "pending"]
    /\ UNCHANGED <<s, os, hist>>

-----------------------------------------------------------------------------
\* The peer and the network.
ConnectResolves ==
    /\ s.fd /\ os.conn = "progress"
    /\ \E c \in {"ok", "failed"} : os' = [os EXCEPT !.conn = c]
    /\ UNCHANGED <<s, run, hist>>

PeerSends ==
    /\ s.fd /\ os.conn = "ok" /\ os.peer = "open" /\ hist.data < MaxData
    /\ os' = [os EXCEPT !.rx = @ + 1]
    /\ hist' = [hist EXCEPT !.data = @ + 1]
    /\ UNCHANGED <<s, run>>

\* The peer shuts its side down, closes, or resets, which loses what was sent.
PeerEnds ==
    /\ s.fd /\ os.conn = "ok" /\ os.peer = "open"
    /\ \E p \in {"fin", "gone", "reset"} :
           os' = [os EXCEPT !.peer = p, !.rx = IF p = "reset" THEN 0 ELSE @]
    /\ UNCHANGED <<s, run, hist>>

KernelSends ==
    /\ s.fd /\ os.full
    /\ os' = [os EXCEPT !.full = FALSE]
    /\ UNCHANGED <<s, run, hist>>

UserCall ==
    \/ Open \/ TcpBind \/ PipeBind \/ TcpConnect \/ PipeConnect \/ UvWriteNoMem
    \/ UvShutdown \/ ReadStart \/ ReadStop \/ Close
    \/ \E r \in Reqs : UvWrite(r)
    \/ \E n \in {Size[r] : r \in Reqs} : UvTryWrite(n)

LoopStep ==
    \/ RunPending \/ Poll \/ ConnectCbReturns \/ ReadRound \/ ReadEnds \/ ReadCbReturns
    \/ EofCbReturns \/ WriteIo \/ WriteCallback \/ WriteCbReturns \/ CallbacksDone
    \/ ShutdownCbReturns \/ FinishClose \/ CancelCbReturns \/ DestroyCbReturns
    \/ CloseCbReturns \/ NextIteration

Peer == ConnectResolves \/ KernelSends

Next == UserCall \/ LoopStep \/ Peer \/ PeerSends \/ PeerEnds

Spec == Init /\ [][Next]_vars

\* uv_run goes on and callbacks return; the kernel sends what it was given and
\* decides every connection attempt.
FairSpec == Spec /\ WF_vars(LoopStep) /\ WF_vars(Peer)

-----------------------------------------------------------------------------
\* The type invariant; read() and write() are called with a descriptor.
TypeOK ==
    /\ s.fd \in BOOLEAN /\ s.active \in BOOLEAN /\ s.pevents \subseteq {"in", "out"}
    /\ s.flags \subseteq {"readable", "writable", "reading", "read_partial", "read_eof",
                          "shutting", "shut", "closing", "closed"}
    /\ s.pending \in {"init", "linked", "stale"}
    /\ os.conn \in {"no", "progress", "ok", "failed"}
    /\ os.peer \in {"open", "fin", "gone", "reset"} /\ os.rx \in 0..MaxData
    /\ run.count \in 0..ReadMax /\ run.events \subseteq Events
    /\ run.active_reqs \in Nat /\ s.write_queue_size \in Nat
    /\ run.call = "write" \/ (run.call = "read" /\ ReadAgain) => s.fd

\* The two queues together are the outstanding writes in the order of the calls
\* of uv_write, whatever part of them was written, failed, was cancelled by a
\* failed connect or a close; write_queue_size counts the bytes not written and
\* active_reqs the requests.  Only a request whose buffers could not be
\* allocated stays registered for ever.
WritesInOrder ==
    /\ WritesOf(s.write_completed_queue \o s.write_queue) = hist.order
    /\ s.write_queue_size = Bytes(s.write_queue) + Bytes(s.write_completed_queue)
    /\ run.active_reqs = Len(hist.order) + hist.nomem
                         + (IF s.connect_req /\ run.call # "cancel_cb" THEN 1 ELSE 0)
                         + (IF s.shutdown_req THEN 1 ELSE 0)

\* When the loop is not in the handle's code, every queued write waits for the
\* connection, for POLLOUT or for the pending queue, and every finished one is
\* about to get its callback: none is stranded.
NothingStranded ==
    run.call = "none" /\ "closing" \notin s.flags =>
        /\ s.write_queue # <<>> =>
               s.connect_req \/ "out" \in s.pevents \/ s.pending = "linked"
        /\ s.write_completed_queue # <<>> => s.pending = "linked"
        /\ s.connect_req => "out" \in s.pevents \/ s.pending = "linked"

\* A connect callback with status 0 is called only for a connection that is
\* established.  The builds without HasSoError say so of a failed one, too.
ConnectTruth == run.call = "connect_cb" /\ ~run.error => os.conn = "ok"

AtEof == run.call = "eof_cb" \/ (run.call = "read_cb" /\ run.after = "eof")

\* As long as the program reads, the watcher asks for POLLIN and the handle
\* keeps the loop alive, whatever the writing side stops.
ReadingStaysActive ==
    "reading" \in s.flags /\ ~AtEof => "in" \in s.pevents /\ s.active

\* The assertions of uv__stream_destroy: no event is asked for, and after the
\* callbacks nothing is outstanding; the watcher is in no queue.
DestroyAsserts ==
    "closed" \in s.flags =>
        /\ s.pevents = {} /\ s.pending # "linked" /\ ~s.active
        /\ run.call = "close_cb" => s.write_queue_size = 0 /\ run.active_reqs = hist.nomem

ShutdownWaits ==
    s.shutdown_req /\ "out" \in s.pevents /\ os.conn = "ok" /\ ~s.connect_req

=============================================================================
