---------------------------- MODULE StreamServer ----------------------------
(***************************************************************************)
(* A listening stream (uv_listen, uv__server_io, uv_accept and             *)
(* uv__emfile_trick of unix/stream.c; uv_tcp_listen, uv_pipe_listen).      *)
(*                                                                         *)
(* Descriptors are counted: os.used of the process's Limit are open, one   *)
(* of them the loop's emfile_fd, and other threads open and close some.    *)
(* run.call is the place in uv__server_io; connection_cb runs between two  *)
(* steps and may call the API.                                             *)
(***************************************************************************)
EXTENDS Naturals, Sequences, SequencesExt, FiniteSets

CONSTANTS Clients,              \* the handles uv_accept is called with
          Limit,                \* RLIMIT_NOFILE
          MaxConns, MaxOthers, MaxErrors, MaxServerCalls,  \* bounds
          Handles, Bytes,       \* the handles sent, and the bytes sent with each
          Chunk,                \* queue_size grows by 8
          MaxForeign, MaxIpcCalls       \* bounds

VARIABLES
    s,      \* the server: its watcher, accepted_fd, UV_CLOSING
    os,     \* connections waiting in the kernel, descriptors in use
    run,    \* the loop and its emfile_fd, the place in uv__server_io
    hist    \* the clients' descriptors, what happened to connections, bounds

vars == <<s, os, run, hist>>

Init ==
    /\ s = [fd |-> FALSE, pevents |-> {}, active |-> FALSE, accepted_fd |-> FALSE,
            delayed_error |-> FALSE, state |-> "open"]
    /\ \E emfile \in BOOLEAN :      \* uv__stream_init
           /\ os = [waiting |-> 0, used |-> IF emfile THEN 1 ELSE 0, others |-> 0]
           /\ run = [call |-> "none", emfile_fd |-> emfile, err |-> "none"]
    /\ hist = [clients |-> {}, failed |-> FALSE, conns |-> 0, errors |-> 0,
               opens |-> 0, calls |-> 0]

IoStart(st) == [st EXCEPT !.pevents = {"in"}]
IoStop(st) == IF st.fd THEN [st EXCEPT !.pevents = {}] ELSE st

Call ==
    /\ run.call \in {"none", "connection_cb"}
    /\ s.state = "open" /\ hist.calls < MaxServerCalls

Called == hist' = [hist EXCEPT !.calls = @ + 1]

Opens(n) == os.used + n <= Limit

-----------------------------------------------------------------------------
\* uv__tcp_bind or uv_pipe_bind; only the former delays EADDRINUSE.
Bind ==
    /\ Call /\ ~s.fd /\ Opens(1)
    /\ \E inUse \in BOOLEAN : s' = [s EXCEPT !.fd = TRUE, !.delayed_error = inUse]
    /\ os' = [os EXCEPT !.used = @ + 1]
    /\ Called /\ UNCHANGED run

\* uv_listen, called once: uv_tcp_listen makes the socket that uv_pipe_listen
\* must have.
Listen ==
    /\ Call /\ ~s.active /\ ~s.delayed_error /\ (s.fd \/ Opens(1))
    /\ s' = [IoStart(s) EXCEPT !.fd = TRUE, !.active = TRUE]
    /\ os' = [os EXCEPT !.used = IF s.fd THEN @ ELSE @ + 1]
    /\ Called /\ UNCHANGED run

\* Mutant of Accept: the watcher is not started again.
AcceptNotArmed(c) ==
    /\ Call /\ s.accepted_fd
    /\ IF c \in hist.clients
       THEN /\ s' = [s EXCEPT !.accepted_fd = FALSE]
            /\ os' = [os EXCEPT !.used = @ - 1]
            /\ hist' = [hist EXCEPT !.calls = @ + 1, !.failed = @ \/ s.pevents = {}]
       ELSE /\ s' = [s EXCEPT !.accepted_fd = FALSE]
            /\ hist' = [hist EXCEPT !.calls = @ + 1, !.clients = @ \cup {c}]
            /\ UNCHANGED os
    /\ UNCHANGED run

\* uv_accept; a client that has a descriptor cannot take another one, and then
\* the watcher is not started again.
Accept(c) ==
    /\ Call /\ s.accepted_fd
    /\ IF c \in hist.clients
       THEN /\ s' = [s EXCEPT !.accepted_fd = FALSE]
            /\ os' = [os EXCEPT !.used = @ - 1]
            /\ hist' = [hist EXCEPT !.calls = @ + 1, !.failed = @ \/ s.pevents = {}]
       ELSE /\ s' = IoStart([s EXCEPT !.accepted_fd = FALSE])
            /\ hist' = [hist EXCEPT !.calls = @ + 1, !.clients = @ \cup {c}]
            /\ UNCHANGED os
    /\ UNCHANGED run

CloseClient(c) ==
    /\ Call /\ c \in hist.clients
    /\ os' = [os EXCEPT !.used = @ - 1]
    /\ hist' = [hist EXCEPT !.calls = @ + 1, !.clients = @ \ {c}]
    /\ UNCHANGED <<s, run>>

\* Mutant of Close: a connection nobody has accepted keeps its descriptor.
CloseLeaks ==
    /\ Call
    /\ s' = [IoStop(s) EXCEPT !.active = FALSE, !.fd = FALSE, !.accepted_fd = FALSE,
                              !.state = "closing"]
    /\ os' = [os EXCEPT !.used = @ - (IF s.fd THEN 1 ELSE 0), !.waiting = 0]
    /\ Called /\ UNCHANGED run

\* uv_close and uv__stream_close
Close ==
    /\ Call
    /\ s' = [IoStop(s) EXCEPT !.active = FALSE, !.fd = FALSE, !.accepted_fd = FALSE,
                              !.state = "closing"]
    /\ os' = [os EXCEPT !.used = @ - (IF s.fd THEN 1 ELSE 0)
                                   - (IF s.accepted_fd THEN 1 ELSE 0),
                        !.waiting = 0]
    /\ Called /\ UNCHANGED run

-----------------------------------------------------------------------------
\* uv__io_poll finds a connection and calls uv__server_io.
ServerIo ==
    /\ run.call = "none" /\ s.fd /\ "in" \in s.pevents /\ os.waiting > 0
    /\ s' = IoStart(s)
    /\ run' = [run EXCEPT !.call = "accept"]
    /\ UNCHANGED <<os, hist>>

\* The while loop ends when connection_cb has closed the server.
ServerClosed ==
    /\ run.call = "accept" /\ ~s.fd
    /\ run' = [run EXCEPT !.call = "none"]
    /\ UNCHANGED <<s, os, hist>>

\* uv__accept succeeds.
Accepted ==
    /\ run.call = "accept" /\ s.fd /\ os.waiting > 0 /\ Opens(1)
    /\ os' = [os EXCEPT !.waiting = @ - 1, !.used = @ + 1]
    /\ s' = [s EXCEPT !.accepted_fd = TRUE]
    /\ run' = [run EXCEPT !.call = "connection_cb", !.err = "none"]
    /\ UNCHANGED hist

\* EAGAIN: there is no connection left.
AcceptAgain ==
    /\ run.call = "accept" /\ s.fd /\ os.waiting = 0
    /\ run' = [run EXCEPT !.call = "none"]
    /\ UNCHANGED <<s, os, hist>>

\* ECONNABORTED is ignored; any other error is reported, and the loop goes on.
AcceptError ==
    /\ run.call = "accept" /\ s.fd /\ os.waiting > 0 /\ hist.errors < MaxErrors
    /\ os' = [os EXCEPT !.waiting = @ - 1]
    /\ hist' = [hist EXCEPT !.errors = @ + 1]
    /\ run' \in {run, [run EXCEPT !.call = "connection_cb", !.err = "error"]}
    /\ UNCHANGED s

\* EMFILE without a spare descriptor is reported, and the loop goes on.
NoSpare ==
    /\ run.call = "accept" /\ s.fd /\ os.waiting > 0 /\ ~Opens(1) /\ ~run.emfile_fd
    /\ run' = [run EXCEPT !.call = "connection_cb", !.err = "emfile"]
    /\ UNCHANGED <<s, os, hist>>

\* Mutant of TrickStarts: the spare descriptor is not used.
TrickNotPlayed ==
    /\ run.call = "accept" /\ s.fd /\ os.waiting > 0 /\ ~Opens(1) /\ run.emfile_fd
    /\ run' = [run EXCEPT !.call = "connection_cb", !.err = "emfile"]
    /\ UNCHANGED <<s, os, hist>>

\* uv__emfile_trick closes the spare descriptor...
TrickStarts ==
    /\ run.call = "accept" /\ s.fd /\ os.waiting > 0 /\ ~Opens(1) /\ run.emfile_fd
    /\ os' = [os EXCEPT !.used = @ - 1]
    /\ run' = [run EXCEPT !.call = "trick", !.emfile_fd = FALSE]
    /\ UNCHANGED <<s, hist>>

\* ...accepts and closes every connection...
TrickAccepts ==
    /\ run.call = "trick" /\ os.waiting > 0 /\ Opens(1)
    /\ os' = [os EXCEPT !.waiting = @ - 1]
    /\ UNCHANGED <<s, run, hist>>

\* Mutant of TrickEnds: the spare descriptor is not opened again.
TrickEndsWithoutSpare ==
    /\ run.call = "trick" /\ (os.waiting = 0 \/ ~Opens(1))
    /\ run' = [run EXCEPT !.call = IF os.waiting = 0 THEN "none" ELSE "connection_cb",
                          !.err = IF os.waiting = 0 THEN "none" ELSE "emfile"]
    /\ UNCHANGED <<s, os, hist>>

\* ...until it says EAGAIN, or EMFILE when another thread was faster, and opens
\* the spare descriptor again.
TrickEnds ==
    /\ run.call = "trick" /\ (os.waiting = 0 \/ ~Opens(1))
    /\ os' = [os EXCEPT !.used = IF Opens(1) THEN @ + 1 ELSE @]
    /\ run' = [run EXCEPT !.call = IF os.waiting = 0 THEN "none" ELSE "connection_cb",
                          !.err = IF os.waiting = 0 THEN "none" ELSE "emfile",
                          !.emfile_fd = Opens(1)]
    /\ UNCHANGED <<s, hist>>

\* Mutant of ConnectionCbReturns: the loop accepts the next connection although
\* the program has not accepted the last one.
ConnectionCbReturnsUnchecked ==
    /\ run.call = "connection_cb"
    /\ run' = [run EXCEPT !.call = "accept", !.err = "none"]
    /\ UNCHANGED <<s, os, hist>>

\* The program has not called uv_accept: no more connections are taken.
ConnectionCbReturns ==
    /\ run.call = "connection_cb"
    /\ IF s.accepted_fd
       THEN s' = IoStop(s) /\ run' = [run EXCEPT !.call = "none", !.err = "none"]
       ELSE run' = [run EXCEPT !.call = "accept", !.err = "none"] /\ UNCHANGED s
    /\ UNCHANGED <<os, hist>>

FinishClose ==
    /\ run.call = "none" /\ s.state = "closing"
    /\ s' = [s EXCEPT !.state = "closed"]
    /\ UNCHANGED <<os, run, hist>>

-----------------------------------------------------------------------------
ClientConnects ==
    /\ s.fd /\ s.active /\ hist.conns < MaxConns
    /\ os' = [os EXCEPT !.waiting = @ + 1]
    /\ hist' = [hist EXCEPT !.conns = @ + 1]
    /\ UNCHANGED <<s, run>>

\* Other threads open and close descriptors at any time.
OtherOpens ==
    /\ Opens(1) /\ hist.opens < MaxOthers
    /\ os' = [os EXCEPT !.used = @ + 1, !.others = @ + 1]
    /\ hist' = [hist EXCEPT !.opens = @ + 1]
    /\ UNCHANGED <<s, run>>

OtherCloses ==
    /\ os.others > 0
    /\ os' = [os EXCEPT !.used = @ - 1, !.others = @ - 1]
    /\ UNCHANGED <<s, run, hist>>

UserCall ==
    \/ Bind \/ Listen \/ Close
    \/ \E c \in Clients : Accept(c) \/ CloseClient(c)

LoopStep ==
    \/ ServerIo \/ ServerClosed \/ Accepted \/ AcceptAgain \/ AcceptError \/ NoSpare
    \/ TrickStarts \/ TrickAccepts \/ TrickEnds \/ ConnectionCbReturns \/ FinishClose

Next == UserCall \/ LoopStep \/ ClientConnects \/ OtherOpens \/ OtherCloses

Spec == Init /\ [][Next]_vars

\* uv_run goes on and connection_cb returns.
FairSpec == Spec /\ WF_vars(LoopStep)

-----------------------------------------------------------------------------
\* The type invariant; uv__accept is called only when no descriptor is held.
TypeOK ==
    /\ s.fd \in BOOLEAN /\ s.active \in BOOLEAN /\ s.pevents \subseteq {"in"}
    /\ s.accepted_fd \in BOOLEAN /\ s.state \in {"open", "closing", "closed"}
    /\ os.waiting \in 0..MaxConns /\ os.used \in 0..Limit
    /\ run.call \in {"none", "accept", "trick", "connection_cb"}
    /\ run.call \in {"accept", "trick"} => ~s.accepted_fd

B(p) == IF p THEN 1 ELSE 0

\* Every open descriptor has an owner: the server, the spare one, a connection
\* that waits for uv_accept, a client or another thread.  None is lost when
\* uv_accept fails, the trick is played or the server is closed.
DescriptorsOwned ==
    os.used = B(s.fd) + B(run.emfile_fd) + B(s.accepted_fd) + os.others
              + Cardinality(hist.clients)

\* An open server that listens and holds no descriptor waits for connections,
\* unless a uv_accept outside connection_cb has failed.
ListeningStaysArmed ==
    s.active /\ ~s.accepted_fd => "in" \in s.pevents \/ hist.failed

\* When no other thread opens descriptors, the spare one is back after every
\* uv__emfile_trick.
SpareBack ==
    run.call = "trick" /\ run'.call # "trick" => run'.emfile_fd \/ os.others > 0

ConnectionsWait == os.waiting > 0 /\ "in" \in s.pevents

NoneWaits ==
    \/ os.waiting = 0 \/ s.accepted_fd \/ s.pevents = {}
    \/ ~Opens(1) /\ ~run.emfile_fd

-----------------------------------------------------------------------------
(***************************************************************************)
(* Descriptors sent over a pipe (unix/stream.c, pipe.c): uv_write2 with a  *)
(* send_handle on one end; uv__stream_recv_cmsg, uv__stream_queue_fd,      *)
(* uv_accept and uv_pipe_pending_count on the other.                       *)
(*                                                                         *)
(* s holds both ends.  A message in os.channel is the sequence of          *)
(* descriptors in it; its bytes matter only to the sender, which may write *)
(* a request in parts.  The receiver's descriptors are numbered as they    *)
(* arrive.                                                                 *)
(***************************************************************************)
IpcInit ==
    /\ s = [write_queue |-> <<>>, closed |-> {}, accepted_fd |-> 0, queued_fds |-> <<>>,
            size |-> 0, open |-> TRUE]
    /\ os = [channel |-> <<>>]
    /\ run = [call |-> "none"]
    /\ hist = [written |-> {}, sent |-> <<>>, split |-> {}, received |-> 0,
               given |-> <<>>, dropped |-> {}, foreign |-> 0, calls |-> 0]

IpcCall == run.call \in {"none", "read_cb"} /\ hist.calls < MaxIpcCalls
IpcCalled == [hist EXCEPT !.calls = @ + 1]

-----------------------------------------------------------------------------
\* uv_write2 with a send_handle that has a descriptor.
UvWrite2(h) ==
    /\ IpcCall /\ h \notin hist.written /\ h \notin s.closed
    /\ s' = [s EXCEPT !.write_queue = Append(@, [handle |-> h, left |-> Bytes[h]])]
    /\ hist' = [IpcCalled EXCEPT !.written = @ \cup {h}]
    /\ UNCHANGED <<os, run>>

\* The program closes a handle it has sent or is about to send.
CloseHandle(h) ==
    /\ IpcCall /\ h \notin s.closed
    /\ s' = [s EXCEPT !.closed = @ \cup {h}]
    /\ hist' = IpcCalled
    /\ UNCHANGED <<os, run>>

\* The queue when n bytes of its head are written.
Rest(q, n) ==
    IF n = Head(q).left THEN Tail(q) ELSE <<[Head(q) EXCEPT !.left = @ - n]>> \o Tail(q)

\* uv__write: sendmsg() takes the descriptor the handle has now, with all or
\* part of the bytes; without a descriptor the request fails.
SendMsg ==
    /\ s.write_queue # <<>>
    /\ LET w == Head(s.write_queue)
       IN \/ /\ w.handle \in s.closed
             /\ s' = [s EXCEPT !.write_queue = Tail(@)]
             /\ UNCHANGED <<os, hist>>
          \/ /\ w.handle \notin s.closed
             /\ \E n \in 1..w.left :
                    /\ s' = [s EXCEPT !.write_queue = Rest(@, n)]
                    /\ hist' = [hist EXCEPT !.sent = Append(@, w.handle),
                                            !.split = IF n = w.left THEN @
                                                      ELSE @ \cup {w.handle}]
             /\ os' = [os EXCEPT !.channel = Append(@, <<w.handle>>)]
    /\ UNCHANGED run

\* Another program sends two descriptors in one message.
ForeignSend ==
    /\ hist.foreign < MaxForeign
    /\ os' = [os EXCEPT !.channel = Append(@, <<"foreign", "foreign">>)]
    /\ hist' = [hist EXCEPT !.foreign = @ + 1]
    /\ UNCHANGED <<s, run>>

-----------------------------------------------------------------------------

\* uv__stream_queue_fd, when it has the memory.
QueueFd(st, fd) ==
    [st EXCEPT !.queued_fds = Append(@, fd),
               !.size = IF @ = Len(st.queued_fds) THEN @ + Chunk ELSE @]

\* uv__stream_recv_cmsg takes the descriptors fds, and queues those after the
\* first one it can hold; without memory it closes the rest.
RecvCmsg(st, fds, mem) ==
    FoldLeft(LAMBDA r, fd :
                 IF r.failed THEN [r EXCEPT !.closed = @ \cup {fd}]
                 ELSE IF r.st.accepted_fd = 0 THEN [r EXCEPT !.st.accepted_fd = fd]
                 ELSE IF ~mem /\ r.st.size = Len(r.st.queued_fds)
                      THEN [r EXCEPT !.failed = TRUE, !.closed = @ \cup {fd}]
                 ELSE [r EXCEPT !.st = QueueFd(@, fd)],
             [st |-> st, closed |-> {}, failed |-> FALSE], fds)

\* uv__read of one message, up to read_cb; the kernel numbers its descriptors.
Read ==
    /\ s.open /\ run.call = "none" /\ os.channel # <<>>
    /\ \E mem \in BOOLEAN :
           LET n == Len(Head(os.channel))
               r == RecvCmsg(s, [i \in 1..n |-> hist.received + i], mem)
           IN /\ s' = r.st
              /\ hist' = [hist EXCEPT !.received = @ + n, !.dropped = @ \cup r.closed]
    /\ os' = [os EXCEPT !.channel = Tail(@)]
    /\ run' = [run EXCEPT !.call = "read_cb"]

ReadCbReturns ==
    /\ run.call = "read_cb"
    /\ run' = [run EXCEPT !.call = "none"]
    /\ UNCHANGED <<s, os, hist>>

\* The end of uv_accept: the first queued descriptor is next.
NextFd(st) ==
    IF st.queued_fds = <<>> THEN [st EXCEPT !.accepted_fd = 0]
    ELSE [st EXCEPT !.accepted_fd = Head(st.queued_fds),
                    !.queued_fds = Tail(st.queued_fds),
                    !.size = IF Len(st.queued_fds) = 1 THEN 0 ELSE @]

\* uv_accept; when the client cannot take the descriptor it is closed.
IpcAccept ==
    /\ IpcCall /\ s.open /\ s.accepted_fd # 0
    /\ s' = NextFd(s)
    /\ \/ hist' = [IpcCalled EXCEPT !.given = Append(@, s.accepted_fd)]
       \/ hist' = [IpcCalled EXCEPT !.dropped = @ \cup {s.accepted_fd}]
    /\ UNCHANGED <<os, run>>

Held == (IF s.accepted_fd = 0 THEN <<>> ELSE <<s.accepted_fd>>) \o s.queued_fds

\* Mutant of IpcClose: the queued descriptors stay open.
CloseKeepsQueued ==
    /\ IpcCall /\ s.open
    /\ s' = [s EXCEPT !.open = FALSE, !.accepted_fd = 0, !.queued_fds = <<>>, !.size = 0]
    /\ hist' = [IpcCalled EXCEPT !.dropped = @ \cup ({s.accepted_fd} \ {0})]
    /\ UNCHANGED <<os, run>>

\* uv_close of the receiving pipe closes all the descriptors it holds.
IpcClose ==
    /\ IpcCall /\ s.open
    /\ s' = [s EXCEPT !.open = FALSE, !.accepted_fd = 0, !.queued_fds = <<>>, !.size = 0]
    /\ hist' = [IpcCalled EXCEPT !.dropped = @ \cup ToSet(Held)]
    /\ UNCHANGED <<os, run>>

IpcNext ==
    \/ \E h \in Handles : UvWrite2(h) \/ CloseHandle(h)
    \/ SendMsg \/ ForeignSend \/ Read \/ ReadCbReturns \/ IpcAccept \/ IpcClose

IpcSpec == IpcInit /\ [][IpcNext]_vars

-----------------------------------------------------------------------------
\* uv_pipe_pending_count
PendingCount ==
    IF s.accepted_fd = 0 THEN 0
    ELSE IF s.queued_fds = <<>> THEN 1 ELSE Len(s.queued_fds) + 1

\* The type invariant; the queue fits its allocation, and a queue without
\* descriptors has none.
IpcTypeOK ==
    /\ s.accepted_fd \in 0..hist.received /\ s.size \in Nat
    /\ Len(s.queued_fds) <= s.size /\ (s.queued_fds = <<>> <=> s.size = 0)
    /\ run.call \in {"none", "read_cb"}

\* Every descriptor that has arrived is held, in the order of arrival, after
\* those given to the program, or was closed; uv_pipe_pending_count says how
\* many are held.
FdsInOrder ==
    /\ \A i, j \in DOMAIN (hist.given \o Held) :
           i < j => (hist.given \o Held)[i] < (hist.given \o Held)[j]
    /\ ToSet(hist.given \o Held) \cup hist.dropped = 1..hist.received
    /\ ToSet(hist.given \o Held) \cap hist.dropped = {}
    /\ PendingCount = hist.received - Len(hist.given) - Cardinality(hist.dropped)

\* A handle is sent once with its request, in the order of the requests, and
\* twice only when its request was written in parts.
SentOnce ==
    \A i, j \in DOMAIN hist.sent :
        i < j /\ hist.sent[i] = hist.sent[j] =>
            hist.sent[i] \in hist.split /\ \A k \in i..j : hist.sent[k] = hist.sent[i]
=============================================================================
