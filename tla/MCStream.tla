------------------------------ MODULE MCStream ------------------------------
(***************************************************************************)
(* Instances of the stream modules for TLC: a stream is a client, a server,*)
(* a pipe that carries descriptors or one that is watched with select(),   *)
(* which share the handle, the kernel and the loop's control as state.     *)
(***************************************************************************)
EXTENDS Naturals, TLC

CONSTANTS Types, Reqs, Size, BufLen, ReadMax, RetryConnect, HasSoError,
          MaxCalls, MaxData, MaxFills, MaxNoMem,
          Clients, Limit, MaxConns, MaxOthers, MaxErrors, MaxServerCalls,
          Handles, Chunk, MaxForeign, MaxIpcCalls, MaxSelectCalls, MaxReady,
          r1, r2, c1, c2, h1, h2

VARIABLES kind, s, os, run, hist

vars == <<kind, s, os, run, hist>>

SizeDef == r1 :> 2 @@ r2 :> 1
\* What uv_write2 sends beside each handle
BytesOf == h1 :> 2 @@ h2 :> 1

Client == INSTANCE Stream
Server == INSTANCE StreamServer WITH Bytes <- BytesOf
Select == INSTANCE StreamSelect

Init ==
    \/ kind = "client" /\ Client!Init
    \/ kind = "server" /\ Server!Init
    \/ kind = "ipc" /\ Server!IpcInit
    \/ kind = "select" /\ Select!Init

Next ==
    /\ \/ kind = "client" /\ Client!Next
       \/ kind = "server" /\ Server!Next
       \/ kind = "ipc" /\ Server!IpcNext
       \/ kind = "select" /\ Select!Next
    /\ UNCHANGED kind

\* uv_run goes on, callbacks return, and the kernel sends and connects.
LoopStep ==
    /\ \/ kind = "client" /\ Client!LoopStep
       \/ kind = "server" /\ Server!LoopStep
       \/ kind = "select" /\ Select!Loop
    /\ UNCHANGED kind

\* The kernel, and the thread that calls select().
Peer ==
    /\ \/ kind = "client" /\ Client!Peer
       \/ kind = "select" /\ Select!Thread
    /\ UNCHANGED kind

Spec == Init /\ [][Next]_vars /\ WF_vars(LoopStep) /\ WF_vars(Peer)

-----------------------------------------------------------------------------
\* The variables have the types of the part that runs.
TypeOK ==
    CASE kind = "client" -> Client!TypeOK
      [] kind = "server" -> Server!TypeOK
      [] kind = "ipc" -> Server!IpcTypeOK
      [] kind = "select" -> Select!TypeOK

\* What the program writes leaves in order, once, and is not forgotten.  A client: the
\* queues of uv__write are the outstanding requests in their order, the counters count
\* them, and none is left without a wakeup.  A pipe that carries descriptors: they are
\* accepted in the order in which they were sent, none lost or sent twice, unless the
\* request is written in parts.
OutputInOrder ==
    CASE kind = "client" -> TypeOK /\ Client!WritesInOrder /\ Client!NothingStranded
      [] kind = "ipc" -> TypeOK /\ Server!FdsInOrder /\ Server!SentOnce
      [] OTHER -> TypeOK

\* Every descriptor and every resource has one owner, and is given back once: around
\* uv__server_io and uv_accept; when uv__stream_destroy runs, which finds the watcher
\* stopped and leaves nothing outstanding; when uv__stream_try_select fails.  When
\* uv__stream_close has ended the thread in select() the rule is broken in one way, which
\* is stated as it is: fake_fd is closed twice and the device's descriptor never.
OwnedOnce ==
    CASE kind = "client" -> Client!DestroyAsserts
      [] kind = "server" -> Server!DescriptorsOwned
      [] kind = "select" -> Select!SelectLeaves
      [] OTHER -> TRUE

\* While the program reads or listens the watcher waits for it: POLLIN is not dropped by
\* what the writing side stops, uv__server_io goes on after an error, and the thread in
\* select() watches what the watcher asks for and reads only what is there.
StaysArmed ==
    CASE kind = "client" -> Client!ReadingStaysActive
      [] kind = "server" -> Server!ListeningStaysArmed
      [] kind = "select" -> Select!WatchIsCurrent /\ Select!NeverBlocks
      [] OTHER -> TRUE

\* What the program is told is so: where the kernel has SO_ERROR (HasSoError; a build for
\* NuttX or TizenRT reports every connection as made) uv__stream_connect reports success
\* only for an established connection, UV_EOF comes after all the data, and
\* uv__emfile_trick has its spare descriptor back when it reports.  A second connect after
\* a failed one is left out (RetryConnect): the watcher may still be in the pending queue,
\* and the connection is reported as made while it is in progress (stream.c:1349).
ToldTruth ==
    /\ [](kind = "client" => Client!ConnectTruth)
    /\ [][/\ kind = "client" /\ Client!AtEof' /\ ~Client!AtEof =>
               os.rx = 0 /\ (os.peer # "open" \/ Client!Broken)
          /\ kind = "server" => Server!SpareBack]_vars

\* What the loop owes the program it does: every uv_write gets its callback, and so does
\* a uv_shutdown that waits for POLLOUT on a connection; uv__server_io takes the waiting
\* connections; uv__stream_close, waiting for the thread in select(), returns.
Answered ==
    /\ \A r \in Reqs : kind = "client" /\ Client!Outstanding(r)
                          ~> ~(kind = "client" /\ Client!Outstanding(r))
    /\ kind = "client" /\ Client!ShutdownWaits ~> ~(kind = "client" /\ s.shutdown_req)
    /\ kind = "server" /\ Server!ConnectionsWait ~> kind = "server" /\ Server!NoneWaits
    /\ kind = "select" /\ run.call = "join" ~> ~(kind = "select" /\ run.call = "join")
=============================================================================
