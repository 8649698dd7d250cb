-------------------------------- MODULE Udp --------------------------------
(***************************************************************************)
(* A UDP handle (unix/udp.c) on its loop: binding, sending and receiving,  *)
(* the I/O callback uv__udp_io, and closing.                               *)
(*                                                                         *)
(* phase is where uv_run is: before uv__run_pending, before uv__io_poll or *)
(* before uv__run_closing_handles.  There other handles' callbacks may     *)
(* call the API, as the handle's own callbacks may.  call is the place in  *)
(* the handle's code; a callback of the program is between two steps.      *)
(* The status and the sizes of the requests are left out; send_queue_size  *)
(* changes where send_queue_count does.                                    *)
(***************************************************************************)
EXTENDS Naturals, Sequences, FiniteSets

CONSTANTS Reqs,               \* the send requests
          NullCb,             \* requests without a send_cb
          RecvMax,            \* the initial count of uv__udp_recvmsg, 32
          BindWhileWatched,   \* uv_udp_bind is also called after uv__io_start
          CloseWithPollout,   \* recv_cb also closes when POLLOUT is to be handled
          MaxCalls, MaxFills  \* bounds

ASSUME UdpAssumption ==
    /\ IsFiniteSet(Reqs) /\ NullCb \subseteq Reqs
    /\ BindWhileWatched \in BOOLEAN /\ CloseWithPollout \in BOOLEAN
    /\ RecvMax \in Nat /\ MaxCalls \in Nat /\ MaxFills \in Nat

VARIABLES
    fd,                 \* io_watcher.fd is not -1
    bound,              \* the socket has an address
    watched,            \* loop->watchers[] has the watcher
    pevents,            \* the events the watcher asks for
    pending,            \* io_watcher.pending_queue: "init", "linked" or "stale"
    recv_cb,            \* recv_cb is not NULL
    active,             \* UV__HANDLE_ACTIVE
    write_queue, write_completed_queue,
    send_queue_count, active_reqs,
    processing,         \* UV_UDP_PROCESSING
    state,              \* "open", "closing" or "closed"
    phase, call,
    pollout,            \* revents of the uv__udp_io that runs has POLLOUT
    count,              \* the local count of uv__udp_recvmsg
    order,              \* history: the sends whose callback is outstanding
    full,               \* the kernel's send buffer
    calls, fills        \* what the bounds count

socketVars == <<fd, bound>>
ioVars == <<watched, pevents, active>>
queueVars == <<write_queue, write_completed_queue, send_queue_count, active_reqs,
               order>>
runVars == <<phase, call, pollout, count>>
vars == <<socketVars, ioVars, pending, recv_cb, queueVars, processing, state,
          runVars, full, calls, fills>>

\* uv_udp_init_ex makes a socket when it is given a domain.
Init ==
    /\ fd \in BOOLEAN /\ bound = FALSE
    /\ watched = FALSE /\ pevents = {} /\ active = FALSE
    /\ pending = "init" /\ recv_cb = FALSE
    /\ write_queue = <<>> /\ write_completed_queue = <<>>
    /\ send_queue_count = 0 /\ active_reqs = 0 /\ order = <<>>
    /\ processing = FALSE /\ state = "open"
    /\ phase = "pending" /\ call = "none" /\ pollout = FALSE /\ count = 0
    /\ full = FALSE /\ calls = 0 /\ fills = 0

\* A call of the API by the program, for a handle that is open.
Call ==
    /\ call \in {"none", "recv_cb", "send_cb"} /\ state = "open"
    /\ calls < MaxCalls /\ calls' = calls + 1

IoStart(ev) == pevents' = pevents \cup {ev} /\ watched' = TRUE

\* uv__io_stop does nothing when the descriptor is gone.
IoStop(evs) ==
    IF ~fd THEN UNCHANGED <<pevents, watched>>
    ELSE pevents' = pevents \ evs /\ watched' = (watched /\ pevents \ evs # {})

\* uv__udp_maybe_deferred_bind, when it succeeds.
DeferredBind == fd' = TRUE /\ bound' = (bound \/ ~fd)

IoFeed == pending' = IF pending = "init" THEN "linked" ELSE pending

(***************************************************************************)
(* uv__udp_sendmsg(q) sends requests from the front of q until sendmsg()   *)
(* says EAGAIN, that is, the kernel's buffer is full.  Without a descriptor*)
(* all of them fail.                                                       *)
(***************************************************************************)
SendMsg(q, open) ==
    \E k \in 0..Len(q) :
        /\ ~open => k = Len(q)
        /\ full => k = 0 \/ ~open
        /\ full' = (full \/ k < Len(q))
        /\ fills' = IF full' = full THEN fills ELSE fills + 1
        /\ fills' <= MaxFills
        /\ write_queue' = SubSeq(q, k + 1, Len(q))
        /\ write_completed_queue' = write_completed_queue \o SubSeq(q, 1, k)
        /\ IF k = 0 THEN UNCHANGED pending ELSE IoFeed

-----------------------------------------------------------------------------
\* uv_udp_open
Open ==
    /\ Call /\ ~fd
    /\ fd' = TRUE /\ bound' \in BOOLEAN
    /\ UNCHANGED <<ioVars, pending, recv_cb, queueVars, processing, state, runVars,
                   full, fills>>

\* uv__udp_bind; binding twice fails, and every failure closes the descriptor.
Bind ==
    /\ Call /\ (watched => BindWhileWatched)
    /\ \/ ~bound /\ fd' = TRUE /\ bound' = TRUE
       \/ fd' = FALSE /\ bound' = FALSE
    /\ UNCHANGED <<ioVars, pending, recv_cb, queueVars, processing, state, runVars,
                   full, fills>>

RecvStart ==
    /\ Call /\ "in" \notin pevents
    /\ DeferredBind
    /\ recv_cb' = TRUE /\ IoStart("in") /\ active' = TRUE
    /\ UNCHANGED <<pending, queueVars, processing, state, runVars, full, fills>>

RecvStop ==
    /\ Call /\ recv_cb
    /\ IoStop({"in"})
    /\ active' = (active /\ "out" \in pevents')
    /\ recv_cb' = FALSE
    /\ UNCHANGED <<socketVars, pending, queueVars, processing, state, runVars, full,
                   fills>>

\* uv_udp_send; with nothing outstanding it sends at once.
Send(r) ==
    /\ Call /\ \A i \in DOMAIN order : order[i] # r
    /\ DeferredBind
    /\ active' = TRUE /\ active_reqs' = active_reqs + 1
    /\ send_queue_count' = send_queue_count + 1
    /\ order' = Append(order, r)
    /\ IF send_queue_count = 0 /\ ~processing
       THEN SendMsg(Append(write_queue, r), TRUE) /\ UNCHANGED <<pevents, watched>>
       ELSE /\ write_queue' = Append(write_queue, r) /\ IoStart("out")
            /\ UNCHANGED <<write_completed_queue, pending, full, fills>>
    /\ UNCHANGED <<recv_cb, processing, state, runVars>>

\* uv_udp_try_send and uv_udp_set_membership leave nothing but the socket.
TrySend ==
    /\ Call /\ send_queue_count = 0 /\ ~fd
    /\ DeferredBind
    /\ UNCHANGED <<ioVars, pending, recv_cb, queueVars, processing, state, runVars,
                   full, fills>>

SetMembership ==
    /\ Call /\ ~fd
    /\ DeferredBind
    /\ UNCHANGED <<ioVars, pending, recv_cb, queueVars, processing, state, runVars,
                   full, fills>>

\* Mutant of Close: the watcher stays in the pending queue.
CloseKeepsPending ==
    /\ Call /\ (call = "recv_cb" /\ pollout => CloseWithPollout)
    /\ IoStop({"in", "out"})
    /\ active' = FALSE /\ fd' = FALSE /\ bound' = FALSE
    /\ state' = "closing"
    /\ UNCHANGED <<pending, recv_cb, queueVars, processing, runVars, full, fills>>

\* uv__udp_close; QUEUE_REMOVE leaves the links of the removed node as they are.
Close ==
    /\ Call /\ (call = "recv_cb" /\ pollout => CloseWithPollout)
    /\ IoStop({"in", "out"})
    /\ pending' = IF pending = "linked" THEN "stale" ELSE pending
    /\ active' = FALSE /\ fd' = FALSE /\ bound' = FALSE
    /\ state' = "closing"
    /\ UNCHANGED <<recv_cb, queueVars, processing, runVars, full, fills>>

-----------------------------------------------------------------------------
At(p) == phase = p /\ call = "none"

\* uv__run_pending calls uv__udp_io with POLLOUT.
RunPending ==
    /\ At("pending")
    /\ phase' = "poll"
    /\ IF pending = "linked" THEN pending' = "init" /\ call' = "send"
                             ELSE UNCHANGED <<pending, call>>
    /\ UNCHANGED <<socketVars, ioVars, recv_cb, queueVars, processing, state,
                   pollout, count, full, calls, fills>>

Writable == fd /\ watched /\ "out" \in pevents /\ ~full
Readable == fd /\ watched /\ "in" \in pevents

\* uv__io_poll reports at most one event for the descriptor.
PollNothing ==
    /\ At("poll") /\ ~Writable
    /\ phase' = "closing"
    /\ UNCHANGED <<socketVars, ioVars, pending, recv_cb, queueVars, processing, state,
                   call, pollout, count, full, calls, fills>>

PollEvent ==
    /\ At("poll")
    /\ \/ Readable /\ call' = "recv"
       \/ Writable /\ call' = "send"
    /\ phase' = "closing" /\ pollout' = Writable /\ count' = RecvMax
    /\ UNCHANGED <<socketVars, ioVars, pending, recv_cb, queueVars, processing, state,
                   full, calls, fills>>

\* One recvmsg() and the recv_cb; after an error or ENOBUFS there is no next one.
RecvMsg ==
    /\ call = "recv"
    /\ call' = "recv_cb"
    /\ count' \in {0, count}
    /\ UNCHANGED <<socketVars, ioVars, pending, recv_cb, queueVars, processing, state,
                   phase, pollout, full, calls, fills>>

\* Mutant of RecvAgain: only the descriptor is looked at.
RecvAgainIfOpen == count > 0 /\ fd

\* recv_cb may have paused or closed the handle.
RecvAgain == count > 0 /\ fd /\ recv_cb

RecvCbReturns ==
    /\ call = "recv_cb"
    /\ IF RecvAgain THEN call' = "recv" /\ count' = count - 1
       ELSE call' = (IF pollout THEN "send" ELSE "none") /\ count' = 0
    /\ UNCHANGED <<socketVars, ioVars, pending, recv_cb, queueVars, processing, state,
                   phase, pollout, full, calls, fills>>

\* The POLLOUT half of uv__udp_io up to the loop of uv__udp_run_completed.
SendIo ==
    /\ call = "send"
    /\ SendMsg(write_queue, fd)
    /\ call' = "completed" /\ processing' = TRUE /\ pollout' = FALSE
    /\ UNCHANGED <<socketVars, ioVars, recv_cb, send_queue_count, active_reqs, order,
                   state, phase, count, calls>>

\* One round of the loop of uv__udp_run_completed.
RunCompleted ==
    /\ call = "completed" /\ write_completed_queue # <<>>
    /\ write_completed_queue' = Tail(write_completed_queue)
    /\ active_reqs' = active_reqs - 1 /\ send_queue_count' = send_queue_count - 1
    /\ \E i \in DOMAIN order :
           /\ order[i] = Head(write_completed_queue)
           /\ order' = SubSeq(order, 1, i - 1) \o SubSeq(order, i + 1, Len(order))
    /\ call' = IF Head(write_completed_queue) \in NullCb THEN call ELSE "send_cb"
    /\ UNCHANGED <<socketVars, ioVars, pending, recv_cb, write_queue, processing,
                   state, phase, pollout, count, full, calls, fills>>

SendCbReturns ==
    /\ call = "send_cb"
    /\ call' = "completed"
    /\ UNCHANGED <<socketVars, ioVars, pending, recv_cb, queueVars, processing, state,
                   phase, pollout, count, full, calls, fills>>

\* The watcher and the handle stop when nothing is left to send.
StopSending ==
    /\ IoStop({"out"})
    /\ active' = (active /\ "in" \in pevents')

\* Mutant of CompletedDone: the watcher is stopped with sends still queued.
CompletedDoneStopsAlways ==
    /\ call = "completed" /\ write_completed_queue = <<>>
    /\ StopSending
    /\ processing' = FALSE
    /\ IF state = "closed" THEN call' = "close_cb" /\ recv_cb' = FALSE
                           ELSE call' = "none" /\ UNCHANGED recv_cb
    /\ UNCHANGED <<socketVars, pending, queueVars, state, phase, pollout, count, full,
                   calls, fills>>

\* The end of uv__udp_run_completed and, for a closed handle, of
\* uv__udp_finish_close, which is followed by close_cb.
CompletedDone ==
    /\ call = "completed" /\ write_completed_queue = <<>>
    /\ IF write_queue = <<>> THEN StopSending ELSE UNCHANGED ioVars
    /\ processing' = FALSE
    /\ IF state = "closed" THEN call' = "close_cb" /\ recv_cb' = FALSE
                           ELSE call' = "none" /\ UNCHANGED recv_cb
    /\ UNCHANGED <<socketVars, pending, queueVars, state, phase, pollout, count, full,
                   calls, fills>>

\* Mutant of FinishClose: cancelled sends overtake the ones that were sent.
FinishCloseOvertakes ==
    /\ At("closing") /\ state = "closing"
    /\ state' = "closed" /\ call' = "completed" /\ processing' = TRUE
    /\ write_queue' = <<>>
    /\ write_completed_queue' = write_queue \o write_completed_queue
    /\ UNCHANGED <<socketVars, ioVars, pending, recv_cb, send_queue_count, active_reqs,
                   order, phase, pollout, count, full, calls, fills>>

\* uv__finish_close: what was not sent is cancelled.
FinishClose ==
    /\ At("closing") /\ state = "closing"
    /\ state' = "closed" /\ call' = "completed" /\ processing' = TRUE
    /\ write_queue' = <<>>
    /\ write_completed_queue' = write_completed_queue \o write_queue
    /\ UNCHANGED <<socketVars, ioVars, pending, recv_cb, send_queue_count, active_reqs,
                   order, phase, pollout, count, full, calls, fills>>

CloseCbReturns ==
    /\ call = "close_cb"
    /\ call' = "none"
    /\ UNCHANGED <<socketVars, ioVars, pending, recv_cb, queueVars, processing, state,
                   phase, pollout, count, full, calls, fills>>

\* The next iteration of uv_run.
NextIteration ==
    /\ At("closing") /\ state = "open"
    /\ phase' = "pending"
    /\ UNCHANGED <<socketVars, ioVars, pending, recv_cb, queueVars, processing, state,
                   call, pollout, count, full, calls, fills>>

\* The kernel has sent what is in the buffer.
Drain ==
    /\ full /\ state = "open"
    /\ full' = FALSE
    /\ UNCHANGED <<socketVars, ioVars, pending, recv_cb, queueVars, processing, state,
                   runVars, calls, fills>>

UserCall ==
    \/ Open \/ Bind \/ RecvStart \/ RecvStop \/ TrySend \/ SetMembership \/ Close
    \/ \E r \in Reqs : Send(r)

LoopStep ==
    \/ RunPending \/ PollNothing \/ PollEvent \/ RecvMsg \/ RecvCbReturns \/ SendIo
    \/ RunCompleted \/ SendCbReturns \/ CompletedDone \/ FinishClose
    \/ CloseCbReturns \/ NextIteration

Next == UserCall \/ LoopStep \/ Drain

Spec == Init /\ [][Next]_vars

\* uv_run goes on, callbacks return and the kernel sends what it was given.
FairSpec == Spec /\ WF_vars(LoopStep) /\ WF_vars(Drain)

-----------------------------------------------------------------------------
\* The type invariant; recv_cb is set whenever uv__udp_recvmsg is entered or
\* goes round again.
TypeOK ==
    /\ fd \in BOOLEAN /\ bound \in BOOLEAN /\ watched \in BOOLEAN /\ active \in BOOLEAN
    /\ pevents \subseteq {"in", "out"} /\ pending \in {"init", "linked", "stale"}
    /\ write_queue \in Seq(Reqs) /\ write_completed_queue \in Seq(Reqs)
    /\ order \in Seq(Reqs)
    /\ send_queue_count \in Nat /\ active_reqs \in Nat
    /\ processing \in BOOLEAN /\ state \in {"open", "closing", "closed"}
    /\ phase \in {"pending", "poll", "closing"}
    /\ call \in {"none", "recv", "recv_cb", "send", "completed", "send_cb", "close_cb"}
    /\ pollout \in BOOLEAN /\ count \in 0..RecvMax /\ full \in BOOLEAN
    /\ calls \in 0..MaxCalls /\ fills \in 0..MaxFills
    /\ recv_cb \in IF call = "recv" THEN {TRUE} ELSE BOOLEAN

\* The two queues together are the outstanding sends in the order of the calls
\* of uv_udp_send, and are what the counters count: the callbacks come in that
\* order, each once, also when a callback sends or the handle is closed.
SendsInOrder ==
    /\ write_completed_queue \o write_queue = order
    /\ send_queue_count = Len(order) /\ active_reqs = Len(order)

\* The watcher asks for what the handle needs.  As long as the program receives,
\* that is POLLIN, and the handle keeps the loop alive, whatever the sending side
\* stops; and uv__udp_finish_close (its assertions) finds that no event is asked
\* for and, after the callbacks, nothing outstanding.
WatcherSound ==
    /\ TypeOK
    /\ state = "open" /\ recv_cb => "in" \in pevents /\ watched /\ active
    /\ state = "closed" => pevents = {} /\ ~watched /\ ~fd
    /\ call = "close_cb" => send_queue_count = 0

\* recv_cb may close the handle: from then on it is not queued for another call
\* of uv__udp_io.
QuietAfterClose == state # "open" => pending # "linked"

Queued(r) == \E i \in DOMAIN write_queue : write_queue[i] = r
Outstanding(r) == \E i \in DOMAIN order : order[i] = r

\* A send that waits for POLLOUT gets its callback, and a close completes, with the
\* callbacks of everything outstanding before it.
CallbacksCome ==
    /\ \A r \in Reqs : Queued(r) /\ "out" \in pevents ~> ~Outstanding(r)
    /\ state = "closing" ~> call = "close_cb" /\ order = <<>>

\* Every uv_udp_send gets its callback.
EverySendCompletes == \A r \in Reqs : Outstanding(r) ~> ~Outstanding(r)
=============================================================================
