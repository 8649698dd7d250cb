-------------------------------- MODULE WinUdp --------------------------------
(***************************************************************************)
(* A UDP handle of the Windows port (win/udp.c): zero-byte peeks that wait *)
(* for a datagram, receives that do not wait, sends, and close.            *)
(***************************************************************************)
EXTENDS WinHandle

CONSTANTS Sends,          \* send requests
          Ways,           \* how the socket completes: <<"plain" | "bypass", FALSE>>
          RestartFailed,  \* receiving may be restarted while a failed peek is pending
          MaxUdpCalls, MaxDatagrams   \* bounds

Requests == Sends \cup {"recv"}

Init ==
    /\ \E way \in Ways :
         s = HandleInit @@
             [way |-> way[1], socket |-> "none", bound |-> FALSE, reading |-> FALSE,
              readPending |-> FALSE, streams |-> 0]
    /\ os = [iocp |-> <<>>, flight |-> {}, failed |-> {}, why |-> "real",
             data |-> 0, reset |-> FALSE]
    /\ run = RunInit
    /\ hist = [calls |-> 0, data |-> 0, called |-> {}, unwanted |-> FALSE]

Call == Program /\ hist.calls < MaxUdpCalls /\ hist' = [hist EXCEPT !.calls = @ + 1]

\* uv_udp_maybe_bind, which makes the socket with uv_udp_set_socket: either may fail,
\* and a socket that was made stays with the handle when bind fails.
MaybeBind(h) ==
    IF h.bound THEN {h}
    ELSE {h, [h EXCEPT !.socket = "open"], [h EXCEPT !.socket = "open", !.bound = TRUE]}

Bind ==
    /\ Call /\ ~s.bound /\ s' \in MaybeBind(s)
    /\ UNCHANGED <<os, run>>

\* uv_udp_open: a socket that the program made
Open ==
    /\ Call
    /\ s' = IF s.socket = "none" THEN [s EXCEPT !.socket = "open"] ELSE s
    /\ UNCHANGED <<os, run>>

\* uv_udp_queue_recv.  READ_PENDING is set only when the call did not fail.
QueueRecv(h, result) ==
    Start([h EXCEPT !.reqs = @ + 1, !.readPending = result # "error"], "recv", result)

RecvResults ==
    IF os.reset THEN {"error"} ELSE IF s.way = "bypass" /\ os.data > 0 THEN {"now"} ELSE {"later"}

Queued(result) == [Started("recv", result) EXCEPT !.why = IF result = "error" THEN "reset" ELSE @]

\* Mutant of NeedsRecv: a peek that is pending is not noticed.
NeedsRecvAlways(h) == TRUE

NeedsRecv(h) == ~h.readPending

\* uv__udp_recv_start
RecvStart ==
    /\ Call /\ ~s.reading
    /\ RestartFailed \/ s.readPending
         \/ (Places("recv") = 0 /\ ~(os.reset /\ run.back = "recvDone"))
    /\ \E h \in MaybeBind(s) :
         IF ~h.bound THEN s' = h /\ UNCHANGED os
         ELSE LET r == IncreaseActive([h EXCEPT !.reading = TRUE, !.streams = @ + 1])
              IN IF ~NeedsRecv(s) THEN s' = r /\ UNCHANGED os
                 ELSE \E result \in RecvResults :
                        s' = QueueRecv(r, result) /\ os' = Queued(result)
    /\ UNCHANGED run

\* uv__udp_recv_stop
StopReceiving(h) ==
    IF h.reading THEN DecreaseActive([h EXCEPT !.reading = FALSE, !.streams = @ - 1]) ELSE h

RecvStop ==
    /\ Call /\ s.reading
    /\ s' = StopReceiving(s)
    /\ UNCHANGED <<os, run>>

\* uv__udp_send and uv__send: an error is returned, and leaves no request.
Send(r, result) ==
    /\ Call /\ r \notin s.registered \cup hist.called /\ result \in Results
    /\ \E h \in MaybeBind(s) :
         IF ~h.bound \/ result = "error" THEN s' = h /\ UNCHANGED os
         ELSE /\ s' = Start(Register([h EXCEPT !.reqs = @ + 1], r), r, result)
              /\ os' = Started(r, result)
    /\ UNCHANGED run

\* uv_udp_close: what is under way comes back aborted
Close ==
    /\ Call
    /\ LET h == HandleClosing([StopReceiving(s) EXCEPT !.socket = "closed"])
       IN s' = IF s.reqs = 0 THEN WantEndgame(h) ELSE h
    /\ os' = [os EXCEPT !.failed = @ \cup os.flight, !.why = IF "recv" \in os.flight THEN "real" ELSE @]
    /\ UNCHANGED run

-----------------------------------------------------------------------------
\* A datagram, or the news that one of ours was refused.
Arrive ==
    /\ s.bound /\ ~s.closing /\ hist.data < MaxDatagrams
    /\ \/ os' = [os EXCEPT !.data = @ + 1]
       \/ os' = [os EXCEPT !.reset = TRUE]
    /\ hist' = [hist EXCEPT !.data = @ + 1]
    /\ UNCHANGED <<s, run>>

Complete(req) ==
    /\ req \in os.flight
    /\ LET done == [os EXCEPT !.flight = @ \ {req}, !.iocp = Append(@, req)]
       IN IF req # "recv" \/ req \in os.failed THEN os' = done
          ELSE \/ os.data > 0 /\ ~os.reset /\ os' = done
               \/ os.reset /\ os' = [done EXCEPT !.failed = @ \cup {req}, !.why = "reset"]
    /\ UNCHANGED <<s, run, hist>>

-----------------------------------------------------------------------------
RecvCb(h, wanted) ==
    /\ s' = h /\ run' = [Taken EXCEPT !.pc = "cb", !.back = "recvDone"]
    /\ hist' = [hist EXCEPT !.unwanted = @ \/ ~wanted]

\* Mutant of Ignored: a refused send is taken for an error of the socket.
IgnoredNever(why) == FALSE

\* An error that only says that an earlier send was refused.
Ignored(why) == why = "reset"

\* uv_process_udp_recv_req: an error is reported while the program receives; otherwise
\* one receive that does not wait, whose result is given to the program, nothing included.
ProcessRecv ==
    /\ Req("recv")
    /\ LET h == [s EXCEPT !.readPending = FALSE]
           failed == "recv" \in os.failed
       IN IF ~s.reading
          THEN s' = h /\ run' = [Taken EXCEPT !.pc = "recvDone"] /\ UNCHANGED <<os, hist>>
          ELSE IF failed /\ ~Ignored(os.why)
          THEN RecvCb(StopReceiving(h), TRUE) /\ os' = [os EXCEPT !.reset = FALSE]
          ELSE \/ /\ RecvCb(h, s.reading)
                  /\ os' = IF os.reset THEN [os EXCEPT !.reset = FALSE]
                           ELSE IF os.data > 0 THEN [os EXCEPT !.data = @ - 1] ELSE os
               \/ /\ hist.calls < MaxUdpCalls  \* alloc_cb gives no buffer
                  /\ s' = h /\ run' = [Taken EXCEPT !.pc = "cb", !.back = "recvDone"]
                  /\ hist' = [hist EXCEPT !.calls = @ + 1]
                  /\ UNCHANGED os
               \/ /\ hist.calls < MaxUdpCalls  \* the receive fails
                  /\ s' = StopReceiving(h) /\ run' = [Taken EXCEPT !.pc = "cb", !.back = "recvDone"]
                  /\ hist' = [hist EXCEPT !.calls = @ + 1]
                  /\ UNCHANGED os

\* Another peek, unless a callback started one.
RecvDone ==
    /\ run.pc = "recvDone"
    /\ IF s.reading /\ NeedsRecv(s)
       THEN \E result \in RecvResults :
              s' = DecreasePending(QueueRecv(s, result)) /\ os' = Queued(result)
       ELSE s' = DecreasePending(s) /\ UNCHANGED os
    /\ run' = [run EXCEPT !.pc = "reqs"]
    /\ UNCHANGED hist

\* uv_process_udp_send_req
ProcessSend(r) ==
    /\ Req(r)
    /\ s' = Unregister(s, r)
    /\ run' = [Taken EXCEPT !.pc = "cb", !.back = "sendDone"]
    /\ hist' = [hist EXCEPT !.called = @ \cup {r}]
    /\ UNCHANGED os

SendDone ==
    /\ run.pc = "sendDone"
    /\ s' = DecreasePending(s)
    /\ run' = [run EXCEPT !.pc = "reqs"]
    /\ UNCHANGED <<os, hist>>

\* uv_udp_endgame
Endgame ==
    /\ run.pc = "endgame"
    /\ s' = LET h == [s EXCEPT !.endgame = FALSE]
            IN IF s.closing /\ s.reqs = 0 THEN HandleClose(h) ELSE h
    /\ run' = [run EXCEPT !.pc = "idle"]
    /\ UNCHANGED <<os, hist>>

LoopStep ==
    LoopRounds \/ ProcessRecv \/ RecvDone \/ SendDone \/ Endgame \/ \E r \in Sends : ProcessSend(r)

KernelStep == \E req \in os.flight : Complete(req)

Next ==
    \/ Bind \/ Open \/ RecvStart \/ RecvStop \/ Close
    \/ \E r \in Sends, result \in Results : Send(r, result)
    \/ Arrive \/ LoopStep \/ KernelStep

Spec == Init /\ [][Next]_vars /\ WF_vars(LoopStep) /\ WF_vars(KernelStep)

-----------------------------------------------------------------------------
\* The type invariant.
TypeOK ==
    /\ s.socket \in {"none", "open", "closed"} /\ s.registered \subseteq Sends
    /\ os.flight \subseteq Requests /\ s.reqs >= 0 /\ s.streams \in 0 .. 1
    /\ run.pc \in {"idle", "cb", "reqs", "recvDone", "sendDone", "endgame"}

\* The peek is in one place at most; uv_insert_pending_req asserts that a request is not
\* in the list already.
RecvOnce == Places("recv") <= 1

\* reqs_pending is the number of requests in the kernel, in the port, in the loop or with
\* their callback running, so that the endgame comes neither early nor never.
ReqsExact ==
    ~s.closed =>
      s.reqs = Cardinality({req \in Requests : Places(req) > 0})
                 + One(run.pc \in {"recvDone", "sendDone", "cb"})

\* While the program receives, a peek is under way, so that a datagram is noticed.
ReceivingArmed == s.reading /\ run.pc = "idle" => Places("recv") = 1

\* A handle that is closed gets its close callback, and then no request is anywhere.
ClosedQuiet == s.closed => s.registered = {} /\ \A req \in Requests : Places(req) = 0
=============================================================================
