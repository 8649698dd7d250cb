---------------------------- MODULE WinTcpServer ----------------------------
(***************************************************************************)
(* A listening TCP handle of the Windows port (win/tcp.c): a fixed number  *)
(* of AcceptEx calls is under way, each with a socket of its own; accepted *)
(* connections wait in a list for uv_accept, which queues the call again;  *)
(* the number of calls can be changed to one while they are under way.     *)
(***************************************************************************)
EXTENDS WinHandle

CONSTANTS SimultaneousAccepts,  \* 32 in the code
          FailAccepts,          \* socket() or AcceptEx() may fail when a call is queued
          ListenAgain,          \* uv_listen may be called again
          AcceptAfterError,     \* uv_accept may be called when a failed call has ended
                                \* the listening
          MaxServerCalls, MaxArrivals   \* bounds

Accepts == 1 .. SimultaneousAccepts

Init ==
    /\ \E shared \in BOOLEAN :
         s = HandleInit @@
             [shared |-> shared, socket |-> "none", bound |-> FALSE, delayed |-> FALSE,
              listening |-> FALSE, allocated |-> FALSE, single |-> FALSE, changing |-> FALSE,
              processed |-> 0, sock |-> [i \in Accepts |-> FALSE], accepted |-> <<>>]
    /\ os = [iocp |-> <<>>, flight |-> {}, failed |-> {}]
    /\ run = RunInit
    /\ hist = [calls |-> 0, arrivals |-> 0, closes |-> 0]

Call == Program /\ hist.calls < MaxServerCalls /\ hist' = [hist EXCEPT !.calls = @ + 1]

-----------------------------------------------------------------------------
\* uv_tcp_queue_accept of a set of requests, some of which fail at once: these are made
\* pending, without a socket.
QueueAccepts(h, queued, failing) ==
    [h EXCEPT !.reqs = @ + Cardinality(queued),
              !.sock = [i \in Accepts |-> IF i \in queued THEN i \notin failing ELSE @[i]],
              !.pending = IF failing = {} THEN @ ELSE @ \o <<CHOOSE i \in failing : TRUE>>]

Queueing(queued, failing) ==
    [os EXCEPT !.flight = @ \cup (queued \ failing),
               !.failed = (@ \cup failing) \ (queued \ failing)]

Failing(queued) == IF FailAccepts THEN {{}} \cup {{i} : i \in queued} ELSE {{}}

\* uv_tcp_bind: an address in use is reported by uv_listen.
Bind ==
    /\ Call /\ ~s.bound
    /\ \E inuse \in BOOLEAN :
         s' = [s EXCEPT !.socket = "open", !.bound = TRUE, !.delayed = inuse]
    /\ UNCHANGED <<os, run>>

\* uv_tcp_listen.  The requests are queued the first time only.
Listen ==
    /\ Call /\ ~s.delayed /\ (s.allocated => ListenAgain)
    /\ LET h == IncreaseActive([s EXCEPT !.socket = "open", !.bound = TRUE,
                                         !.listening = TRUE, !.allocated = TRUE])
           queued == IF s.single THEN {1} ELSE Accepts
       IN IF s.allocated THEN s' = h /\ UNCHANGED os
          ELSE \E failing \in Failing(queued) :
                 s' = QueueAccepts(h, queued, failing) /\ os' = Queueing(queued, failing)
    /\ UNCHANGED run

\* uv_tcp_simultaneous_accepts(handle, 0)
SingleAccept ==
    /\ Call /\ ~s.single
    /\ s' = [s EXCEPT !.single = TRUE, !.changing = s.listening]
    /\ UNCHANGED <<os, run>>

\* Mutant of Switch: the call is queued when the first of them has been processed.
SwitchEarly(h) == h.processed + 1 >= 1

\* While the number is changing, a call is queued when all the old ones are processed.
Switch(h) == h.processed + 1 >= SimultaneousAccepts

\* uv_tcp_accept takes the last connection, and queues its request again, for which
\* uv_tcp_queue_accept asserts that the handle listens.
Accept ==
    /\ Call /\ s.accepted # <<>> /\ (s.listening \/ AcceptAfterError)
    /\ LET i == Head(s.accepted)
           h == [s EXCEPT !.accepted = Tail(@), !.sock[i] = FALSE]
           again == IF ~s.changing THEN {i} ELSE IF Switch(s) THEN {1} ELSE {}
           next == IF ~s.changing THEN h
                   ELSE IF Switch(s) THEN [h EXCEPT !.processed = 0, !.changing = FALSE]
                   ELSE [h EXCEPT !.processed = @ + 1]
       IN /\ \E failing \in Failing(again) :
               s' = QueueAccepts(next, again, failing) /\ os' = Queueing(again, failing)
          /\ run' = IF again # {} /\ ~s.listening THEN [run EXCEPT !.pc = "aborted"]
                    ELSE run

\* uv_tcp_close; the calls of a shared socket are cancelled, or lose their sockets.
Close ==
    /\ Call
    /\ \E cancelled \in IF s.shared /\ s.allocated THEN BOOLEAN ELSE {TRUE} :
         LET quiet == IF s.listening THEN DecreaseActive([s EXCEPT !.listening = FALSE]) ELSE s
             h == HandleClosing([quiet EXCEPT !.socket = "closed",
                    !.sock = [i \in Accepts |-> @[i] /\ (cancelled \/ i \notin os.flight)]])
         IN s' = IF s.reqs = 0 THEN WantEndgame(h) ELSE h
    /\ os' = [os EXCEPT !.failed = @ \cup os.flight]
    /\ UNCHANGED run

-----------------------------------------------------------------------------
\* A connection arrives, or an operation is aborted because its socket was closed.
Complete(i) ==
    /\ i \in os.flight
    /\ i \notin os.failed => hist.arrivals < MaxArrivals
    /\ \E fails \in IF i \in os.failed THEN {TRUE} ELSE BOOLEAN :
         os' = [os EXCEPT !.flight = @ \ {i}, !.iocp = Append(@, i),
                          !.failed = IF fails THEN @ \cup {i} ELSE @]
    /\ hist' = [hist EXCEPT !.arrivals = IF i \in os.failed THEN @ ELSE @ + 1]
    /\ UNCHANGED <<s, run>>

\* Mutant of Requeued: a connection that was aborted before it was accepted is not replaced.
RequeuedNever(h) == FALSE

Requeued(h) == h.listening

\* uv_process_tcp_accept_req: without a socket the call itself failed and the handle
\* stops listening; a failed connection is dropped and the call made again.
ProcessAccept(i) ==
    /\ Req(i)
    /\ IF ~s.sock[i]
       THEN IF s.listening
            THEN /\ s' = DecreaseActive([s EXCEPT !.listening = FALSE])
                 /\ run' = [Taken EXCEPT !.pc = "cb", !.back = "reqDone"]
                 /\ UNCHANGED os
            ELSE run' = [Taken EXCEPT !.pc = "reqDone"] /\ UNCHANGED <<s, os>>
       ELSE IF i \notin os.failed /\ s.socket = "open"
       THEN /\ s' = [s EXCEPT !.accepted = <<i>> \o @]
            /\ run' = [Taken EXCEPT !.pc = "cb", !.back = "reqDone"]
            /\ UNCHANGED os
       ELSE /\ LET h == [s EXCEPT !.sock[i] = FALSE]
               IN IF Requeued(s)
                  THEN \E failing \in Failing({i}) :
                         s' = QueueAccepts(h, {i}, failing) /\ os' = Queueing({i}, failing)
                  ELSE s' = h /\ UNCHANGED os
            /\ run' = [Taken EXCEPT !.pc = "reqDone"]
    /\ UNCHANGED hist

ReqDone ==
    /\ run.pc = "reqDone"
    /\ s' = DecreasePending(s)
    /\ run' = [run EXCEPT !.pc = "reqs"]
    /\ UNCHANGED <<os, hist>>

EndgameCloses(h) == h.closing /\ h.reqs = 0

\* uv_tcp_endgame frees the requests, also those of connections that nobody accepted.
Endgame ==
    /\ run.pc = "endgame"
    /\ s' = IF EndgameCloses(s) THEN HandleClose([s EXCEPT !.endgame = FALSE, !.allocated = FALSE])
            ELSE [s EXCEPT !.endgame = FALSE]
    /\ run' = [run EXCEPT !.pc = "idle"]
    /\ hist' = [hist EXCEPT !.closes = IF EndgameCloses(s) THEN @ + 1 ELSE @]
    /\ UNCHANGED os

LoopStep == LoopRounds \/ ReqDone \/ Endgame \/ \E i \in Accepts : ProcessAccept(i)
KernelStep == \E i \in os.flight : Complete(i)

Next == Bind \/ Listen \/ SingleAccept \/ Accept \/ Close \/ LoopStep \/ KernelStep

Spec == Init /\ [][Next]_vars /\ WF_vars(LoopStep) /\ WF_vars(KernelStep)

-----------------------------------------------------------------------------
\* The type invariant.
TypeOK ==
    /\ s.processed \in 0 .. SimultaneousAccepts /\ s.reqs >= 0 /\ s.activecnt >= 0
    /\ os.flight \subseteq Accepts /\ hist.closes \in 0 .. 1
    /\ run.pc \in {"idle", "cb", "reqs", "reqDone", "endgame", "aborted"}

Busy(i) == Places(i) + Times(i, s.accepted)

\* Each accept request is in one place: in the kernel, in the port, in the loop or in
\* the list of connections that wait for uv_accept; and reqs_pending counts the first three.
\* A call is queued only while the handle listens, unless AcceptAfterError.
AcceptsOnce ==
    /\ run.pc # "aborted"
    /\ \A i \in Accepts : Busy(i) <= 1
    /\ ~s.closed => s.reqs = Cardinality({i \in Accepts : Places(i) > 0})
                       + One(run.pc = "reqDone" \/ run.pc = "cb")

\* While the handle listens, a connection can be accepted: a call is under way or a
\* connection waits for the program, also while the number of calls changes to one.
KeepsAccepting ==
    s.listening => (\E i \in Accepts : Busy(i) = 1) \/ run.pc = "reqDone"

\* After the change to one call no more than one is under way.
OneAccept ==
    s.single /\ s.listening /\ ~s.changing =>
        Cardinality({i \in Accepts : Busy(i) = 1}) <= 1

\* The requests are freed only when the kernel has none of them, and every socket made for
\* them is closed then, but for one case: the sockets of connections that arrived and that
\* the program did not accept before it closed the handle stay open.
FreedIdle ==
    s.closed => /\ os.flight = {} /\ s.pending = <<>> /\ os.iocp = <<>>
                /\ \A i \in Accepts : s.sock[i] <=> Times(i, s.accepted) > 0

\* The handle is active exactly while it listens.
ListeningActive == ~s.closing => (s.active <=> s.listening)

\* A server that is closed gets its close callback.
ServerCloses == s.closing ~> s.closed
=============================================================================
