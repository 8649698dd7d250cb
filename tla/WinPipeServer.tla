---------------------------- MODULE WinPipeServer ----------------------------
(***************************************************************************)
(* A listening named pipe of the Windows port (win/pipe.c): a number of    *)
(* instances of the pipe wait for a client each; a connected one waits for *)
(* uv_accept, which gives it to the client's handle and makes a new one.   *)
(***************************************************************************)
EXTENDS WinHandle

CONSTANTS Instances,       \* the numbers of instances the program may ask for
          ListenTwice,     \* uv_listen may be called again
          CloseUnbound,    \* a handle may be closed after uv_pipe_pending_instances only
          MaxListenCalls, MaxClients   \* bounds

DefaultInstances == 2   \* default_pending_pipe_instances is 4

Init ==
    /\ s = HandleInit @@
           [server |-> FALSE, count |-> 0, allocated |-> FALSE, bound |-> FALSE,
            listening |-> FALSE, pipe |-> <<>>, accepted |-> <<>>, arrays |-> 0]
    /\ os = [iocp |-> <<>>, flight |-> {}, failed |-> {}]
    /\ run = RunInit
    /\ hist = [calls |-> 0, clients |-> 0, fails |-> 0]

Call == Program /\ hist.calls < MaxListenCalls /\ hist' = [hist EXCEPT !.calls = @ + 1]

-----------------------------------------------------------------------------
PendingInstances(n) ==
    /\ Call /\ ~s.bound
    /\ s' = [s EXCEPT !.count = n, !.server = TRUE]
    /\ UNCHANGED <<os, run>>

\* uv_pipe_bind allocates accept_reqs and makes the first instance; when that fails,
\* nothing is bound and the array stays.
Bind(fails) ==
    /\ Program /\ hist.calls < MaxListenCalls /\ ~s.bound
    /\ hist' = [hist EXCEPT !.calls = @ + 1, !.fails = @ + One(fails)]
    /\ LET n == IF s.server THEN s.count ELSE DefaultInstances
           h == [s EXCEPT !.count = n, !.allocated = TRUE, !.arrays = @ + 1,
                          !.pipe = [i \in 1 .. n |-> i = 1 /\ ~fails]]
       IN s' = IF fails THEN h ELSE [h EXCEPT !.server = TRUE, !.bound = TRUE]
    /\ UNCHANGED <<os, run>>

\* uv_pipe_queue_accept of some requests.  A new instance is made except for the first
\* one of uv_pipe_bind; a client may be there already; a failure is made pending.
Queue(h, queued, how) ==
    [h EXCEPT !.reqs = @ + Cardinality(queued),
              !.pipe = [i \in DOMAIN @ |-> IF i \in queued THEN how # "error" ELSE @[i]],
              !.pending = IF how = "later" THEN @ ELSE @ \o <<CHOOSE i \in queued : TRUE>>]

Waiting(h, queued, how) ==
    [os EXCEPT !.flight = @ \cup (IF how = "later" THEN queued ELSE {}),
               !.failed = IF how = "error" THEN @ \cup queued ELSE @ \ queued]

\* uv_pipe_listen; all instances start to wait.
Listen ==
    /\ Call /\ s.bound /\ (s.listening => ListenTwice)
    /\ LET h == IncreaseActive([s EXCEPT !.listening = TRUE])
           all == 1 .. s.count
       IN \E failing \in {{}} \cup {{i} : i \in all} :
            /\ s' = LET rest == Queue(h, all \ failing, "later")
                    IN IF failing = {} THEN rest ELSE Queue(rest, failing, "error")
            /\ os' = [os EXCEPT !.flight = @ \cup (all \ failing), !.failed = failing]
    /\ UNCHANGED run

\* Mutant of Requeue: a new instance is not made once a client was accepted.
RequeueNever(h, i, how) == h

Requeue(h, i, how) == Queue(h, {i}, how)

\* uv_pipe_accept gives the newest connection away and queues its request again.
Accept(how) ==
    /\ Call /\ s.accepted # <<>>
    /\ LET i == Head(s.accepted)
           h == [s EXCEPT !.accepted = Tail(@), !.pipe[i] = FALSE]
       IN /\ s' = Requeue(h, i, how)
          /\ os' = Waiting(h, {i}, how)
    /\ UNCHANGED run

\* Mutant of Cleanup: the instances a client has connected to are left open.
CleanupWaiting(h) ==
    [h EXCEPT !.pipe = [i \in DOMAIN @ |-> @[i] /\ InSeq(i, h.accepted)]]

\* uv_pipe_cleanup closes every instance.
Cleanup(h) == IF h.server THEN [h EXCEPT !.pipe = [i \in DOMAIN @ |-> FALSE]] ELSE h

\* uv_pipe_close
Close ==
    /\ Call /\ (s.server /\ ~s.allocated => CloseUnbound)
    /\ LET quiet == IF s.listening THEN DecreaseActive([s EXCEPT !.listening = FALSE]) ELSE s
           h == Cleanup(quiet)
       IN s' = HandleClosing(IF s.reqs = 0 THEN WantEndgame(h) ELSE h)
    /\ os' = [os EXCEPT !.failed = @ \cup os.flight]
    /\ UNCHANGED run

-----------------------------------------------------------------------------
\* A client connects, or the wait ends because the instance was closed or failed.
Complete(i) ==
    /\ i \in os.flight
    /\ i \notin os.failed => hist.clients < MaxClients
    /\ \E fails \in IF i \in os.failed THEN {TRUE} ELSE BOOLEAN :
         os' = [os EXCEPT !.flight = @ \ {i}, !.iocp = Append(@, i),
                          !.failed = IF fails THEN @ \cup {i} ELSE @]
    /\ hist' = [hist EXCEPT !.clients = IF i \in os.failed THEN @ ELSE @ + 1]
    /\ UNCHANGED <<s, run>>

\* uv_process_pipe_accept_req: a client goes to the list, a failed wait is made again.
ProcessAccept(i) ==
    /\ Req(i)
    /\ IF s.closing
       THEN run' = [Taken EXCEPT !.pc = "reqDone"] /\ UNCHANGED <<s, os, hist>>
       ELSE IF i \notin os.failed
       THEN /\ s' = [s EXCEPT !.accepted = <<i>> \o @]
            /\ run' = [Taken EXCEPT !.pc = "cb", !.back = "reqDone"]
            /\ UNCHANGED <<os, hist>>
       ELSE /\ \E how \in {"later"} \cup (IF hist.clients < MaxClients THEN {"error"} ELSE {}) :
                 /\ s' = Queue([s EXCEPT !.pipe[i] = FALSE], {i}, how)
                 /\ os' = Waiting(s, {i}, how)
                 /\ hist' = [hist EXCEPT !.clients = IF how = "error" THEN @ + 1 ELSE @]
            /\ run' = [Taken EXCEPT !.pc = "reqDone"]

ReqDone ==
    /\ run.pc = "reqDone"
    /\ s' = DecreasePending(s)
    /\ run' = [run EXCEPT !.pc = "reqs"]
    /\ UNCHANGED <<os, hist>>

EndgameCloses(h) == h.closing /\ h.reqs = 0

\* uv_pipe_endgame frees the requests of a server.
Endgame ==
    /\ run.pc = "endgame"
    /\ s' = IF EndgameCloses(s)
            THEN HandleClose([s EXCEPT !.endgame = FALSE, !.allocated = @ /\ ~s.server,
                                       !.arrays = @ - One(s.server /\ s.allocated)])
            ELSE [s EXCEPT !.endgame = FALSE]
    /\ run' = [run EXCEPT !.pc = "idle"]
    /\ UNCHANGED <<os, hist>>

LoopStep == LoopRounds \/ ReqDone \/ Endgame \/ \E i \in DOMAIN s.pipe : ProcessAccept(i)
KernelStep == \E i \in os.flight : Complete(i)

Next ==
    \/ \E n \in Instances : PendingInstances(n)
    \/ \E fails \in BOOLEAN : Bind(fails)
    \/ \E how \in {"later", "now", "error"} : Accept(how)
    \/ Listen \/ Close \/ LoopStep \/ KernelStep

Spec == Init /\ [][Next]_vars /\ WF_vars(LoopStep) /\ WF_vars(KernelStep)

-----------------------------------------------------------------------------
\* The type invariant.
TypeOK ==
    /\ s.reqs >= 0 /\ s.activecnt >= 0 /\ os.flight \subseteq DOMAIN s.pipe
    /\ run.pc \in {"idle", "cb", "reqs", "reqDone", "endgame"}

Busy(i) == Places(i) + Times(i, s.accepted)

\* Each instance waits for a client or has one that waits for uv_accept, and is counted
\* in reqs_pending while it waits.
InstancesOnce ==
    /\ \A i \in DOMAIN s.pipe : Busy(i) <= 1 /\ (s.listening => Busy(i) = 1)
    /\ ~s.closed => s.reqs = Cardinality({i \in DOMAIN s.pipe : Places(i) > 0})
                       + One(run.pc = "reqDone" \/ run.pc = "cb")

\* No instance is left open when the handle is closed, and no wait is under way;
\* uv_pipe_cleanup has walked an array of instances that exists.  The array of a bind that
\* failed may be lost, and no other.
InstancesFreed ==
    /\ s.closed => s.arrays <= hist.fails
    /\ s.closed => (\A i \in DOMAIN s.pipe : ~s.pipe[i]) /\ os.flight = {} /\ os.iocp = <<>>
    /\ s.closing /\ ~s.closed /\ s.server => s.allocated

\* A server that is closed gets its close callback.
ServerCloses == s.closing ~> s.closed
=============================================================================
