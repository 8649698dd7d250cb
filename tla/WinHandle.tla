------------------------------ MODULE WinHandle ------------------------------
(***************************************************************************)
(* What the handles of the Windows port have in common (win/handle-inl.h,  *)
(* req-inl.h): a count of what keeps the handle active, a count of the     *)
(* requests under way, and the endgame that closes the handle when there   *)
(* are none; and the rounds of uv_run as far as one handle sees them.      *)
(***************************************************************************)
EXTENDS Integers, Sequences, FiniteSets, TLC

VARIABLES
    s,      \* the handle, and its requests that are pending in the loop
    os,     \* the kernel: operations under way, and the completion port
    run,    \* the loop's thread
    hist    \* what happened, and what the bounds count

vars == <<s, os, run, hist>>
None == "none"

\* The fields of every handle, and the control of the loop.
HandleInit == [active |-> FALSE, activecnt |-> 0, closing |-> FALSE, closed |-> FALSE,
               reqs |-> 0, endgame |-> FALSE, pending |-> <<>>, registered |-> {}]
RunInit == [pc |-> "idle", work |-> <<>>, back |-> None]

IncreaseActive(h) == [h EXCEPT !.activecnt = @ + 1, !.active = TRUE]

\* The handle stops when nothing is left, unless it is closing: then it is stopped.
DecreaseActive(h) ==
    [h EXCEPT !.activecnt = @ - 1, !.active = IF h.activecnt = 1 THEN FALSE ELSE @]

WantEndgame(h) == [h EXCEPT !.endgame = TRUE]

DecreasePending(h) ==
    [h EXCEPT !.reqs = @ - 1, !.endgame = @ \/ (h.closing /\ h.reqs = 1)]

Register(h, req) == [IncreaseActive(h) EXCEPT !.registered = @ \cup {req}]
Unregister(h, req) == [DecreaseActive(h) EXCEPT !.registered = @ \ {req}]

InsertPending(h, req) == [h EXCEPT !.pending = Append(@, req)]

HandleClosing(h) == [h EXCEPT !.closing = TRUE, !.active = FALSE]
HandleClose(h) == [h EXCEPT !.closed = TRUE]

-----------------------------------------------------------------------------
\* The program calls the library between the steps of the loop and in callbacks.
Program == run.pc \in {"idle", "cb"} /\ ~s.closing

\* A callback; the loop's thread goes on at back.
Calling(back) == [run EXCEPT !.pc = "cb", !.back = back]

CbReturns ==
    /\ run.pc = "cb"
    /\ run' = [run EXCEPT !.pc = run.back, !.back = None]
    /\ UNCHANGED <<s, os, hist>>

\* uv_process_reqs detaches the list and takes the requests in order.
TakeReqs ==
    /\ run.pc = "idle" /\ s.pending # <<>>
    /\ run' = [run EXCEPT !.pc = "reqs", !.work = s.pending]
    /\ s' = [s EXCEPT !.pending = <<>>]
    /\ UNCHANGED <<os, hist>>

Req(r) == run.pc = "reqs" /\ run.work # <<>> /\ Head(run.work) = r
Taken == [run EXCEPT !.work = Tail(@)]

\* uv_poll: packages become pending requests; then the endgames.
Poll ==
    /\ \/ run.pc = "reqs" /\ run.work = <<>>
       \/ run.pc = "idle" /\ s.pending = <<>> /\ (os.iocp # <<>> \/ s.endgame)
    /\ s' = [s EXCEPT !.pending = @ \o os.iocp]
    /\ os' = [os EXCEPT !.iocp = <<>>]
    /\ run' = [run EXCEPT !.pc = IF s.endgame THEN "endgame" ELSE "idle"]
    /\ UNCHANGED hist

LoopRounds == CbReturns \/ TakeReqs \/ Poll

-----------------------------------------------------------------------------
\* An overlapped call: it fails, ends at once without a package, or goes on.
Start(h, req, result) ==
    CASE result = "error" -> InsertPending(h, req)
      [] result = "now" -> InsertPending(h, req)
      [] OTHER -> h

Results == {"error", "later"} \cup IF s.way = "bypass" THEN {"now"} ELSE {}

Started(req, result) ==
    [os EXCEPT !.flight = IF result = "later" THEN @ \cup {req} ELSE @,
               !.failed = IF result = "error" THEN @ \cup {req} ELSE @ \ {req}]

-----------------------------------------------------------------------------
InSeq(x, q) == \E i \in DOMAIN q : q[i] = x
Times(x, q) == Cardinality({i \in DOMAIN q : q[i] = x})
One(b) == IF b THEN 1 ELSE 0

\* Where a request can be: in the kernel, in the port, in the loop.
Places(req) == One(req \in os.flight) + Times(req, os.iocp \o s.pending \o run.work)
=============================================================================
