------------------------------- MODULE FsPoll -------------------------------
(***************************************************************************)
(* File polling (fs-poll.c): a handle, and a context for each time it was  *)
(* started, with a timer and a stat request that outlive a stop.           *)
(***************************************************************************)
EXTENDS Integers, FiniteSets

CONSTANTS Ctxs,             \* the contexts that can be allocated, numbered from 1
          Stats, Errors,    \* what stat() finds, and how it fails: negative
          FailStat,         \* uv_fs_stat may fail to allocate its path
          MaxChanges, MaxFsPollCalls    \* bounds

VARIABLES
    s,      \* the handle and the contexts
    os,     \* the file, and the requests on the thread pool with their results
    run,    \* the context whose poll_cb runs
    hist    \* what the bounds count, and the report to the program

vars == <<s, os, run, hist>>

None == "none"
Nil == 0            \* no context
NoCtx == [parent |-> FALSE, busy |-> 0, statbuf |-> 0, timer |-> None]

Init ==
    /\ s = [handle |-> "open", active |-> FALSE, ctx |-> Nil,
            c |-> [c \in Ctxs |-> NoCtx], heap |-> [c \in Ctxs |-> "free"]]
    /\ os = [file |-> CHOOSE v \in Stats : TRUE, stat |-> [c \in Ctxs |-> None],
             result |-> [c \in Ctxs |-> 0]]
    /\ run = [pc |-> None, ctx |-> Nil]
    /\ hist = [changes |-> 0, calls |-> 0, told |-> 0]

Call == run.pc \in {None, "cb"} /\ hist.calls < MaxFsPollCalls /\ s.handle = "open"
Called == hist' = [hist EXCEPT !.calls = @ + 1]

\* The context that uv__calloc returns; contexts are numbered, and never reused.
Allocated == {c \in Ctxs : s.heap[c] = "free" /\ \A d \in Ctxs : d < c => s.heap[d] # "free"}

\* uv_fs_poll_start; a started handle ignores it.  When it fails the context is
\* freed, although its timer is in the loop's list.
Start ==
    /\ Call /\ ~s.active
    /\ \E c \in Allocated, fails \in IF FailStat THEN BOOLEAN ELSE {FALSE} :
           IF fails
           THEN /\ s' = [s EXCEPT !.heap[c] = "freed", !.c[c].timer = "inactive"]
                /\ UNCHANGED os
           ELSE /\ s' = [s EXCEPT !.active = TRUE, !.ctx = c, !.heap[c] = "used",
                                  !.c[c] = [NoCtx EXCEPT !.parent = TRUE, !.timer = "inactive"]]
                /\ os' = [os EXCEPT !.stat[c] = "submitted"]
    /\ hist' = [hist EXCEPT !.calls = @ + 1, !.told = 0]
    /\ UNCHANGED run

\* Mutant of Stopped: the context still points to the handle.
StoppedParent(st) ==
    [st EXCEPT !.active = FALSE, !.ctx = Nil,
               !.c[st.ctx].timer = IF @ = "active" THEN "closing" ELSE @]

\* uv_fs_poll_stop of an active handle: a timer that runs is closed, otherwise
\* poll_cb will do it.
Stopped(st) ==
    [st EXCEPT !.active = FALSE, !.ctx = Nil,
               !.c[st.ctx] = [@ EXCEPT !.parent = FALSE,
                                       !.timer = IF @ = "active" THEN "closing" ELSE @]]

Stop ==
    /\ Call /\ s.active
    /\ s' = Stopped(s)
    /\ Called /\ UNCHANGED <<os, run>>

\* uv_close and uv__fs_poll_close
Close ==
    /\ Call
    /\ s' = [IF s.active THEN Stopped(s) ELSE s EXCEPT !.handle = "closing"]
    /\ Called /\ UNCHANGED <<os, run>>

FinishClose ==
    /\ run.pc = None /\ s.handle = "closing"
    /\ s' = [s EXCEPT !.handle = "closed"]
    /\ UNCHANGED <<os, run, hist>>

\* timer_close_cb
TimerCloses(c) ==
    /\ run.pc = None /\ s.c[c].timer = "closing"
    /\ s' = [s EXCEPT !.c[c].timer = "closed", !.heap[c] = "freed"]
    /\ UNCHANGED <<os, run, hist>>

\* timer_cb
TimerFires(c) ==
    /\ run.pc = None /\ s.c[c].timer = "active"
    /\ s' = [s EXCEPT !.c[c].timer = "inactive"]
    /\ os' = [os EXCEPT !.stat[c] = "submitted"]
    /\ UNCHANGED <<run, hist>>

-----------------------------------------------------------------------------
\* The file and the thread pool.
FileChanges ==
    /\ hist.changes < MaxChanges
    /\ \E v \in Stats \cup Errors : v # os.file /\ os' = [os EXCEPT !.file = v]
    /\ hist' = [hist EXCEPT !.changes = @ + 1]
    /\ UNCHANGED <<s, run>>

StatWorks(c) ==
    /\ os.stat[c] = "submitted"
    /\ os' = [os EXCEPT !.stat[c] = "done", !.result[c] = os.file]
    /\ UNCHANGED <<s, run, hist>>

\* Mutant of Reports: an error after a good state is not told.
ReportsGood(ctx, r) == r >= 0 /\ ctx.busy # 0 /\ ctx.statbuf # r

\* The conditions under which poll_cb calls back.
Reports(ctx, r) ==
    IF r < 0 THEN ctx.busy # r
    ELSE ctx.busy # 0 /\ (ctx.busy < 0 \/ ctx.statbuf # r)

\* poll_cb up to the callback; a stopped handle hears nothing.
PollCb(c) ==
    /\ run.pc = None /\ os.stat[c] = "done"
    /\ os' = [os EXCEPT !.stat[c] = None]
    /\ IF ~s.c[c].parent
       THEN s' = [s EXCEPT !.c[c].timer = "closing"] /\ UNCHANGED <<run, hist>>
       ELSE /\ UNCHANGED s
            /\ run' = [pc |-> IF Reports(s.c[c], os.result[c]) THEN "cb" ELSE "out", ctx |-> c]
            /\ hist' = IF Reports(s.c[c], os.result[c])
                       THEN [hist EXCEPT !.told = os.result[c]] ELSE hist

CbReturns ==
    /\ run.pc = "cb"
    /\ run' = [run EXCEPT !.pc = "out"]
    /\ UNCHANGED <<s, os, hist>>

\* Mutant of Rescheduled: the timer is started although the handle was stopped.
RescheduledAlways(ctx) == "active"

\* The timer after poll_cb: started again, unless the callback stopped the handle.
Rescheduled(ctx) == IF ctx.parent THEN "active" ELSE "closing"

\* The rest of poll_cb.
PollCbEnds ==
    /\ run.pc = "out"
    /\ LET c == run.ctx
           r == os.result[c]
       IN s' = [s EXCEPT !.c[c] = [@ EXCEPT !.busy = IF r < 0 THEN r ELSE 1,
                                            !.statbuf = IF r < 0 THEN @ ELSE r,
                                            !.timer = Rescheduled(s.c[c])]]
    /\ run' = [pc |-> None, ctx |-> Nil]
    /\ UNCHANGED <<os, hist>>

LoopStep ==
    CbReturns \/ PollCbEnds \/ FinishClose
    \/ \E c \in Ctxs : PollCb(c) \/ TimerFires(c) \/ TimerCloses(c)

Next ==
    \/ LoopStep \/ Start \/ Stop \/ Close \/ FileChanges
    \/ \E c \in Ctxs : StatWorks(c)

\* uv_run goes on, and the thread pool works.
Fairness == WF_vars(LoopStep) /\ \A c \in Ctxs : WF_vars(StatWorks(c) \/ TimerFires(c))

Spec == Init /\ [][Next]_vars

-----------------------------------------------------------------------------
\* The type invariant.
TypeOK ==
    /\ s.ctx \in Ctxs \cup {Nil} /\ run.ctx \in Ctxs \cup {Nil}
    /\ \A c \in Ctxs : s.c[c].timer \in {None, "inactive", "active", "closing", "closed"}
                       /\ os.stat[c] \in {None, "submitted", "done"}

\* A context is freed only when nothing refers to it any more: no request on the
\* pool, no timer in the loop, no handle, no poll_cb that runs; a context that is
\* used has exactly one of them to continue from; and a timer runs, as timer_cb
\* asserts, only for the context of the handle.
ContextsOwned ==
    \A c \in Ctxs :
        /\ s.heap[c] = "freed" => /\ os.stat[c] = None /\ s.c[c].timer = "closed"
                                  /\ s.ctx # c /\ run.ctx # c
        /\ s.c[c].timer = "active" => s.c[c].parent /\ s.ctx = c
        /\ s.heap[c] = "used" =>
               Cardinality({x \in {<<1, os.stat[c] # None>>, <<2, run.ctx = c>>,
                                   <<3, s.c[c].timer \in {"active", "closing"}>>} : x[2]}) = 1

\* While the handle is started, the program has been told the last state of the
\* file, or will be; the first good state is where it starts from.
Told == hist.told = os.file \/ (hist.told = 0 /\ os.file \in Stats)
=============================================================================
