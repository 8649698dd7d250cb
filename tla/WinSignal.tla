------------------------------ MODULE WinSignal ------------------------------
(***************************************************************************)
(* Signal handles on Windows (win/signal.c): the console's control handler *)
(* runs on a thread of its own and dispatches a signal to the handles of   *)
(* the tree; each handle's one request is posted when nothing was pending. *)
(***************************************************************************)
EXTENDS Integers, Sequences, SequencesExt, FiniteSets, TLC

CONSTANTS Watchers,     \* the signal handles
          Control,      \* signals of the console: SIGINT, SIGBREAK, SIGHUP
          Other,        \* SIGWINCH and the signals that are never raised
          CloseRaces,   \* a callback may close its handle while a signal is pending again
          MaxSignalCalls, MaxSignals   \* bounds

VARIABLES s, os, run, hist

vars == <<s, os, run, hist>>

None == "none"

Init ==
    /\ s = [h \in Watchers |-> [signum |-> None, pending |-> None, active |-> FALSE,
                                closing |-> FALSE, ends |-> FALSE, closed |-> FALSE]]
    /\ os = [refs |-> 0, hooked |-> FALSE, posted |-> <<>>, sig |-> None, todo |-> {}, mid |-> None]
    /\ run = [pc |-> "idle", h |-> None]
    /\ hist = [calls |-> 0, signals |-> 0, owed |-> [h \in Watchers |-> FALSE], late |-> FALSE]

Locked == os.sig # None

-----------------------------------------------------------------------------
(***************************************************************************)
(* uv__signal_dispatch, on the console's thread, under uv__signal_lock     *)
(***************************************************************************)
DispatchStarts(sig) ==
    /\ ~Locked /\ hist.signals < MaxSignals
    /\ sig \in Control => os.hooked
    /\ os' = [os EXCEPT !.sig = sig, !.todo = {h \in Watchers : s[h].signum = sig}]
    /\ hist' = [hist EXCEPT !.signals = @ + 1]
    /\ UNCHANGED <<s, run>>

\* Mutant of Marked: the request is posted although it is in the port.
MarkedAlways(h) == [os EXCEPT !.todo = @ \ {h}, !.mid = h]

Marked(h) == [os EXCEPT !.todo = @ \ {h}, !.mid = IF s[h].pending = None THEN h ELSE None]

\* The exchange of pending_signum ...
DispatchMarks(h) ==
    /\ Locked /\ os.mid = None /\ h \in os.todo
    /\ s' = [s EXCEPT ![h].pending = os.sig]
    /\ os' = Marked(h)
    /\ hist' = [hist EXCEPT !.owed[h] = TRUE]
    /\ UNCHANGED run

\* ... and the completion that is posted when nothing was pending.
DispatchPosts ==
    /\ os.mid # None
    /\ os' = [os EXCEPT !.posted = Append(@, os.mid), !.mid = None]
    /\ UNCHANGED <<s, run, hist>>

DispatchEnds ==
    /\ Locked /\ os.mid = None /\ os.todo = {}
    /\ os' = [os EXCEPT !.sig = None]
    /\ UNCHANGED <<s, run, hist>>

-----------------------------------------------------------------------------
\* uv__signal_register: the control handler is hooked once and counted.
Registered(o, sig) ==
    IF sig \in Control THEN [o EXCEPT !.refs = @ + 1, !.hooked = TRUE] ELSE o

Unregistered(o, sig) ==
    IF sig \in Control THEN [o EXCEPT !.refs = @ - 1, !.hooked = o.refs > 1] ELSE o

Stopped(h) == [s EXCEPT ![h].signum = None, ![h].active = FALSE]

StopKernel(h) == IF s[h].signum = None THEN os ELSE Unregistered(os, s[h].signum)

Call == hist.calls < MaxSignalCalls /\ ~Locked

\* uv_signal_start; on the same signal it only sets the callback.
Start(h, sig, fails) ==
    /\ Call /\ ~s[h].closing /\ s[h].signum # sig
    /\ fails => sig \in Control /\ StopKernel(h).refs = 0
    /\ IF fails
       THEN s' = Stopped(h) /\ os' = StopKernel(h)
       ELSE /\ s' = [s EXCEPT ![h].signum = sig, ![h].active = TRUE]
            /\ os' = Registered(StopKernel(h), sig)
    /\ hist' = [hist EXCEPT !.calls = @ + 1, !.owed[h] = FALSE]
    /\ UNCHANGED run

\* uv_signal_stop
Stop(h) ==
    /\ Call /\ ~s[h].closing /\ s[h].signum # None
    /\ s' = Stopped(h) /\ os' = StopKernel(h)
    /\ hist' = [hist EXCEPT !.calls = @ + 1, !.owed[h] = FALSE]
    /\ UNCHANGED run

\* Mutant of Unsent: the endgame does not wait for a posted request.
UnsentAlways(h) == TRUE

\* Nothing is on its way to the handle.
Unsent(h) == s[h].pending = None

\* uv_signal_close
Close(h) ==
    /\ Call /\ ~s[h].closing
    /\ run.h = h /\ s[h].pending # None => CloseRaces
    /\ s' = [Stopped(h) EXCEPT ![h].closing = TRUE, ![h].ends = Unsent(h)]
    /\ os' = StopKernel(h)
    /\ hist' = [hist EXCEPT !.calls = @ + 1, !.owed[h] = FALSE]
    /\ UNCHANGED run

\* The signal that was dispatched is the one the handle watches now.
Reports(h) == s[h].pending = s[h].signum

\* uv_process_signal_req, up to the callback ...
Process ==
    /\ run.pc = "idle" /\ os.posted # <<>>
    /\ LET h == Head(os.posted)
       IN /\ s' = [s EXCEPT ![h].pending = None]
          /\ run' = [pc |-> IF Reports(h) THEN "cb" ELSE "after", h |-> h]
          /\ hist' = [hist EXCEPT !.owed[h] = @ /\ ~Reports(h),
                                  !.late = @ \/ s[h].closed \/ (Reports(h) /\ s[h].pending # s[h].signum)]
    /\ os' = [os EXCEPT !.posted = Tail(@)]

Returns ==
    /\ run.pc = "cb"
    /\ run' = [run EXCEPT !.pc = "after"]
    /\ UNCHANGED <<s, os, hist>>

\* Mutant of After: a handle that was closed with a signal pending is forgotten.
AfterForgets ==
    /\ run.pc = "after"
    /\ run' = [pc |-> "idle", h |-> None]
    /\ UNCHANGED <<s, os, hist>>

\* ... and after it.
After ==
    /\ run.pc = "after"
    /\ s' = [s EXCEPT ![run.h].ends = @ \/ s[run.h].closing]
    /\ run' = [pc |-> "idle", h |-> None]
    /\ UNCHANGED <<os, hist>>

\* uv_signal_endgame
Endgame(h) ==
    /\ run.pc = "idle" /\ s[h].ends /\ ~s[h].closed
    /\ s' = [s EXCEPT ![h].closed = TRUE]
    /\ hist' = [hist EXCEPT !.late = @ \/ s[h].pending # None]
    /\ UNCHANGED <<os, run>>

-----------------------------------------------------------------------------
Program ==
    \E h \in Watchers :
        \/ \E sig \in Control \cup Other, fails \in BOOLEAN : Start(h, sig, fails)
        \/ Stop(h)
        \/ Close(h)

LoopStep == Process \/ Returns \/ After \/ \E h \in Watchers : Endgame(h)

KernelStep == (\E h \in Watchers : DispatchMarks(h)) \/ DispatchPosts \/ DispatchEnds

Next ==
    \/ (run.pc \in {"idle", "cb"} /\ Program)
    \/ (\E sig \in Control \cup Other : DispatchStarts(sig))
    \/ LoopStep \/ KernelStep

Spec == Init /\ [][Next]_vars /\ WF_vars(LoopStep) /\ WF_vars(KernelStep)

-----------------------------------------------------------------------------
\* The type invariant.
TypeOK ==
    /\ s \in [Watchers -> [signum : Control \cup Other \cup {None},
                           pending : Control \cup Other \cup {None},
                           active : BOOLEAN, closing : BOOLEAN, ends : BOOLEAN, closed : BOOLEAN]]
    /\ os.refs \in 0 .. Cardinality(Watchers) /\ run.pc \in {"idle", "cb", "after"}

\* Each handle's request is in the port at most once, exactly while a signal is pending:
\* its OVERLAPPED would be used twice otherwise, or a signal be lost.
PostedOnce ==
    \A h \in Watchers :
        Cardinality({i \in 1 .. Len(os.posted) : os.posted[i] = h})
            = IF s[h].pending # None /\ os.mid # h THEN 1 ELSE 0

\* The control handler is hooked while, and only while, a handle watches a signal of the
\* console.
HookedExact ==
    /\ os.refs = Cardinality({h \in Watchers : s[h].signum \in Control})
    /\ os.hooked <=> os.refs > 0

\* No request is processed for a closed handle, and no callback for a signal that the
\* handle does not watch.
NeverLate == ~hist.late

\* A handle that is closed ends, and a signal that was dispatched to a handle reaches its
\* callback unless the handle is stopped or started on another signal.
SignalOwes(h) == hist.owed[h] \/ (s[h].closing /\ ~s[h].closed)

=============================================================================
