----------------------------- MODULE WinFsEvent -----------------------------
(***************************************************************************)
(* File change notification on Windows (win/fs-event.c): one request of    *)
(* the handle is always in ReadDirectoryChangesW; what it brings is a      *)
(* batch of entries, reported one by one; then it is issued again.         *)
(***************************************************************************)
EXTENDS Integers, Sequences, FiniteSets, TLC

CONSTANTS RestartPending,  \* the handle may be started while its last request is under way
          StopInCallback,  \* a callback may stop the handle
          OpenFails,       \* the directory may vanish before it is opened
          MaxWatchCalls, MaxBatches   \* bounds

VARIABLES s, os, run, hist

vars == <<s, os, run, hist>>

None == "none"

Init ==
    /\ s = [active |-> FALSE, dir |-> FALSE, names |-> None, dirw |-> None, pending |-> FALSE,
            buffer |-> FALSE, closing |-> FALSE, ends |-> FALSE, closed |-> FALSE]
    /\ os = [ops |-> 0, list |-> <<>>, events |-> 0]
    /\ run = [pc |-> "idle", left |-> 0]
    /\ hist = [calls |-> 0, batches |-> 0, bad |-> {}, owed |-> FALSE]

\* In the kernel, in the port or in the loop's list of pending requests.
UnderWay == os.ops + Len(os.list)

Call == run.pc \in {"idle", "cb"} /\ ~s.closing /\ hist.calls < MaxWatchCalls

-----------------------------------------------------------------------------
\* The paths of uv_fs_event_start that fail release what they set; the handle stays active.
Undone(kind, stage) ==
    [s EXCEPT !.active = TRUE, !.names = None, !.dir = FALSE, !.buffer = FALSE,
              !.dirw = IF stage = "open" /\ kind = "dir" THEN "freed" ELSE @]

Started(kind) ==
    [s EXCEPT !.active = TRUE, !.dir = TRUE, !.buffer = TRUE, !.pending = TRUE,
              !.names = IF kind = "file" THEN "set" ELSE @,
              !.dirw = IF kind = "dir" THEN "set" ELSE @]

\* uv_fs_event_start
Start(kind, stage) ==
    /\ Call /\ ~s.active /\ (s.pending => RestartPending)
    /\ run.pc = "cb" => StopInCallback
    /\ IF stage = None
       THEN s' = Started(kind) /\ os' = [os EXCEPT !.ops = @ + 1]
       ELSE s' = Undone(kind, stage) /\ UNCHANGED os
    /\ hist' = [hist EXCEPT !.calls = @ + 1]
    /\ UNCHANGED run

\* uv_fs_event_stop; closing the directory brings its request back.
Stopped(h) ==
    IF h.active THEN [h EXCEPT !.active = FALSE, !.dir = FALSE, !.names = None, !.dirw = None] ELSE h

Aborted == IF s.dir THEN [ops |-> 0, events |-> 0,
                          list |-> os.list \o [i \in 1 .. os.ops |-> "aborted"]] ELSE os

FreedTwice == IF s.active /\ s.dirw = "freed" THEN {"freed twice"} ELSE {}

Stop ==
    /\ Call /\ s.active /\ (run.pc = "cb" => StopInCallback)
    /\ s' = Stopped(s) /\ os' = Aborted
    /\ hist' = [hist EXCEPT !.calls = @ + 1, !.bad = @ \cup FreedTwice, !.owed = FALSE]
    /\ UNCHANGED run

\* uv_fs_event_close
Close ==
    /\ Call
    /\ s' = LET h == [Stopped(s) EXCEPT !.closing = TRUE] IN [h EXCEPT !.ends = ~h.pending]
    /\ os' = Aborted
    /\ hist' = [hist EXCEPT !.calls = @ + 1, !.bad = @ \cup FreedTwice, !.owed = FALSE]
    /\ UNCHANGED run

-----------------------------------------------------------------------------
\* ReadDirectoryChangesW completes with n entries, 0 when there were too many, or with an
\* error.
Changes(how, n) ==
    /\ os.ops > 0 /\ hist.batches < MaxBatches
    /\ os' = [os EXCEPT !.ops = @ - 1, !.list = Append(@, how), !.events = n]
    /\ hist' = [hist EXCEPT !.batches = @ + 1, !.owed = s.active]
    /\ UNCHANGED <<s, run>>

\* Mutant of Inactive: a closed handle whose request came back is forgotten.
InactiveForgets(h) == h

Inactive(h) == [h EXCEPT !.ends = @ \/ h.closing]

\* uv_process_fs_event_req
Process ==
    /\ run.pc = "idle" /\ os.list # <<>>
    /\ LET h == [s EXCEPT !.pending = FALSE]
       IN IF ~s.active
          THEN s' = Inactive(h) /\ UNCHANGED run
          ELSE /\ s' = h
               /\ run' = [pc |-> IF Head(os.list) = "ok" /\ os.events > 0 THEN "entry" ELSE "cb",
                          left |-> IF Head(os.list) = "ok" THEN os.events ELSE 0]
    /\ os' = [os EXCEPT !.list = Tail(@)]
    /\ hist' = [hist EXCEPT !.bad = IF s.pending /\ ~s.closed THEN @ ELSE @ \cup {"request twice"},
                            !.owed = FALSE]

\* One entry of the batch: of a file's directory it is compared with the two names.
Entry(match) ==
    /\ run.pc = "entry"
    /\ match \/ s.dirw = None
    /\ run' = [pc |-> IF match THEN "cb" ELSE "next", left |-> run.left - 1]
    /\ hist' = [hist EXCEPT !.bad = IF s.dirw = None /\ s.names = None THEN @ \cup {"no name"} ELSE @]
    /\ UNCHANGED <<s, os>>

Returns ==
    /\ run.pc = "cb"
    /\ run' = [run EXCEPT !.pc = "next"]
    /\ UNCHANGED <<s, os, hist>>

\* Mutant of Goes: the batch goes on after the handle was closed.
GoesOn == run.left > 0

\* The test of the do loop
Goes == run.left > 0 /\ ~s.closing

\* Mutant of Again: the request is not issued again.
AgainNot == s' = s /\ os' = os

\* ReadDirectoryChangesW is called again; when it fails, as it does without a directory,
\* the request becomes pending with the error.
Queued ==
    \/ s.dir /\ os' = [os EXCEPT !.ops = @ + 1]
    \/ os' = [os EXCEPT !.list = Append(@, "error")]

\* Mutant of Again: req_pending is not set again.
AgainUnmarked == s' = s /\ Queued

\* uv_fs_event_queue_readdirchanges
Again == s' = [s EXCEPT !.pending = TRUE] /\ Queued

EntryEnds ==
    /\ run.pc = "next"
    /\ IF Goes
       THEN run' = [run EXCEPT !.pc = "entry"] /\ UNCHANGED <<s, os, hist>>
       ELSE /\ run' = [pc |-> "idle", left |-> 0]
            /\ hist' = [hist EXCEPT !.bad = IF ~s.closing /\ s.pending THEN @ \cup {"request twice"} ELSE @]
            /\ IF s.closing THEN s' = [s EXCEPT !.ends = TRUE] /\ UNCHANGED os ELSE Again

\* uv_fs_event_endgame
Endgame ==
    /\ run.pc = "idle" /\ s.ends /\ s.closing /\ ~s.pending /\ ~s.closed
    /\ s' = [s EXCEPT !.closed = TRUE, !.buffer = FALSE]
    /\ UNCHANGED <<os, run, hist>>

-----------------------------------------------------------------------------
LoopStep == Process \/ (\E match \in BOOLEAN : Entry(match)) \/ Returns \/ EntryEnds \/ Endgame

Next ==
    \/ \E kind \in {"dir", "file"},
          stage \in {None, "path"} \cup IF OpenFails THEN {"open"} ELSE {} : Start(kind, stage)
    \/ Stop \/ Close \/ LoopStep
    \/ \E n \in 0 .. 2 : Changes("ok", n)
    \/ Changes("error", 0)

Spec == Init /\ [][Next]_vars /\ WF_vars(LoopStep)

-----------------------------------------------------------------------------
\* The type invariant.
TypeOK ==
    /\ s.dirw \in {None, "set", "freed"} /\ s.names \in {None, "set"}
    /\ os.ops \in 0 .. MaxWatchCalls /\ os.list \in Seq({"ok", "aborted", "error"})
    /\ run.pc \in {"idle", "entry", "cb", "next"} /\ run.left \in 0 .. 2

\* The request is under way exactly once while req_pending says so: its OVERLAPPED and the
\* buffer are never given to the kernel twice, and it is not processed after the end.
WatchOnce == UnderWay = (IF s.pending THEN 1 ELSE 0) /\ "request twice" \notin hist.bad

\* An entry is compared only with names that are set, and a name is freed once.
NamesAlive == hist.bad \cap {"no name", "freed twice"} = {}

\* Between two batches an active handle that opened its directory has its request under
\* way: no change goes unnoticed.
KeepsWatching == (s.active /\ s.dir /\ run.pc = "idle") => s.pending

WatchOwes == hist.owed \/ (s.closing /\ ~s.closed)

=============================================================================
