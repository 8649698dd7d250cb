------------------------------ MODULE FsEvent -------------------------------
(***************************************************************************)
(* The two implementations of uv_fs_event_t on POSIX: inotify and          *)
(* FSEvents.                                                               *)
(***************************************************************************)
EXTENDS Integers, Sequences, FiniteSets

CONSTANTS
    Handles, Paths,
    ListFails,    \* no memory for the list of a watch that was just added
    MaxChanges, MaxWatches, MaxInotifyCalls,   \* bounds
    FailStream,   \* creating the stream or its paths may fail
    RestartInCb,  \* a callback may start its handle again after a stop
    Failing,      \* the calls of fsevents.c in the loop's thread that may fail
    MaxFsEventsCalls  \* bound

VARIABLES
    s,      \* the structures of libtuv
    os,     \* what the system holds
    run,    \* the place of the threads in the code
    hist    \* history, and what the bounds count

vars == <<s, os, run, hist>>

-----------------------------------------------------------------------------
(***************************************************************************)
(* File change notification with inotify (linux-inotify.c): handles that   *)
(* watch the same path share a watcher list, whose handles are called one  *)
(* after the other while callbacks start, stop and close others.           *)
(***************************************************************************)
\* s: the handles, and the watcher lists by watch descriptor
\* os: the kernel's watches and its queue of events
\* run: the events read, the list that is walked and its local queue
\* hist: what the bounds count, and who heard of the current event

Wds == 1..MaxWatches
NoWd == 0

InotifyInit ==
    /\ s = [wd |-> [h \in Handles |-> NoWd], active |-> {}, closed |-> {},
            lists |-> {}, watchers |-> [w \in Wds |-> <<>>], iterating |-> {}]
    /\ os = [watch |-> [p \in Paths |-> NoWd], events |-> <<>>, next |-> 1]
    /\ run = [pc |-> "out", buf |-> <<>>, w |-> NoWd, queue |-> <<>>]
    /\ hist = [changes |-> 0, calls |-> 0, heard |-> {}, due |-> {}]

Without(q, h) == SelectSeq(q, LAMBDA x : x # h)
Elems(q) == {q[i] : i \in DOMAIN q}
InotifyCall(h) == run.pc \in {"out", "cb"} /\ hist.calls < MaxInotifyCalls
           /\ hist' = [hist EXCEPT !.calls = @ + 1, !.due = @ \ {h}]

-----------------------------------------------------------------------------
\* uv_fs_event_start: inotify_add_watch fails, or gives the path's descriptor or a new
\* one, for whose list there may be no memory.
InotifyStart(h) ==
    /\ InotifyCall(h) /\ h \notin s.active \cup s.closed
    /\ \/ UNCHANGED <<s, os>>
       \/ \E p \in Paths :
              LET old == os.watch[p]
                  wd  == IF old # NoWd THEN old ELSE os.next
              IN /\ wd \in Wds
                 /\ os' = [os EXCEPT !.watch[p] = wd, !.next = IF old # NoWd THEN @ ELSE @ + 1]
                 /\ \/ s' = [s EXCEPT !.lists = @ \cup {wd}, !.active = @ \cup {h}, !.wd[h] = wd,
                                      !.watchers[wd] = Append(IF wd \in s.lists THEN @ ELSE <<>>, h)]
                    \/ ListFails /\ wd \notin s.lists /\ UNCHANGED s
    /\ UNCHANGED run

MayFree(st, w) == w \notin st.iterating /\ st.watchers[w] = <<>>

\* Mutant of Freed: the list is freed, the kernel's watch stays.
FreedWatch(st, o, w) ==
    /\ s' = IF MayFree(st, w) THEN [st EXCEPT !.lists = @ \ {w}] ELSE st
    /\ os' = o

\* maybe_free_watcher_list; inotify_rm_watch queues IN_IGNORED.
Freed(st, o, w) ==
    IF ~MayFree(st, w) THEN s' = st /\ os' = o
    ELSE /\ s' = [st EXCEPT !.lists = @ \ {w}]
         /\ os' = [o EXCEPT !.watch = [p \in Paths |-> IF @[p] = w THEN NoWd ELSE @[p]],
                            !.events = IF \E p \in Paths : o.watch[p] = w
                                       THEN Append(@, <<w, "ignored">>) ELSE @]

\* Mutant of Stopped: the walk still has the handle.
StoppedQueued(st, h) ==
    LET w == s.wd[h]
    IN /\ Freed([st EXCEPT !.active = @ \ {h}, !.wd[h] = NoWd, !.watchers[w] = Without(@, h)], os, w)
       /\ UNCHANGED run

\* uv_fs_event_stop: the handle may be in the list, or in the local queue of the walk.
Stopped(st, h) ==
    LET w == s.wd[h]
    IN /\ Freed([st EXCEPT !.active = @ \ {h}, !.wd[h] = NoWd, !.watchers[w] = Without(@, h)], os, w)
       /\ run' = [run EXCEPT !.queue = Without(@, h)]

InotifyStop(h) == InotifyCall(h) /\ h \in s.active /\ Stopped(s, h)

\* uv_close and uv__fs_event_close
Close(h) ==
    /\ InotifyCall(h) /\ h \notin s.closed
    /\ LET st == [s EXCEPT !.closed = @ \cup {h}]
       IN IF h \in s.active THEN Stopped(st, h) ELSE s' = st /\ UNCHANGED <<os, run>>

-----------------------------------------------------------------------------
\* The kernel: a path changes, or is deleted, which ends its watch.
InotifyChange ==
    /\ hist.changes < MaxChanges
    /\ \E p \in Paths :
           /\ os.watch[p] # NoWd
           /\ \/ os' = [os EXCEPT !.events = Append(@, <<os.watch[p], "modify">>)]
              \/ os' = [os EXCEPT !.events = @ \o <<<<os.watch[p], "delete_self">>,
                                                    <<os.watch[p], "ignored">>>>,
                                  !.watch[p] = NoWd]
    /\ hist' = [hist EXCEPT !.changes = @ + 1]
    /\ UNCHANGED <<s, run>>

\* uv__inotify_read: one read takes all events that fit the buffer.
ReadEvents ==
    /\ run.pc = "out" /\ os.events # <<>>
    /\ run' = [run EXCEPT !.pc = "next", !.buf = os.events]
    /\ os' = [os EXCEPT !.events = <<>>]
    /\ UNCHANGED <<s, hist>>

\* The next event; one whose list is gone is stale.
NextEvent ==
    /\ run.pc = "next" /\ run.buf # <<>>
    /\ LET w == Head(run.buf)[1]
       IN IF w \notin s.lists
          THEN run' = [run EXCEPT !.buf = Tail(@)] /\ UNCHANGED <<s, hist>>
          ELSE /\ run' = [run EXCEPT !.pc = "walk", !.w = w, !.queue = s.watchers[w],
                                     !.buf = Tail(@)]
               /\ s' = [s EXCEPT !.iterating = @ \cup {w}, !.watchers[w] = <<>>]
               /\ hist' = [hist EXCEPT !.heard = {}, !.due = Elems(s.watchers[w])]
    /\ UNCHANGED os

BufEnds ==
    /\ run.pc = "next" /\ run.buf = <<>>
    /\ run' = [run EXCEPT !.pc = "out"]
    /\ UNCHANGED <<s, os, hist>>

\* Mutant of Moved: the handle stays at the head of the local queue's list only.
MovedNot(st, w, h) == st

\* The handle goes back to the list before its callback.
Moved(st, w, h) == [st EXCEPT !.watchers[w] = Append(@, h)]

Callback ==
    /\ run.pc = "walk" /\ run.queue # <<>>
    /\ s' = Moved(s, run.w, Head(run.queue))
    /\ run' = [run EXCEPT !.pc = "cb", !.queue = Tail(@)]
    /\ hist' = [hist EXCEPT !.heard = @ \cup {Head(run.queue)}]
    /\ UNCHANGED os

InotifyCbReturns ==
    /\ run.pc = "cb"
    /\ run' = [run EXCEPT !.pc = "walk"]
    /\ UNCHANGED <<s, os, hist>>

WalkEnds ==
    /\ run.pc = "walk" /\ run.queue = <<>>
    /\ Freed([s EXCEPT !.iterating = @ \ {run.w}], os, run.w)
    /\ run' = [run EXCEPT !.pc = "next", !.w = NoWd]
    /\ hist' = [hist EXCEPT !.heard = {}, !.due = {}]

LoopStep == ReadEvents \/ NextEvent \/ BufEnds \/ Callback \/ InotifyCbReturns \/ WalkEnds
InotifyNext == InotifyChange \/ LoopStep \/ \E h \in Handles : InotifyStart(h) \/ InotifyStop(h) \/ Close(h)

InotifySpec == InotifyInit /\ [][InotifyNext]_vars

-----------------------------------------------------------------------------
\* The type invariant.
InotifyTypeOK ==
    /\ s.active \subseteq Handles /\ s.lists \subseteq Wds /\ s.iterating \subseteq {run.w}
    /\ \A p \in Paths : os.watch[p] \in Wds \cup {NoWd}

\* Every active handle is in exactly one place, the list of its watch descriptor or
\* the local queue of the walk over it; the list exists, and a list without handles
\* exists only while it is walked.
ListsExact ==
    /\ \A h \in Handles : LET places == {w \in s.lists : h \in Elems(s.watchers[w])}
                          IN IF h \notin s.active THEN places = {} /\ h \notin Elems(run.queue)
                             ELSE IF h \in Elems(run.queue) THEN places = {} /\ s.wd[h] = run.w
                             ELSE places = {s.wd[h]}
    /\ \A w \in s.lists : s.watchers[w] = <<>> => w \in s.iterating
    /\ s.iterating \subseteq s.lists

\* Every watch of the kernel belongs to a list: none is left when its handles stopped.
WatchesOwned == \A p \in Paths : os.watch[p] # NoWd => os.watch[p] \in s.lists

\* An event is reported to every handle that watched when the walk began and was not
\* stopped before its turn, once; handles started by a callback hear the next one.
HeardExact ==
    /\ run.pc = "walk" /\ run.queue = <<>> =>
           \A h \in hist.due : h \in hist.heard
    /\ \A h \in Elems(run.queue) : h \notin hist.heard /\ h \in hist.due

-----------------------------------------------------------------------------
(***************************************************************************)
(* Directory watching on Darwin (fsevents.c): a thread with a CoreFoundation *)
(* run loop owns one event stream for all handles.  The loop's thread tells *)
(* it by signals to build the stream again, and waits for it when a handle *)
(* is stopped; events come back through queues and async handles.          *)
(***************************************************************************)
\* s: the handles with what each has allocated, and cf_state that the threads share
\* os: the stream: its handles and the changes it has not delivered
\* run: the loop thread and the CF thread
\* hist: what the bounds count, what was lost, and the async handles freed in use

None == "none"
Parts == {"realpath", "cf_cb", "cf_mutex"}

FsEventsInit ==
    /\ s = [cf_state |-> {}, active |-> {}, list |-> {}, need |-> FALSE, signals |-> <<>>,
            sem |-> 0, parts |-> [h \in Handles |-> {}],
            events |-> [h \in Handles |-> 0], error |-> {}, async |-> {}]
    /\ os = [stream |-> {}, changes |-> {}]
    /\ run = [uv |-> "idle", h |-> None, cb |-> None, left |-> 0, err |-> FALSE,
              cf |-> "none", batch |-> <<>>, failed |-> FALSE]
    /\ hist = [changes |-> 0, calls |-> 0, lost |-> {}, dangling |-> {}]

FsEventsCall == run.uv \in {"idle", "cb"} /\ hist.calls < MaxFsEventsCalls

-----------------------------------------------------------------------------
\* What uv__fsevents_loop_init makes before the CF thread, in order.
LoopParts == <<"state", "cf_mutex", "cf_sem", "fsevent_sem", "fsevent_mutex", "signal_source">>
Made(n) == {LoopParts[i] : i \in 1..n}
AllMade == Made(Len(LoopParts))

\* The ways uv__fsevents_loop_init ends: the loop has its thread, or the step after the
\* first n failed and its labels gave back what they know of.
LoopInits ==
    IF s.cf_state # {} THEN {[state |-> s.cf_state, lost |-> {}]}
    ELSE {[state |-> AllMade, lost |-> {}]}
         \cup {[state |-> {}, lost |-> Made(n) \ {"state", "cf_mutex", "cf_sem", "fsevent_sem", "fsevent_mutex"}] :
                   n \in {k \in 0..Len(LoopParts) :
                             (IF k < Len(LoopParts) THEN "part" ELSE "thread") \in Failing}}

\* uv__fsevents_init with a thread: the handle joins the list and the CF thread is told
\* with uv__cf_loop_signal.  After a failing call the handle stays active without its
\* parts; after uv_mutex_init the async handle is freed although the loop has it, and
\* after uv__cf_loop_signal the handle is in the list besides.
HandleInit(st, h) ==
    LET listed == [st EXCEPT !.list = @ \cup {h}, !.need = TRUE]
    IN \/ /\ s' = [listed EXCEPT !.parts[h] = Parts, !.signals = Append(@, <<h, "regular">>)]
          /\ hist' = [hist EXCEPT !.calls = @ + 1]
       \/ \E call \in Failing \cap {"realpath", "cf_cb", "mutex", "signal"} :
              /\ s' = IF call = "signal" THEN listed ELSE st
              /\ hist' = [hist EXCEPT !.calls = @ + 1,
                            !.dangling = IF call \in {"mutex", "signal"} THEN @ \cup {h} ELSE @]

\* uv_fs_event_start of a directory: the handle is active whether its
\* uv__fsevents_init succeeds or not.
FsEventsStart(h) ==
    /\ FsEventsCall /\ h \notin s.active
    /\ (run.cb = h) => RestartInCb
    /\ \E o \in LoopInits :
           LET st == [s EXCEPT !.active = @ \cup {h}, !.cf_state = o.state, !.parts[h] = {},
                               !.events[h] = 0, !.error = @ \ {h}]
           IN IF o.state = {}
              THEN /\ s' = st
                   /\ hist' = [hist EXCEPT !.calls = @ + 1, !.lost = @ \cup o.lost]
                   /\ UNCHANGED run
              ELSE /\ HandleInit(st, h)
                   /\ run' = [run EXCEPT !.cf = IF @ = "none" THEN "idle" ELSE @]
    /\ UNCHANGED os

\* Mutant of Leaves: the handle is not waited for.
LeavesAtOnce(h) ==
    [run EXCEPT !.uv = IF run.cb = None THEN "idle" ELSE "cb"]

\* The loop thread waits for the CF thread.
Leaves(h) == [run EXCEPT !.uv = "wait", !.h = h]

\* uv_fs_event_stop and uv__fsevents_close, up to uv_sem_wait: a handle whose start
\* failed has no cf_cb, and one whose signal cannot be sent is not waited for.
FsEventsStop(h) ==
    /\ FsEventsCall /\ h \in s.active
    /\ LET st == [s EXCEPT !.active = @ \ {h}]
           unlisted == [st EXCEPT !.list = @ \ {h}, !.need = TRUE]
       IN \/ "cf_cb" \notin s.parts[h] /\ s' = st /\ UNCHANGED run
          \/ /\ "cf_cb" \in s.parts[h]
             /\ s' = [unlisted EXCEPT !.signals = Append(@, <<h, "closing">>)]
             /\ run' = Leaves(h)
          \/ "cf_cb" \in s.parts[h] /\ "stop" \in Failing /\ s' = unlisted /\ UNCHANGED run
    /\ hist' = [hist EXCEPT !.calls = @ + 1]
    /\ UNCHANGED os

\* The rest: cf_cb is closed and the events that are left are freed.
StopEnds ==
    /\ run.uv = "wait" /\ s.sem > 0
    /\ s' = [s EXCEPT !.sem = @ - 1, !.async = @ \ {run.h}, !.events[run.h] = 0,
                      !.error = @ \ {run.h}, !.parts[run.h] = {}]
    /\ run' = [run EXCEPT !.uv = IF run.cb = None THEN "idle" ELSE "cb", !.h = None]
    /\ UNCHANGED <<os, hist>>

\* uv__fsevents_loop_delete, when the loop is closed: the CF thread is told to end ...
LoopDelete ==
    /\ run.uv = "idle" /\ s.cf_state # {} /\ s.active = {}
    /\ s' = [s EXCEPT !.signals = Append(@, <<None, "regular">>)]
    /\ run' = [run EXCEPT !.uv = "join"]
    /\ UNCHANGED <<os, hist>>

\* ... and joined; its state and the signals that are left are freed.
Joined ==
    /\ run.uv = "join" /\ run.cf = "ended"
    /\ s' = [s EXCEPT !.cf_state = {}, !.signals = <<>>, !.need = FALSE]
    /\ run' = [run EXCEPT !.uv = "idle", !.cf = "none", !.failed = FALSE]
    /\ UNCHANGED <<os, hist>>

\* uv__fsevents_cb takes the events and the error of the handle.
AsyncCb(h) ==
    /\ run.uv = "idle" /\ h \in s.async
    /\ run' = [run EXCEPT !.uv = "process", !.cb = h, !.left = s.events[h], !.err = h \in s.error]
    /\ s' = [s EXCEPT !.async = @ \ {h}, !.events[h] = 0, !.error = @ \ {h}]
    /\ UNCHANGED <<os, hist>>

\* Mutant of MayCall: the events that were taken are all reported.
MayCallAlways(h) == TRUE

\* The test before each callback: an earlier one may have stopped the handle.
MayCall(h) == h \in s.active

\* UV__FSEVENTS_PROCESS: the next event, then the error.
Process ==
    /\ run.uv = "process"
    /\ run' = IF run.left > 0
              THEN [run EXCEPT !.left = @ - 1, !.uv = IF MayCall(run.cb) THEN "cb" ELSE @]
              ELSE IF run.err
              THEN [run EXCEPT !.err = FALSE, !.uv = IF MayCall(run.cb) THEN "cb" ELSE @]
              ELSE [run EXCEPT !.uv = "idle", !.cb = None]
    /\ UNCHANGED <<s, os, hist>>

FsEventsCbReturns ==
    /\ run.uv = "cb"
    /\ run' = [run EXCEPT !.uv = "process"]
    /\ UNCHANGED <<s, os, hist>>

-----------------------------------------------------------------------------
\* A directory changes; only what happens while the stream watches it is seen.
FsEventsChange(h) ==
    /\ hist.changes < MaxChanges
    /\ os' = [os EXCEPT !.changes = IF h \in os.stream THEN @ \cup {h} ELSE @]
    /\ hist' = [hist EXCEPT !.changes = @ + 1]
    /\ UNCHANGED <<s, run>>

\* uv__fsevents_event_cb, with fsevent_mutex: the handles of the list that an event
\* concerns get it by uv__fsevents_push_event.
Pushed(st, changes) ==
    LET hs == changes \cap st.list
    IN [st EXCEPT !.events = [h \in Handles |-> IF h \in hs THEN @[h] + 1 ELSE @[h]],
                  !.async = @ \cup hs]

EventCb ==
    /\ run.cf = "idle" /\ os.changes # {}
    /\ s' = Pushed(s, os.changes)
    /\ os' = [os EXCEPT !.changes = {}]
    /\ UNCHANGED <<run, hist>>

\* uv__cf_loop_cb takes all signals.
TakeSignals ==
    /\ run.cf = "idle" /\ s.signals # <<>>
    /\ run' = [run EXCEPT !.cf = "signal", !.batch = s.signals]
    /\ s' = [s EXCEPT !.signals = <<>>]
    /\ UNCHANGED <<os, hist>>

\* The flag is cleared before the list is read.
Needed(st) == [st EXCEPT !.need = FALSE]

\* uv__fsevents_reschedule: nothing to do when an earlier signal of the batch did it.
Reschedule ==
    /\ run.cf = "signal" /\ run.batch # <<>> /\ Head(run.batch)[1] # None
    /\ IF s.need
       THEN /\ s' = Needed(s)
            /\ run' = [run EXCEPT !.cf = "destroy"]
       ELSE run' = [run EXCEPT !.cf = "final"] /\ UNCHANGED s
    /\ UNCHANGED <<os, hist>>

\* uv__fsevents_destroy_stream flushes what the stream has.
DestroyStream ==
    /\ run.cf = "destroy"
    /\ s' = Pushed(s, os.changes)
    /\ os' = [stream |-> {}, changes |-> {}]
    /\ run' = [run EXCEPT !.cf = "paths"]
    /\ UNCHANGED hist

\* The paths of all handles, and uv__fsevents_create_stream; or the failure of one.
CreateStream ==
    /\ run.cf = "paths"
    /\ \/ /\ os' = [os EXCEPT !.stream = s.list]
          /\ run' = [run EXCEPT !.cf = "final", !.failed = FALSE]
          /\ UNCHANGED s
       \/ /\ FailStream /\ s.list # {}
          /\ run' = [run EXCEPT !.cf = "broadcast", !.failed = TRUE]
          /\ UNCHANGED <<s, os>>
    /\ UNCHANGED hist

\* An error is pushed to every handle of the list.
Broadcast ==
    /\ run.cf = "broadcast"
    /\ s' = [s EXCEPT !.error = @ \cup s.list, !.async = @ \cup s.list]
    /\ run' = [run EXCEPT !.cf = "final"]
    /\ UNCHANGED <<os, hist>>

\* Mutant of Posted: the semaphore is posted for every signal.
PostedAlways(sig) == TRUE

\* A handle that closes waits for the semaphore.
Posted(sig) == sig[2] = "closing"

Final ==
    /\ run.cf = "final"
    /\ s' = [s EXCEPT !.sem = IF Posted(Head(run.batch)) THEN @ + 1 ELSE @]
    /\ run' = [run EXCEPT !.cf = "signal", !.batch = Tail(@)]
    /\ UNCHANGED <<os, hist>>

SignalsDone ==
    /\ run.cf = "signal" /\ run.batch = <<>>
    /\ run' = [run EXCEPT !.cf = "idle"]
    /\ UNCHANGED <<s, os, hist>>

\* The signal without a handle: pCFRunLoopStop, after which the thread ends.
RunLoopStops ==
    /\ run.cf = "signal" /\ run.batch # <<>> /\ Head(run.batch)[1] = None
    /\ run' = [run EXCEPT !.cf = "ended", !.batch = Tail(@)]
    /\ UNCHANGED <<s, os, hist>>

CfStep == EventCb \/ TakeSignals \/ Reschedule \/ DestroyStream \/ CreateStream
          \/ Broadcast \/ Final \/ SignalsDone \/ RunLoopStops
UvStep == StopEnds \/ Joined \/ Process \/ FsEventsCbReturns \/ \E h \in Handles : AsyncCb(h)

FsEventsNext ==
    \/ CfStep \/ UvStep \/ LoopDelete
    \/ \E h \in Handles : FsEventsStart(h) \/ FsEventsStop(h) \/ FsEventsChange(h)

Fairness == WF_vars(CfStep) /\ WF_vars(UvStep)
FsEventsSpec == FsEventsInit /\ [][FsEventsNext]_vars

-----------------------------------------------------------------------------
\* The type invariant.
FsEventsTypeOK ==
    /\ s.active \subseteq Handles /\ s.list \subseteq Handles /\ s.async \subseteq Handles
    /\ s.sem \in 0..1 /\ os.stream \subseteq Handles /\ s.cf_state \in {{}, AllMade}
    /\ run.h \in Handles \cup {None} /\ run.cb \in Handles \cup {None}

\* The CF thread never uses a handle whose stop has returned: each signal, queued or
\* taken, is for a handle that is active or whose stop still waits, and an event or
\* an async send is left only for such a handle.  The handles of the list, which
\* uv__fsevents_event_cb walks, have their path, mutex and async handle, and no async
\* handle that the loop knows is freed.
HandlesAlive ==
    LET alive == s.active \cup (IF run.uv = "wait" THEN {run.h} ELSE {})
        sigs  == run.batch \o s.signals
    IN /\ \A i \in DOMAIN sigs : sigs[i][1] \in alive \cup {None}
       /\ \A h \in s.list : s.parts[h] = Parts
       /\ hist.dangling = {}
       /\ s.async \subseteq alive /\ \A h \in Handles : s.events[h] > 0 => h \in alive

\* A handle that was stopped, also after a start that failed, has given back what it
\* allocated, and so has a loop whose CF thread is gone or could not be made.
StopFrees ==
    /\ \A h \in Handles \ s.active : s.parts[h] = {} \/ (run.uv = "wait" /\ run.h = h)
    /\ hist.lost = {}
    /\ run.cf = "none" => s.cf_state = {}

\* The semaphore is posted once for each stop that waits.
SemExact ==
    LET sigs == run.batch \o s.signals
        closing == {i \in DOMAIN sigs : sigs[i][2] = "closing"}
    IN s.sem + Cardinality(closing) = IF run.uv = "wait" THEN 1 ELSE 0

\* When the CF thread has nothing to do, its stream watches exactly the handles of
\* the list, unless building it failed, which is reported: the shortcut for several
\* signals in a row forgets none.
StreamCovers ==
    run.cf = "idle" /\ s.signals = <<>> /\ run.uv # "wait" =>
        os.stream = s.list \/ run.failed

=============================================================================
