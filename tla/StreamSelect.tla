---------------------------- MODULE StreamSelect ----------------------------
(***************************************************************************)
(* Streams kqueue cannot watch (unix/stream.c on Darwin): a thread of its  *)
(* own waits in select() and hands the events to the loop through an async *)
(* handle and a semaphore.                                                 *)
(*                                                                         *)
(* The thread reads the watcher's events without a lock; the loop writes a *)
(* byte to a socketpair after each change of them.  run.call is where the  *)
(* loop is, run.pc where the thread is.                                    *)
(***************************************************************************)
EXTENDS Naturals, Sequences, SequencesExt

CONSTANTS MaxSelectCalls, MaxReady      \* bounds

VARIABLES
    s,      \* the uv_stream_t and its uv__stream_select_t
    os,     \* the device, the socketpair, what else is held, and the descriptors
            \* that were closed again
    run,    \* the loop and the thread
    hist    \* what the bounds count

vars == <<s, os, run, hist>>

\* What uv__stream_try_select acquires, in order; "fds" is fake_fd and int_fd.
Acquired == <<"fds", "memory", "async", "close_sem", "async_sem", "thread">>

Init ==
    /\ s = [select |-> FALSE, pevents |-> {}, closing |-> FALSE, events |-> {},
            async |-> FALSE, async_sem |-> 0, close_sem |-> 0]
    /\ os = [ready |-> {}, int_fd |-> FALSE, held |-> {"fd"}, reclosed |-> {}]
    /\ run = [call |-> "none", then |-> "none", events |-> {}, pc |-> "off",
              watch |-> {}, int |-> FALSE]
    /\ hist = [calls |-> 0, ready |-> 0]

-----------------------------------------------------------------------------
\* Mutant of Undo: the async handle stays open when a semaphore fails.
UndoKeepsAsync(failed) ==
    CASE failed = "thread" -> {"async_sem", "close_sem", "fds"}
      [] failed = "async_sem" -> {"close_sem", "fds"}
      [] failed = "close_sem" -> {"fds"}
      [] failed = "async" -> {"memory", "fds"}
      [] failed = "memory" -> {"fds"}
      [] failed = "fds" -> {}

\* The labels of uv__stream_try_select: what it gives back when a step fails.
\* Closing the async handle frees the memory.
Undo(failed) ==
    CASE failed = "thread" -> {"async_sem", "close_sem", "fds", "async", "memory"}
      [] failed = "async_sem" -> {"close_sem", "fds", "async", "memory"}
      [] failed = "close_sem" -> {"fds", "async", "memory"}
      [] failed = "async" -> {"memory", "fds"}
      [] failed = "memory" -> {"fds"}
      [] failed = "fds" -> {}

\* uv__stream_try_select, for a descriptor kevent() has refused.
TrySelect ==
    /\ run.pc = "off" /\ run.call = "none" /\ ~s.closing /\ os.held = {"fd"}
    /\ \/ /\ s' = [s EXCEPT !.select = TRUE]
          /\ os' = [os EXCEPT !.held = @ \cup ToSet(Acquired)]
          /\ run' = [run EXCEPT !.pc = "top"]
       \/ \E i \in DOMAIN Acquired :
              /\ os' = [os EXCEPT !.held = @ \cup ({Acquired[j] : j \in 1..(i - 1)}
                                                   \ Undo(Acquired[i]))]
              /\ s' = [s EXCEPT !.closing = TRUE]
              /\ UNCHANGED run
    /\ UNCHANGED hist

-----------------------------------------------------------------------------
\* The program calls the API, outside the handle's code or in a callback.
Call == run.call \in {"none", "io_in", "io_out"} /\ s.select /\ hist.calls < MaxSelectCalls

\* A function that starts or stops events of the watcher, up to its call of
\* uv__stream_osx_interrupt_select.
Change(evs) ==
    /\ s' = [s EXCEPT !.pevents = evs]
    /\ run' = [run EXCEPT !.call = "interrupt", !.then = run.call]
    /\ hist' = [hist EXCEPT !.calls = @ + 1]

ReadStart == Call /\ "in" \notin s.pevents /\ Change(s.pevents \cup {"in"}) /\ UNCHANGED os
ReadStop == Call /\ "in" \in s.pevents /\ Change(s.pevents \ {"in"}) /\ UNCHANGED os

\* A uv_write that fills the device before it is done.
WriteStart ==
    /\ Call /\ "out" \notin s.pevents
    /\ Change(s.pevents \cup {"out"})
    /\ os' = [os EXCEPT !.ready = @ \ {"out"}]

\* uv__drain
Drained == Call /\ "out" \in s.pevents /\ Change(s.pevents \ {"out"}) /\ UNCHANGED os

\* uv__stream_osx_interrupt_select
Interrupt ==
    /\ run.call = "interrupt"
    /\ os' = [os EXCEPT !.int_fd = TRUE]
    /\ run' = [run EXCEPT !.call = run.then, !.then = "none"]
    /\ UNCHANGED <<s, hist>>

\* Mutant of Close: a thread that waits for the loop is not woken.
CloseOneSem ==
    /\ Call
    /\ s' = [s EXCEPT !.closing = TRUE, !.close_sem = @ + 1]
    /\ os' = [os EXCEPT !.int_fd = TRUE]
    /\ run' = [run EXCEPT !.call = "join", !.then = run.call]
    /\ hist' = [hist EXCEPT !.calls = @ + 1]

\* uv_close and uv__stream_close up to uv_thread_join.
Close ==
    /\ Call
    /\ s' = [s EXCEPT !.closing = TRUE, !.close_sem = @ + 1, !.async_sem = @ + 1]
    /\ os' = [os EXCEPT !.int_fd = TRUE]
    /\ run' = [run EXCEPT !.call = "join", !.then = run.call]
    /\ hist' = [hist EXCEPT !.calls = @ + 1]

\* The rest of uv__stream_close, when the thread has ended.  It closes fake_fd
\* and int_fd, and then the watcher's descriptor, which is fake_fd once more: the
\* device's own descriptor stays open.
Joined ==
    /\ run.call = "join" /\ run.pc = "ended"
    /\ s' = [s EXCEPT !.select = FALSE, !.async = FALSE, !.pevents = {}]
    /\ os' = [os EXCEPT !.held = @ \ ToSet(Acquired), !.reclosed = {"fake_fd"}]
    /\ run' = [run EXCEPT !.call = run.then, !.then = "none"]
    /\ UNCHANGED hist

-----------------------------------------------------------------------------
\* uv__stream_osx_select_cb takes the events ...
SelectCb ==
    /\ run.call = "none" /\ s.select /\ s.async
    /\ s' = [s EXCEPT !.async = FALSE, !.events = {}]
    /\ run' = [run EXCEPT !.call = "cb_in", !.events = s.events]
    /\ UNCHANGED <<os, hist>>

\* ... and passes on those the watcher still asks for.  uv__stream_io reads
\* or writes, maybe all there is, and calls back.
CbIo(at, io, next, ev) ==
    /\ run.call = at
    /\ IF ev \in run.events \cap s.pevents
       THEN /\ run' = [run EXCEPT !.call = io]
            /\ \E used \in {{}, {ev}} : os' = [os EXCEPT !.ready = @ \ used]
       ELSE run' = [run EXCEPT !.call = next] /\ UNCHANGED os
    /\ UNCHANGED <<s, hist>>

CbIn == CbIo("cb_in", "io_in", "cb_out", "in")
CbOut == CbIo("cb_out", "io_out", "cb_end", "out")

IoReturns ==
    /\ run.call \in {"io_in", "io_out"}
    /\ run' = [run EXCEPT !.call = IF @ = "io_in" THEN "cb_out" ELSE "cb_end"]
    /\ UNCHANGED <<s, os, hist>>

CbEnds ==
    /\ run.call = "cb_end"
    /\ s' = [s EXCEPT !.async_sem = IF s.closing THEN @ ELSE @ + 1]
    /\ run' = [run EXCEPT !.call = "none", !.events = {}]
    /\ UNCHANGED <<os, hist>>

-----------------------------------------------------------------------------
\* The loop of uv__stream_osx_select.
Goto(pc) == run' = [run EXCEPT !.pc = pc]

Top ==
    /\ run.pc = "top"
    /\ IF s.close_sem > 0
       THEN s' = [s EXCEPT !.close_sem = @ - 1] /\ Goto("ended")
       ELSE Goto("set_in") /\ UNCHANGED s
    /\ UNCHANGED <<os, hist>>

\* The two racing reads of the watcher's events.
SetIn ==
    /\ run.pc = "set_in"
    /\ run' = [run EXCEPT !.pc = "set_out", !.watch = s.pevents \cap {"in"}]
    /\ UNCHANGED <<s, os, hist>>

SetOut ==
    /\ run.pc = "set_out"
    /\ run' = [run EXCEPT !.pc = "select", !.watch = @ \cup (s.pevents \cap {"out"})]
    /\ UNCHANGED <<s, os, hist>>

Select ==
    /\ run.pc = "select"
    /\ os.int_fd \/ run.watch \cap os.ready # {}
    /\ run' = [run EXCEPT !.pc = IF os.int_fd THEN "empty" ELSE "events",
                          !.watch = @ \cap os.ready, !.int = os.int_fd]
    /\ UNCHANGED <<s, os, hist>>

Empty ==
    /\ run.pc = "empty"
    /\ os' = [os EXCEPT !.int_fd = FALSE]
    /\ Goto("events")
    /\ UNCHANGED <<s, hist>>

Events ==
    /\ run.pc = "events"
    /\ IF run.watch = {} THEN Goto("top") /\ UNCHANGED s
       ELSE /\ s' = [s EXCEPT !.events = run.watch]
            /\ Goto("send")
    /\ UNCHANGED <<os, hist>>

\* uv_async_send
Send ==
    /\ run.pc = "send"
    /\ s' = [s EXCEPT !.async = s.select]
    /\ Goto("wait")
    /\ UNCHANGED <<os, hist>>

\* Mutant of Wait: the thread does not wait for the loop.
WaitNot ==
    /\ run.pc = "wait"
    /\ Goto("top")
    /\ UNCHANGED <<s, os, hist>>

\* uv_sem_wait of async_sem
Wait ==
    /\ run.pc = "wait" /\ s.async_sem > 0
    /\ s' = [s EXCEPT !.async_sem = @ - 1]
    /\ Goto("handled")
    /\ UNCHANGED <<os, hist>>

Handled ==
    /\ run.pc = "handled"
    /\ Goto("top")
    /\ UNCHANGED <<s, os, hist>>

\* The device becomes readable or writable.
Readable ==
    /\ hist.ready < MaxReady
    /\ \E ev \in {"in", "out"} \ os.ready : os' = [os EXCEPT !.ready = @ \cup {ev}]
    /\ hist' = [hist EXCEPT !.ready = @ + 1]
    /\ UNCHANGED <<s, run>>

Loop == Interrupt \/ Joined \/ SelectCb \/ CbIn \/ CbOut \/ IoReturns \/ CbEnds
Thread == Top \/ SetIn \/ SetOut \/ Select \/ Empty \/ Events \/ Send \/ Wait \/ Handled

Next ==
    \/ TrySelect \/ ReadStart \/ ReadStop \/ WriteStart \/ Drained \/ Close
    \/ Loop \/ Thread \/ Readable

\* The loop and the thread both run on.
Spec == Init /\ [][Next]_vars /\ WF_vars(Loop) /\ WF_vars(Thread)

-----------------------------------------------------------------------------
\* The type invariant, with the assertions of both sides: the loop gets events,
\* and the thread finds them taken after its wait.
TypeOK ==
    /\ s.pevents \cup s.events \cup os.ready \cup run.watch \subseteq {"in", "out"}
    /\ s.async_sem \in 0..2 /\ s.close_sem \in 0..1
    /\ run.call = "cb_in" => run.events # {}
    /\ run.pc = "events" => run.watch # {} \/ run.int
    /\ run.pc = "handled" => s.events = {} \/ s.closing

\* uv__stream_io is called to read only when the device still has data: a read
\* of it would block the loop.
NeverBlocks == run.call = "cb_in" /\ "in" \in run.events => "in" \in os.ready

\* When uv__stream_try_select fails, or the stream is closed, nothing it
\* acquired stays behind; after a failure the caller has its descriptor as it
\* was.  What uv__stream_close does wrong is exactly this: the device's
\* descriptor is not closed and fake_fd is closed twice.
SelectLeaves ==
    ~s.select => /\ os.held = {"fd"}
                 /\ os.reclosed = IF run.pc = "ended" THEN {"fake_fd"} ELSE {}

\* A thread in select() watches what the watcher asks for, or is about to be
\* interrupted.
WatchIsCurrent ==
    run.pc = "select" /\ run.call \notin {"interrupt", "join"} =>
        s.pevents \subseteq run.watch \/ os.int_fd

=============================================================================
