------------------------------- MODULE Poller -------------------------------
(***************************************************************************)
(* I/O watchers (unix/core.c) and the backends of uv__io_poll: epoll,      *)
(* kqueue, event ports, pollset, and the table for poll() of NuttX and     *)
(* TizenRT.  A pass goes through a batch of events and calls back;         *)
(* callbacks start, stop and close watchers, and descriptors are used      *)
(* again, while later events of the batch wait.                            *)
(*                                                                         *)
(* The watchers in Io belong to streams and UDP handles, those in Polls to *)
(* poll handles (unix/poll.c), whose descriptor the program opens and      *)
(* closes, and Sig is signal_io_watcher.  os.file tells files with the     *)
(* same descriptor apart.                                                  *)
(***************************************************************************)
EXTENDS Integers, Sequences, SequencesExt, FiniteSets

CONSTANTS Backends, Fds, Io, Polls, Sig, SigFd,
          MaxEvents, Count,     \* events in a batch, 1024, and batches, 48
          PollReuse,            \* the program closes a poll handle's file in callbacks
          MaxFiles, MaxReady,
          MaxPollerCalls        \* bounds, the last a function of the backend

VARIABLES
    s,      \* the watchers, loop->watchers, watcher_queue and the poll() table
    os,     \* the files, what is ready, and what the kernel reports
    run,    \* where uv__io_poll is
    hist    \* what the bounds count

vars == <<s, os, run, hist>>

None == "none"
Watchers == Io \cup Polls \cup {Sig}
AllFds == Fds \cup {SigFd}
NoWatcher == [fd |-> -1, pevents |-> {}, events |-> {}]
Idle(b) == [backend |-> b, pc |-> "none", batch |-> <<>>, i |-> 0, cur |-> None, got |-> {},
            fd |-> -1, file |-> 0, nevents |-> FALSE, signals |-> FALSE, full |-> FALSE, count |-> 0,
            zero |-> FALSE]

-----------------------------------------------------------------------------
IoStart(st, w, es) ==
    LET up == [st EXCEPT !.w[w].pevents = @ \cup es]
        fd == st.w[w].fd
    IN IF run.backend # "port" /\ up.w[w].pevents = up.w[w].events THEN up
       ELSE [up EXCEPT !.queue = IF Contains(@, w) THEN @ ELSE Append(@, w),
                       !.at[fd] = IF @ = None THEN w ELSE @]

\* Mutant of IoStop: w->events keeps what the kernel was last told.
IoStopKeeps(st, w, es) ==
    LET down == [st EXCEPT !.w[w].pevents = @ \ es]
        fd == st.w[w].fd
    IN IF fd = -1 THEN st
       ELSE IF down.w[w].pevents # {}
            THEN [down EXCEPT !.queue = IF Contains(@, w) THEN @ ELSE Append(@, w)]
            ELSE [down EXCEPT !.queue = Remove(@, w),
                              !.at[fd] = IF @ = w THEN None ELSE @]

IoStop(st, w, es) ==
    LET down == [st EXCEPT !.w[w].pevents = @ \ es]
        fd == st.w[w].fd
    IN IF fd = -1 THEN st
       ELSE IF down.w[w].pevents # {}
            THEN [down EXCEPT !.queue = IF Contains(@, w) THEN @ ELSE Append(@, w)]
            ELSE [down EXCEPT !.queue = Remove(@, w),
                              !.at[fd] = IF @ = w THEN None ELSE @,
                              !.w[w].events = IF st.at[fd] = w THEN {} ELSE @]

\* Mutant of Invalidated: events of the batch stay valid.
InvalidatedNot(batch, fd) == batch

\* uv__platform_invalidate_fd, for the events of the batch or the table.
Invalidated(batch, fd) ==
    [i \in 1..Len(batch) |-> IF batch[i].fd = fd THEN [batch[i] EXCEPT !.fd = -1] ELSE batch[i]]

-----------------------------------------------------------------------------
\* The watchers have been started, and uv__io_poll does not know them yet.
Init ==
    /\ \E b \in Backends : run = Idle(b)
    /\ LET fdOf == CHOOSE f \in [Watchers -> AllFds] : f[Sig] = SigFd /\ IsInjective(f)
       IN /\ s = [w |-> [w \in Watchers |-> [fd |-> fdOf[w], pevents |-> {"in"}, events |-> {}]],
                  at |-> [fd \in AllFds |-> CHOOSE w \in Watchers : fdOf[w] = fd],
                  queue |-> SetToSeq(Watchers), table |-> <<>>]
          /\ os = [file |-> [fd \in AllFds |-> fd],
                   ready |-> [fd \in AllFds |-> {}], interest |-> [fd \in AllFds |-> {}]]
    /\ hist = [files |-> Cardinality(AllFds), ready |-> 0, calls |-> 0]

Call == run.pc \in {"none", "cb"} /\ hist.calls < MaxPollerCalls[run.backend]
Called == hist' = [hist EXCEPT !.calls = @ + 1]

\* A handle gets a new descriptor, of which the kernel watches known: uv__io_init.
IoInit(w, fd, known) ==
    /\ Call /\ hist.files < MaxFiles /\ s.w[w].fd = -1 /\ os.file[fd] = 0
    /\ s' = [s EXCEPT !.w[w] = [NoWatcher EXCEPT !.fd = fd]]
    /\ os' = [os EXCEPT !.file[fd] = hist.files + 1, !.interest[fd] = known]
    /\ hist' = [hist EXCEPT !.calls = @ + 1, !.files = @ + 1]
    /\ UNCHANGED run

\* The descriptor of a stream or UDP handle.
Open(w, fd) == IoInit(w, fd, os.interest[fd])

\* uv__io_check_fd: what it adds to the kernel's set it deletes again.
CheckFd(known) == (known \cup {"in"}) \ {"in"}

\* uv_poll_init of a file the program has opened.
PollInit(w, fd) == IoInit(w, fd, CheckFd(os.interest[fd]))

\* A stream or UDP handle wants one more event, or one less.
Start(w, e) ==
    /\ Call /\ s.w[w].fd # -1
    /\ s' = IoStart(s, w, {e})
    /\ Called /\ UNCHANGED <<os, run>>

Stop(w, e) ==
    /\ Call /\ s.w[w].fd # -1
    /\ s' = IoStop(s, w, {e})
    /\ Called /\ UNCHANGED <<os, run>>

PollStart(w, es) ==
    /\ Call /\ s.w[w].fd # -1
    /\ s' = IoStart(IoStop(s, w, {"in", "out"}), w, es)
    /\ Called /\ UNCHANGED <<os, run>>

PollStop(w) ==
    /\ Call /\ s.w[w].fd # -1
    /\ s' = IoStop(s, w, {"in", "out"})
    /\ Called /\ UNCHANGED <<os, run>>

FileClosed(fd) ==
    os' = [os EXCEPT !.file[fd] = 0, !.ready[fd] = {}, !.interest[fd] = {}]

\* uv__io_close and uv__close of a stream or UDP handle.
Close(w) ==
    /\ Call /\ s.w[w].fd # -1
    /\ LET fd == s.w[w].fd
       IN /\ s' = [IoStop(s, w, {"in", "out"}) EXCEPT
                       !.w[w].fd = -1, !.table = Invalidated(@, fd)]
          /\ run' = [run EXCEPT !.batch = Invalidated(@, fd)]
          /\ FileClosed(fd)
    /\ Called

\* uv_close of a poll handle; then the program closes the descriptor.
PollClose(w) ==
    /\ Call /\ s.w[w].fd # -1 /\ (run.pc = "none" \/ PollReuse)
    /\ s' = [IoStop(s, w, {"in", "out"}) EXCEPT !.w[w].fd = -1]
    /\ FileClosed(s.w[w].fd)
    /\ Called /\ UNCHANGED run

\* The outside world.
Ready(fd, e) ==
    /\ os.file[fd] # 0 /\ e \notin os.ready[fd] /\ hist.ready < MaxReady
    /\ os' = [os EXCEPT !.ready[fd] = @ \cup {e}]
    /\ hist' = [hist EXCEPT !.ready = @ + 1]
    /\ UNCHANGED <<s, run>>

-----------------------------------------------------------------------------
\* The loop over watcher_queue in uv__io_poll tells the kernel the new events
\* of a watcher.  EPOLL_CTL_ADD of a known descriptor becomes EPOLL_CTL_MOD ...
EpollCtl(w, known) == w.pevents

\* ... kqueue gets filters that are new, and keeps the others ...
KqueueAdd(w, known) == known \cup (w.pevents \ w.events)

\* ... an event port forgets what it reported ...
PortAssociate(w, known) == w.pevents

\* ... and pollset_ctl() deletes and adds.
PollsetCtl(w, known) == w.pevents

Known(w, known) ==
    CASE run.backend = "epoll" -> EpollCtl(w, known)
      [] run.backend = "kqueue" -> KqueueAdd(w, known)
      [] run.backend = "port" -> PortAssociate(w, known)
      [] run.backend = "pollset" -> PollsetCtl(w, known)
      [] OTHER -> known

\* The calls of epoll_ctl() and pollset_ctl() that would fail: a change of a
\* descriptor that is not in the set.
Aborts ==
    run.backend \in {"epoll", "pollset"}
    /\ \E w \in Range(s.queue) : s.w[w].events # {} /\ os.interest[s.w[w].fd] = {}

\* uv__add_pollfd
AddPollfd(table, w) ==
    LET same == {i \in 1..Len(table) : table[i].fd = w.fd}
        free == {i \in 1..Len(table) : table[i].fd = -1}
        new == [fd |-> w.fd, events |-> w.pevents, revents |-> {}, file |-> 0]
    IN IF same # {}
       THEN [table EXCEPT ![CHOOSE i \in same : \A j \in same : i <= j].events = w.pevents]
       ELSE IF free # {} THEN [table EXCEPT ![CHOOSE i \in free : \A j \in free : i >= j] = new]
       ELSE Append(table, new)

\* uv__rem_pollfd(loop, &pollfds[i]).  The argument points into the table, where
\* the entry it compares with is overwritten: pe is what it last held.
RECURSIVE RemPollfd(_, _, _, _)
RemPollfd(table, j, i, pe) ==
    LET now == IF i <= Len(table) THEN table[i].fd ELSE pe
    IN IF j > Len(table) THEN table
       ELSE IF table[j].fd = now
            THEN RemPollfd(SubSeq([table EXCEPT ![j] = Last(table)], 1, Len(table) - 1), j, i, now)
            ELSE RemPollfd(table, j + 1, i, now)

Registered(table) ==
    LET Added[n \in 0..Len(s.queue)] ==
            IF n = 0 THEN table ELSE AddPollfd(Added[n - 1], s.w[s.queue[n]])
    IN Added[Len(s.queue)]

\* uv__io_poll up to the wait.
PollBegins ==
    /\ run.pc = "none" /\ \E fd \in AllFds : s.at[fd] # None
    /\ LET queued == ToSet(s.queue)
       IN /\ s' = [s EXCEPT !.queue = <<>>,
                            !.w = [w \in Watchers |-> IF w \in queued
                                       THEN [s.w[w] EXCEPT !.events = s.w[w].pevents] ELSE s.w[w]],
                            !.table = IF run.backend = "table" THEN Registered(@) ELSE @]
          /\ os' = [os EXCEPT !.interest =
                        [fd \in AllFds |-> IF \E w \in queued : s.w[w].fd = fd
                             THEN Known(s.w[s.at[fd]], os.interest[fd]) ELSE os.interest[fd]]]
    /\ run' = [run EXCEPT !.pc = "wait", !.count = Count, !.zero = FALSE]
    /\ UNCHANGED hist

-----------------------------------------------------------------------------
\* What the kernel can report.  An error is reported without being asked for.
Events ==
    IF run.backend = "kqueue"
    THEN {[fd |-> fd, ev |-> {e}, file |-> os.file[fd]] :
              <<fd, e>> \in {p \in AllFds \X {"in", "out"} :
                                 p[2] \in os.ready[p[1]] \cap os.interest[p[1]]}}
    ELSE {[fd |-> fd, ev |-> os.ready[fd] \cap (os.interest[fd] \cup {"err"}),
           file |-> os.file[fd]] :
              fd \in {f \in AllFds : os.interest[f] # {}
                                     /\ os.ready[f] \cap (os.interest[f] \cup {"err"}) # {}}}

Batches(n) == {q \in [1..n -> Events] : \A i, j \in 1..n : i # j => q[i] # q[j]}

\* The wait returns a batch, in any order; an event port forgets what it reports.
Wait ==
    /\ run.pc = "wait" /\ run.backend # "table" /\ Events # {}
    /\ LET n == IF Cardinality(Events) < MaxEvents THEN Cardinality(Events) ELSE MaxEvents
       IN \E q \in Batches(n) :
              /\ run' = [run EXCEPT !.pc = "event", !.batch = q, !.nevents = FALSE,
                                    !.signals = FALSE, !.full = (n = MaxEvents)]
              /\ os' = IF run.backend = "port"
                       THEN [os EXCEPT !.interest = [fd \in AllFds |->
                                 IF \E i \in 1..n : q[i].fd = fd THEN {} ELSE @[fd]]]
                       ELSE os
    /\ UNCHANGED <<s, hist>>

\* poll() with the table: revents of every entry, and an error for a descriptor
\* that is not open.
Revents(p) ==
    IF p.fd = -1 THEN p ELSE [p EXCEPT !.revents = os.ready[p.fd] \cap p.events,
                                       !.file = os.file[p.fd]]

TableReady ==
    \E i \in 1..Len(s.table) : LET p == s.table[i]
                               IN p.fd # -1 /\ (Revents(p).revents # {} \/ os.file[p.fd] = 0)

TableWait ==
    /\ run.pc = "wait" /\ run.backend = "table" /\ TableReady
    /\ s' = [s EXCEPT !.table = [i \in 1..Len(@) |-> Revents(@[i])]]
    /\ run' = [run EXCEPT !.pc = "event", !.i = 1, !.nevents = FALSE]
    /\ UNCHANGED <<os, hist>>

\* poll() fails: the pass goes on with the revents of the last call.
TableFails ==
    /\ run.pc = "wait" /\ run.backend = "table" /\ hist.ready < MaxReady
    /\ run' = [run EXCEPT !.pc = "event", !.i = 1, !.nevents = FALSE]
    /\ hist' = [hist EXCEPT !.ready = @ + 1]
    /\ UNCHANGED <<s, os>>

\* Nothing is ready: a time-out, or the wait was not to block.
Returned == run' = Idle(run.backend)

WaitEnds ==
    /\ run.pc = "wait" /\ Returned
    /\ IF run.backend = "table" THEN ~TableReady ELSE Events = {}
    /\ UNCHANGED <<s, os, hist>>

-----------------------------------------------------------------------------
\* The body of the loop over the batch: w->cb, or the signal watcher is left for
\* the end.  uv__poll_io stops the handle when there is an error.
Deliver(e, w, ev) ==
    IF w = Sig
    THEN /\ run' = [run EXCEPT !.batch = Tail(@), !.signals = TRUE, !.nevents = TRUE]
         /\ s' = IF run.backend = "port" /\ ~Contains(s.queue, Sig)
                 THEN [s EXCEPT !.queue = Append(@, Sig)] ELSE s
    ELSE /\ run' = [run EXCEPT !.batch = Tail(@), !.pc = "cb", !.cur = w, !.got = ev,
                               !.fd = e.fd, !.file = e.file, !.nevents = TRUE]
         /\ s' = IF w \in Polls /\ "err" \in ev THEN IoStop(s, w, {"in", "out"}) ELSE s

Skip == run' = [run EXCEPT !.batch = Tail(@)] /\ UNCHANGED s
Forget(e, es) == os' = [os EXCEPT !.interest[e.fd] = @ \ es]

\* Only wanted events, and all of them after just an error.
EpollEvents(ev, w) ==
    LET wanted == ev \cap (s.w[w].pevents \cup {"err"})
    IN IF wanted = {"err"} THEN wanted \cup s.w[w].pevents ELSE wanted

EpollEvent(e) ==
    LET w == s.at[e.fd]
    IN IF w = None THEN Skip /\ Forget(e, {"in", "out"})
       ELSE /\ IF EpollEvents(e.ev, w) = {} THEN Skip ELSE Deliver(e, w, EpollEvents(e.ev, w))
            /\ UNCHANGED os

KqueueEvent(e) ==
    LET w == s.at[e.fd]
    IN IF w = None \/ e.ev \cap s.w[w].pevents = {} THEN Skip /\ Forget(e, e.ev)
       ELSE Deliver(e, w, e.ev) /\ UNCHANGED os

PortEvent(e) ==
    LET w == s.at[e.fd]
    IN /\ IF w = None THEN Skip ELSE Deliver(e, w, e.ev)
       /\ UNCHANGED os

PollsetEvent(e) ==
    LET w == s.at[e.fd]
    IN IF w = None THEN Skip /\ Forget(e, {"in", "out"})
       ELSE Deliver(e, w, e.ev) /\ UNCHANGED os

Event ==
    /\ run.pc = "event" /\ run.backend # "table" /\ run.batch # <<>>
    /\ LET e == Head(run.batch)
       IN CASE e.fd = -1 -> Skip /\ UNCHANGED os
            [] e.fd # -1 /\ run.backend = "epoll" -> EpollEvent(e)
            [] e.fd # -1 /\ run.backend = "kqueue" -> KqueueEvent(e)
            [] e.fd # -1 /\ run.backend = "port" -> PortEvent(e)
            [] e.fd # -1 /\ run.backend = "pollset" -> PollsetEvent(e)
    /\ UNCHANGED hist

\* The loop over the table.  For an entry that was invalidated, watchers[-1] is
\* whatever is in front of the array.
TableEvent ==
    /\ run.pc = "event" /\ run.backend = "table" /\ run.i <= Len(s.table)
    /\ LET p == s.table[run.i]
           w == IF p.fd = -1 THEN None ELSE s.at[p.fd]
       IN \/ /\ w = None
             /\ s' = [s EXCEPT !.table = RemPollfd(@, 1, run.i, 0)]
             /\ UNCHANGED run
          \/ /\ IF w = None THEN p.fd = -1 ELSE p.revents = {}
             /\ run' = [run EXCEPT !.i = @ + 1]
             /\ UNCHANGED s
          \/ /\ w # None /\ p.revents # {}
             /\ run' = [run EXCEPT !.pc = "cb", !.cur = w, !.got = p.revents, !.fd = p.fd,
                                   !.file = p.file, !.nevents = TRUE]
             /\ UNCHANGED s
    /\ UNCHANGED <<os, hist>>

\* Event ports: the watcher is associated again, unless the callback stopped it.
Rearmed(st, fd, w) ==
    IF run.backend = "port" /\ st.at[fd] = w /\ st.w[w].pevents # {} /\ ~Contains(st.queue, w)
    THEN [st EXCEPT !.queue = Append(@, w)] ELSE st

\* The callback returns; it may have taken what was ready.
CbReturns ==
    /\ run.pc = "cb"
    /\ \E taken \in {{}, run.got} : os' = [os EXCEPT !.ready[run.fd] = @ \ taken]
    /\ s' = Rearmed(s, run.fd, run.cur)
    /\ run' = [run EXCEPT !.pc = "event", !.cur = None, !.got = {}, !.fd = -1, !.file = 0,
                          !.i = IF run.backend = "table" THEN @ + 1 ELSE @]
    /\ UNCHANGED hist

\* Another batch, without blocking: after a full one, up to Count batches.
Again == (run.full \/ run.backend = "table") /\ run.count > 1

\* Mutant of Left: full batches are not counted.
LeftAll == run.count

\* The number of batches that may follow, less this one.
Left == run.count - 1

\* The end of a batch.
BatchEnds ==
    /\ run.pc = "event"
    /\ IF run.backend = "table" THEN run.i > Len(s.table) ELSE run.batch = <<>>
    /\ IF run.signals THEN run' = [run EXCEPT !.pc = "signals"]
       ELSE IF run.nevents /\ Again
            THEN run' = [Idle(run.backend) EXCEPT !.pc = "wait", !.count = Left,
                                                  !.zero = TRUE]
       ELSE IF run.nevents \/ run.zero THEN Returned
       ELSE run' = [Idle(run.backend) EXCEPT !.pc = "wait", !.count = run.count]
    /\ UNCHANGED <<s, os, hist>>

\* uv__signal_event, then uv__io_poll returns.
SignalEvent ==
    /\ run.pc = "signals"
    /\ os' = [os EXCEPT !.ready[SigFd] = {}]
    /\ Returned /\ UNCHANGED <<s, hist>>

LoopStep ==
    PollBegins \/ Wait \/ TableWait \/ WaitEnds \/ Event \/ TableEvent \/ CbReturns
    \/ BatchEnds \/ SignalEvent

Next ==
    \/ LoopStep \/ TableFails
    \/ \E fd \in AllFds, e \in {"in", "out", "err"} :
           /\ fd = SigFd => e = "in"
           /\ e = "err" => run.backend \in {"epoll", "port", "pollset"}
           /\ Ready(fd, e)
    \/ \E w \in Io : \/ Close(w) \/ (\E fd \in Fds : Open(w, fd))
                     \/ \E e \in {"in", "out"} : Start(w, e) \/ Stop(w, e)
    \/ \E w \in Polls : \/ PollStop(w) \/ PollClose(w) \/ (\E fd \in Fds : PollInit(w, fd))
                        \/ \E es \in SUBSET {"in", "out"} \ {{}} : PollStart(w, es)

\* uv_run goes on.
Spec == Init /\ [][Next]_vars /\ WF_vars(LoopStep)

-----------------------------------------------------------------------------
\* The type invariant.
TypeOK ==
    /\ \A w \in Watchers : s.w[w].fd \in AllFds \cup {-1}
                           /\ s.w[w].pevents \cup s.w[w].events \subseteq {"in", "out"}
    /\ \A fd \in AllFds : s.at[fd] \in Watchers \cup {None}
                          /\ (os.file[fd] = 0 => os.interest[fd] = {})
    /\ run.count \in 0..Count /\ Len(run.batch) <= MaxEvents

\* The assertions of uv__io_poll and uv__io_stop: what is in loop->watchers are
\* exactly the watchers with events, under their descriptors, only they are in
\* watcher_queue, and no change of the kernel's set fails.
WatchersExact ==
    /\ \A w \in Watchers : s.w[w].pevents # {} <=> (\E fd \in AllFds : s.at[fd] = w)
    /\ \A fd \in AllFds : s.at[fd] # None => s.w[s.at[fd]].fd = fd
    /\ \A i \in 1..Len(s.queue) : s.w[s.queue[i]].pevents # {}
    /\ run.pc = "none" => ~Aborts

\* uv__io_poll calls a callback.
Calls == run.pc # "cb" /\ run'.pc = "cb"

\* The epoll and kqueue backends pass on only what the watcher wants, although
\* an earlier callback of the batch may have stopped it.
CallbackWanted ==
    [][Calls /\ run.backend \in {"epoll", "kqueue"} =>
           run'.got \subseteq s.w[run'.cur].pevents \cup {"err"}]_vars

\* When uv__io_poll blocks, the kernel knows every event the watchers want.
InterestKept ==
    run.pc = "wait" /\ ~run.zero /\ run.backend \in {"epoll", "port", "pollset"} =>
        \A w \in Watchers : s.w[w].pevents # {} =>
            s.w[w].pevents \subseteq os.interest[s.w[w].fd]

=============================================================================
