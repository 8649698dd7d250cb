------------------------------ MODULE Process -------------------------------
(***************************************************************************)
(* Child processes (unix/process.c): uv_spawn, the reaping of children in  *)
(* uv__chld, and closing.  The queues are rings of nodes as queue.h builds *)
(* them, because an exit callback may close processes that are in the list *)
(* uv__chld walks.  Then, each by itself: the descriptors of parent and    *)
(* child, and what other threads open in the meantime.                     *)
(*                                                                         *)
(* SIGCHLD is a flag of the kernel, then messages in the pipe of the loop  *)
(* (see Signal), then a call of uv__chld.                                  *)
(***************************************************************************)
EXTENDS Integers, Sequences, SequencesExt, FiniteSets, FiniteSetsExt

CONSTANTS Procs,
          MaxMessages,          \* room in the signal pipe
          MaxProcessCalls,      \* bound
          OpenFds,              \* open in the parent before uv_spawn
          Containers, MaxStdio, MaxFd,
          Workers,              \* threads of the pool, each in uv__fs_open
          OneLock,              \* all belong to the loop that forks
          MarkFails,            \* uv__cloexec may fail for a descriptor that was received
          MaxOpens, MaxForks    \* bounds

VARIABLES
    s,      \* the structures of libtuv: the handles, the two rings, and the child_watcher
    os,     \* what the system holds: the children, SIGCHLD, and the messages in the pipe
    run,    \* the place of the threads in the code: where uv__chld is
    hist    \* what the bounds count, and the exits reported

vars == <<s, os, run, hist>>

Nodes == Procs \cup {"handles", "pending"}

Init ==
    /\ s = [next |-> [n \in Nodes |-> n], prev |-> [n \in Nodes |-> n],
            handle |-> [p \in Procs |-> "none"], active |-> {}, watcher |-> FALSE]
    /\ os = [child |-> [p \in Procs |-> "none"], sigchld |-> FALSE, messages |-> 0]
    /\ run = [call |-> "none", q |-> "none"]
    /\ hist = [calls |-> 0, exits |-> [p \in Procs |-> 0]]

-----------------------------------------------------------------------------
\* QUEUE_INIT, QUEUE_REMOVE and QUEUE_INSERT_TAIL
QueueInit(st, n) == [st EXCEPT !.next[n] = n, !.prev[n] = n]

QueueRemove(st, n) ==
    [st EXCEPT !.next[st.prev[n]] = st.next[n], !.prev[st.next[n]] = st.prev[n]]

InsertTail(st, h, n) ==
    [st EXCEPT !.next = [@ EXCEPT ![n] = h, ![st.prev[h]] = n],
               !.prev = [@ EXCEPT ![n] = st.prev[h], ![h] = n]]

Empty(st, h) == st.next[h] = h

HandleStop(st, p) == [st EXCEPT !.active = @ \ {p}]

-----------------------------------------------------------------------------
\* The program calls the API, outside uv__chld or in an exit callback.
Call == run.call \in {"none", "exit_cb"} /\ hist.calls < MaxProcessCalls
Called == hist' = [hist EXCEPT !.calls = @ + 1]

\* uv_spawn fails before fork(); only the handle is initialised.
SpawnFails(p) ==
    /\ Call /\ s.handle[p] = "none"
    /\ s' = [QueueInit(s, p) EXCEPT !.handle[p] = "open"]
    /\ Called /\ UNCHANGED <<os, run>>

\* uv_spawn whose fork() fails: the child_watcher has been started.
ForkFails(p) ==
    /\ Call /\ s.handle[p] = "none"
    /\ s' = [QueueInit(s, p) EXCEPT !.handle[p] = "open", !.watcher = TRUE]
    /\ Called /\ UNCHANGED <<os, run>>

\* uv_spawn whose child cannot exec(): it is waited for, and SIGCHLD comes.
ExecFails(p) ==
    /\ Call /\ s.handle[p] = "none"
    /\ s' = [QueueInit(s, p) EXCEPT !.handle[p] = "open", !.watcher = TRUE]
    /\ os' = [os EXCEPT !.child[p] = "reaped", !.sigchld = TRUE]
    /\ Called /\ UNCHANGED run

\* uv_spawn
Spawn(p) ==
    /\ Call /\ s.handle[p] = "none"
    /\ s' = [InsertTail(QueueInit(s, p), "handles", p) EXCEPT
                 !.handle[p] = "open", !.active = @ \cup {p}, !.watcher = TRUE]
    /\ os' = [os EXCEPT !.child[p] = "running"]
    /\ Called /\ UNCHANGED run

\* uv_spawn that fails although the child runs: nobody waits for it.
StreamFails(p) ==
    /\ Call /\ s.handle[p] = "none"
    /\ s' = [QueueInit(s, p) EXCEPT !.handle[p] = "open", !.watcher = TRUE]
    /\ os' = [os EXCEPT !.child[p] = "running"]
    /\ Called /\ UNCHANGED run

\* Mutant of Close: the process stays in its ring.
CloseLinked(p) ==
    /\ Call /\ s.handle[p] = "open"
    /\ s' = [HandleStop(s, p) EXCEPT !.handle[p] = "closing",
                                     !.watcher = @ /\ ~Empty(s, "handles")]
    /\ Called /\ UNCHANGED <<os, run>>

\* uv_close and uv__process_close
Close(p) ==
    /\ Call /\ s.handle[p] = "open"
    /\ LET st == HandleStop(QueueRemove(s, p), p)
       IN s' = [st EXCEPT !.handle[p] = "closing",
                          !.watcher = @ /\ ~Empty(st, "handles")]
    /\ Called /\ UNCHANGED <<os, run>>

FinishClose(p) ==
    /\ run.call = "none" /\ s.handle[p] = "closing"
    /\ s' = [s EXCEPT !.handle[p] = "closed"]
    /\ UNCHANGED <<os, run, hist>>

-----------------------------------------------------------------------------
\* The children and SIGCHLD: one signal may stand for several children, and
\* it is discarded when nobody watches it.
ChildExits(p) ==
    /\ os.child[p] = "running"
    /\ os' = [os EXCEPT !.child[p] = "exited", !.sigchld = s.watcher \/ @]
    /\ UNCHANGED <<s, run, hist>>

Sigchld ==
    /\ os.sigchld
    /\ os' = [os EXCEPT !.sigchld = FALSE,
                        !.messages = IF s.watcher /\ @ < MaxMessages THEN @ + 1 ELSE @]
    /\ UNCHANGED <<s, run, hist>>

\* The list of the loop, from its head.
List(st) ==
    LET From[n \in Nodes] == IF n = "handles" THEN <<>> ELSE <<n>> \o From[st.next[n]]
    IN From[st.next["handles"]]

\* Mutant of Exited: the walk ends at the first child that still runs.
ExitedFirst(st) ==
    IF Empty(st, "handles") \/ os.child[Head(List(st))] # "exited" THEN <<>>
    ELSE <<Head(List(st))>>

\* The processes waitpid() reports to the first walk of uv__chld.
Exited(st) == SelectSeq(List(st), LAMBDA p : os.child[p] = "exited")

\* ... which move to the pending ring.
Moved(st) ==
    LET q == Exited(st)
        Round[i \in 0..Len(q)] ==
            IF i = 0 THEN QueueInit(st, "pending")
            ELSE InsertTail(QueueRemove(Round[i - 1], q[i]), "pending", q[i])
    IN Round[Len(q)]

\* The signal_cb of the child_watcher, up to the second walk.
Chld ==
    /\ run.call = "none" /\ os.messages > 0
    /\ IF s.watcher
       THEN LET exited == ToSet(Exited(s))
            IN /\ s' = Moved(s)
               /\ os' = [os EXCEPT !.messages = @ - 1,
                                   !.child = [p \in Procs |-> IF p \in exited THEN "reaped"
                                                              ELSE os.child[p]]]
               /\ run' = [call |-> "walk", q |-> s'.next["pending"]]
       ELSE os' = [os EXCEPT !.messages = @ - 1] /\ UNCHANGED <<s, run>>
    /\ UNCHANGED hist

\* Mutant of WalkExit: the next node is read after the removal.
WalkExitLate ==
    /\ run.call = "walk" /\ run.q # "pending"
    /\ s' = HandleStop(QueueInit(QueueRemove(s, run.q), run.q), run.q)
    /\ hist' = [hist EXCEPT !.exits[run.q] = @ + 1]
    /\ run' = [call |-> "exit_cb", q |-> s'.next[run.q]]
    /\ UNCHANGED os

\* One round of the second walk, up to exit_cb; the next node is read before.
WalkExit ==
    /\ run.call = "walk" /\ run.q # "pending"
    /\ s' = HandleStop(QueueInit(QueueRemove(s, run.q), run.q), run.q)
    /\ hist' = [hist EXCEPT !.exits[run.q] = @ + 1]
    /\ run' = [call |-> "exit_cb", q |-> s.next[run.q]]
    /\ UNCHANGED os

ExitCbReturns ==
    /\ run.call = "exit_cb"
    /\ run' = [run EXCEPT !.call = "walk"]
    /\ UNCHANGED <<s, os, hist>>

WalkEnds ==
    /\ run.call = "walk" /\ run.q = "pending"
    /\ run' = [call |-> "none", q |-> "none"]
    /\ UNCHANGED <<s, os, hist>>

LoopStep ==
    Chld \/ WalkExit \/ ExitCbReturns \/ WalkEnds \/ \E p \in Procs : FinishClose(p)

Next ==
    \/ LoopStep \/ Sigchld
    \/ \E p \in Procs :
           \/ SpawnFails(p) \/ ForkFails(p) \/ ExecFails(p) \/ Spawn(p) \/ StreamFails(p)
           \/ Close(p) \/ ChildExits(p)

\* The loop runs on, and signals arrive.
Fairness == WF_vars(LoopStep) /\ WF_vars(Sigchld)

Spec == Init /\ [][Next]_vars

-----------------------------------------------------------------------------
\* The type invariant.
TypeOK ==
    /\ s.next \in [Nodes -> Nodes] /\ s.prev \in [Nodes -> Nodes]
    /\ s.active \subseteq Procs /\ os.messages \in 0..MaxMessages
    /\ run.q \in Nodes \cup {"none"}

\* The list of the loop is a ring of exactly the active processes that have not
\* been reaped, and after uv__chld the pending ring is empty, as the assertion
\* there says, whatever the exit callbacks closed.
RingsSound ==
    /\ LET ring == {p \in s.active : os.child[p] # "reaped"} \cup {"handles"}
       IN /\ {s.next[n] : n \in ring} = ring
          /\ \A n \in ring : s.prev[s.next[n]] = n
          /\ Len(List(s)) + 1 = Cardinality(ring)
    /\ run.call = "none" => Empty(s, "pending") /\ s.prev["pending"] = "pending"

\* While a process is in the list, SIGCHLD is watched.
WatcherRuns == ~Empty(s, "handles") => s.watcher

\* No exit is reported twice, and only a child that exited is reported.
ExitOnce ==
    \A p \in Procs : hist.exits[p] <= 1 /\ (hist.exits[p] = 1 => os.child[p] = "reaped")

\* A child that exits is reported, unless its handle is closed.
ExitReported ==
    \A p \in Procs : p \in s.active /\ os.child[p] = "exited"
                     ~> hist.exits[p] = 1 \/ s.handle[p] # "open"
-----------------------------------------------------------------------------
(***************************************************************************)
(* What uv_spawn does with descriptors (unix/process.c): the stdio of the  *)
(* child, the pipe that reports a failed exec(), and giving everything     *)
(* back on an error.                                                       *)
(*                                                                         *)
(* A table of descriptors maps numbers to open files; the child's starts   *)
(* as a copy.  A stdio container is UV_IGNORE, UV_CREATE_PIPE (Busy when   *)
(* its stream is open already) or the descriptor to inherit.               *)
(***************************************************************************)
\* s: the stdio containers and the pipes for them
\* os: the tables of descriptors, the child's close-on-exec ones
\* run: where the parent and the child are
\* hist: the closes that hit nothing, and the result

Ignore == -1
CreatePipe == -2
Busy == -3

Fds == 0..MaxFd
Parent == [fd \in Fds |-> IF fd \in OpenFds THEN <<"d", fd>> ELSE <<"free">>]

\* stdio_count of the child is at least 3.
Count == IF Len(s.stdio) < 3 THEN 3 ELSE Len(s.stdio)
Slots == 0..(Count - 1)
Container(i) == IF i < Len(s.stdio) THEN s.stdio[i + 1] ELSE Ignore
Piped(i) == Container(i) \in {CreatePipe, Busy}

SpawnInit ==
    /\ s \in [stdio : UNION {[1..n -> Containers] : n \in 1..MaxStdio},
              pipes : {[i \in 0..(MaxStdio + 2) |-> <<-1, -1>>]}, signal : {<<-1, -1>>},
              streams : {{}}]
    /\ os = [parent |-> Parent, child |-> Parent, cloexec |-> {}, status |-> "none"]
    /\ run = [parent |-> "stdio", i |-> 0, child |-> "none", fd |-> 0]
    /\ hist = [badclose |-> 0, err |-> "none"]

-----------------------------------------------------------------------------
Free(t, min) == Min({fd \in Fds : fd >= min /\ t[fd] = <<"free">>})
Opened(t, fd, file) == [t EXCEPT ![fd] = file]
Closed(t, fds) == [fd \in Fds |-> IF fd \in fds THEN <<"free">> ELSE t[fd]]
BadCloses(t, fds) == Cardinality({fd \in fds : t[fd] = <<"free">>})

\* A pipe or a socketpair takes the two lowest free descriptors.
Pair(t, name) ==
    LET a == Free(t, 0)
        b == Free(Opened(t, a, Append(name, 0)), 0)
    IN [fds |-> <<a, b>>, table |-> Opened(Opened(t, a, Append(name, 0)), b, Append(name, 1))]

Goto(pc, i) == run' = [run EXCEPT !.parent = pc, !.i = i]

\* One round of the loop over uv__process_init_stdio; a socketpair may fail.
InitStdio ==
    /\ run.parent = "stdio" /\ run.i < Len(s.stdio)
    /\ IF Piped(run.i)
       THEN \/ LET p == Pair(os.parent, <<"pipe", run.i>>)
               IN /\ s' = [s EXCEPT !.pipes[run.i] = p.fds]
                  /\ os' = [os EXCEPT !.parent = p.table]
                  /\ Goto("stdio", run.i + 1) /\ UNCHANGED hist
            \/ /\ Goto("error", 0) /\ UNCHANGED <<s, os>>
               /\ hist' = [hist EXCEPT !.err = "socketpair"]
       ELSE /\ s' = IF Container(run.i) = Ignore THEN s
                    ELSE [s EXCEPT !.pipes[run.i][2] = Container(run.i)]
            /\ Goto("stdio", run.i + 1) /\ UNCHANGED <<os, hist>>

MakePipe ==
    /\ run.parent = "stdio" /\ run.i = Len(s.stdio)
    /\ \/ LET p == Pair(os.parent, <<"signal">>)
          IN /\ s' = [s EXCEPT !.signal = p.fds]
             /\ os' = [os EXCEPT !.parent = p.table]
             /\ Goto("fork", 0) /\ UNCHANGED hist
       \/ /\ Goto("error", 0) /\ UNCHANGED <<s, os>>
          /\ hist' = [hist EXCEPT !.err = "pipe"]

CloexecOf(t) == {fd \in Fds : t[fd][1] \notin {"free", "d", "null"}}

Fork ==
    /\ run.parent = "fork"
    /\ \/ /\ os' = [os EXCEPT !.child = os.parent, !.cloexec = CloexecOf(os.parent),
                              !.parent = Closed(@, {s.signal[2]})]
          /\ run' = [run EXCEPT !.parent = "read", !.child = "low"]
          /\ UNCHANGED hist
       \/ /\ os' = [os EXCEPT !.parent = Closed(@, {s.signal[1], s.signal[2]})]
          /\ Goto("error", 0)
          /\ hist' = [hist EXCEPT !.err = "fork"]
    /\ UNCHANGED s

-----------------------------------------------------------------------------
\* uv__process_child_init.  A step may fail; then the error is written to the
\* pipe, if the descriptor is still its end.
ChildFails ==
    /\ run.child \in {"low", "dup", "exec"}
    /\ os' = [os EXCEPT !.status = IF os.child[s.signal[2]] = <<"signal", 1>>
                                   THEN "error" ELSE "eof"]
    /\ run' = [run EXCEPT !.child = "exited"]
    /\ UNCHANGED <<s, hist>>

NextSlot(pass, next) ==
    run' = [run EXCEPT !.child = IF run.fd + 1 = Count THEN next ELSE pass,
                       !.fd = IF run.fd + 1 = Count THEN 0 ELSE @ + 1]

Use(fd) == s.pipes[fd][2]

\* Mutant of LowUses: descriptors below their slot are used as they are.
LowUsesNot(fd) == FALSE

\* The first loop looks for descriptors an earlier slot would replace.
LowUses(fd) == Use(fd) >= 0 /\ Use(fd) < fd

DupLow ==
    /\ run.child = "low"
    /\ IF LowUses(run.fd)
       THEN LET to == Free(os.child, Count)
            IN /\ os' = [os EXCEPT !.child = Opened(@, to, os.child[Use(run.fd)])]
               /\ s' = [s EXCEPT !.pipes[run.fd][2] = to]
       ELSE UNCHANGED <<s, os>>
    /\ NextSlot("low", "dup") /\ UNCHANGED hist

\* The second loop puts each file in its slot; a slot without one below 3 gets
\* /dev/null.
DupSlot ==
    /\ run.child = "dup"
    /\ IF Use(run.fd) < 0 /\ run.fd >= 3 THEN UNCHANGED os
       ELSE LET null == Use(run.fd) < 0
                use == IF null THEN Free(os.child, 0) ELSE Use(run.fd)
                opened == IF null THEN Opened(os.child, use, <<"null">>) ELSE os.child
                close == IF null THEN use ELSE s.pipes[run.fd][1]
                dup == Opened(opened, run.fd, opened[use])
            IN os' = [os EXCEPT !.child = IF close >= Count THEN Closed(dup, {close}) ELSE dup,
                                !.cloexec = @ \ {run.fd}]
    /\ NextSlot("dup", "close") /\ UNCHANGED <<s, hist>>

\* Mutant of CloseUsed: the copies stay open.
CloseUsedNot(t) == t

\* The third loop closes the descriptors that were copied.
CloseUsed(t) == Closed(t, {Use(fd) : fd \in {i \in Slots : Use(i) >= Count}})

CloseUses ==
    /\ run.child = "close"
    /\ os' = [os EXCEPT !.child = CloseUsed(@)]
    /\ run' = [run EXCEPT !.child = "exec"]
    /\ UNCHANGED <<s, hist>>

\* execvp() closes the close-on-exec descriptors, the end of the pipe too.
Exec ==
    /\ run.child = "exec"
    /\ os' = [os EXCEPT !.child = Closed(@, os.cloexec), !.status = "eof"]
    /\ run' = [run EXCEPT !.child = "running"]
    /\ UNCHANGED <<s, hist>>

-----------------------------------------------------------------------------

\* The parent reads the error of the child, or the end of the pipe.
ReadStatus ==
    /\ run.parent = "read" /\ os.status # "none"
    /\ os' = [os EXCEPT !.parent = Closed(@, {s.signal[1]})]
    /\ hist' = [hist EXCEPT !.err = IF os.status = "error" THEN "exec" ELSE "none"]
    /\ Goto("streams", 0) /\ UNCHANGED s

\* One round of uv__process_open_stream: the child's end is closed and the
\* stream opened.  When that fails, the streams before it are closed.
OpenStream ==
    /\ run.parent = "streams" /\ run.i < Len(s.stdio)
    /\ IF ~Piped(run.i) THEN Goto("streams", run.i + 1) /\ UNCHANGED <<s, os, hist>>
       ELSE LET t == Closed(os.parent, {s.pipes[run.i][2]})
            IN IF Container(run.i) = CreatePipe
               THEN /\ s' = [s EXCEPT !.pipes[run.i][2] = -1,
                                      !.streams = @ \cup {s.pipes[run.i][1]}]
                    /\ os' = [os EXCEPT !.parent = t]
                    /\ Goto("streams", run.i + 1) /\ UNCHANGED hist
               ELSE /\ s' = [s EXCEPT !.pipes[run.i][2] = -1, !.streams = {}]
                    /\ os' = [os EXCEPT !.parent = Closed(t, s.streams)]
                    /\ Goto("error", 0)
                    /\ hist' = [hist EXCEPT !.err = "busy"]

Spawned ==
    /\ run.parent = "streams" /\ run.i = Len(s.stdio)
    /\ Goto("done", 0) /\ UNCHANGED <<s, os, hist>>

\* What the error label closes: the pipes of the call.
Owned ==
    {s.pipes[i][k] : i \in {j \in Slots : Container(j) < 0},
                     k \in {1, 2}} \ {-1}

Error ==
    /\ run.parent = "error"
    /\ os' = [os EXCEPT !.parent = Closed(@, Owned)]
    /\ hist' = [hist EXCEPT !.badclose = @ + BadCloses(os.parent, Owned)]
    /\ Goto("done", 0) /\ UNCHANGED s

SpawnNext ==
    \/ InitStdio \/ MakePipe \/ Fork \/ ReadStatus \/ OpenStream \/ Spawned \/ Error
    \/ DupLow \/ DupSlot \/ CloseUses \/ Exec \/ ChildFails

SpawnSpec == SpawnInit /\ [][SpawnNext]_vars

-----------------------------------------------------------------------------
\* The type invariant.
SpawnTypeOK ==
    /\ run.i \in 0..MaxStdio /\ run.fd \in Slots
    /\ DOMAIN os.parent = Fds /\ DOMAIN os.child = Fds /\ os.cloexec \subseteq Fds

\* The program that is executed has in every slot what its container says,
\* whatever descriptors overlap with the slots.
ChildHasStdio ==
    run.child = "running" =>
        \A i \in Slots :
            CASE Container(i) = Ignore -> i < 3 => os.child[i] = <<"null">>
              [] Piped(i) -> os.child[i] = <<"pipe", i, 1>>
              [] OTHER -> os.child[i] = <<"d", Container(i)>>

\* It has no descriptor beyond its slots and those its parent had.
ChildIsClean ==
    run.child = "running" =>
        \A fd \in Fds \ Slots : os.child[fd] # <<"free">> => fd \in OpenFds

\* A failed uv_spawn leaves the descriptors of the parent as they were, and a
\* successful one adds its ends of the pipes.
ParentRestored ==
    run.parent = "done" =>
        /\ hist.badclose = 0
        /\ LET before == Parent
           IN \A fd \in Fds : os.parent[fd] # before[fd] =>
                  hist.err \in {"none", "exec"} /\ fd \in s.streams

\* uv_spawn succeeds exactly when the child got as far as exec().
ExecErrorSeen == run.parent = "done" => (hist.err = "none" <=> run.child = "running")

-----------------------------------------------------------------------------
(***************************************************************************)
(* Descriptors are not inherited by child processes (core.c, fs.c): where  *)
(* the kernel cannot open a descriptor close-on-exec in one call, the      *)
(* worker threads do it in two under the read lock cloexec_lock, whose     *)
(* write lock uv_spawn holds around fork.  The loop thread opens sockets   *)
(* between forks, without the lock.                                        *)
(***************************************************************************)
\* s: the lock, the static no_cloexec_support, the results
\* os: the open descriptors with their flags, what the kernel supports
\* run: the place of every thread, and the descriptor it works on
\* hist: what the children inherited, and what the bounds count

Loop == "loop"
Threads == Workers \cup {Loop}
CloexecFds == 1..MaxOpens

CloexecInit ==
    /\ s = [no |-> FALSE, readers |-> {}, writer |-> FALSE, given |-> {}]
    /\ os \in [open : {{}}, cloexec : {{}}, nonblock : {{}}, atomic : BOOLEAN, mutex : BOOLEAN]
    /\ run = [pc |-> [t \in Threads |-> "idle"], fd |-> [t \in Threads |-> 0]]
    /\ hist = [inherited |-> {}, opens |-> 0, forks |-> 0]

At(t, pc) == run.pc[t] = pc
CloexecGoto(t, pc) == run' = [run EXCEPT !.pc[t] = pc]

\* The kernel opens the next descriptor, with or without the flags.
CloexecOpened(t, flags, pc) ==
    /\ hist.opens < MaxOpens
    /\ LET fd == hist.opens + 1
       IN /\ os' = [os EXCEPT !.open = @ \cup {fd},
                              !.cloexec = IF "cloexec" \in flags THEN @ \cup {fd} ELSE @,
                              !.nonblock = IF "nonblock" \in flags THEN @ \cup {fd} ELSE @]
          /\ run' = [run EXCEPT !.pc[t] = pc, !.fd[t] = fd]
    /\ hist' = [hist EXCEPT !.opens = @ + 1]

-----------------------------------------------------------------------------
\* uv__fs_open tries O_CLOEXEC first; EINVAL means that it is not supported, or
\* that the arguments are bad.
OpenAtomic(w) ==
    /\ At(w, "idle") /\ ~s.no
    /\ \/ os.atomic /\ CloexecOpened(w, {"cloexec"}, "return") /\ UNCHANGED s
       \/ s' = [s EXCEPT !.no = TRUE] /\ CloexecGoto(w, "lock") /\ UNCHANGED <<os, hist>>

OpenSkips(w) == At(w, "idle") /\ s.no /\ CloexecGoto(w, "lock") /\ UNCHANGED <<s, os, hist>>

\* Mutant of RdlockFree: the writer is not waited for.
RdlockFreeNot(w) == TRUE

\* uv_rwlock_rdlock; where there is no pthread_rwlock_t, readers exclude each other.
RdlockFree(w) == ~(s.writer /\ OneLock) /\ (os.mutex => s.readers = {})

Rdlock(w) ==
    /\ At(w, "lock") /\ RdlockFree(w)
    /\ s' = [s EXCEPT !.readers = @ \cup {w}]
    /\ CloexecGoto(w, "open") /\ UNCHANGED <<os, hist>>

OpenPlain(w) ==
    /\ At(w, "open")
    /\ \/ CloexecOpened(w, {}, "cloexec") /\ UNCHANGED s
       \/ CloexecGoto(w, "unlock") /\ UNCHANGED <<s, os, hist>>

\* uv__cloexec, and the close when it fails
SetCloexec(w) ==
    /\ At(w, "cloexec")
    /\ \/ os' = [os EXCEPT !.cloexec = @ \cup {run.fd[w]}] /\ CloexecGoto(w, "unlock")
       \/ /\ os' = [os EXCEPT !.open = @ \ {run.fd[w]}]
          /\ run' = [run EXCEPT !.pc[w] = "unlock", !.fd[w] = 0]
    /\ UNCHANGED <<s, hist>>

Rdunlock(w) ==
    /\ At(w, "unlock")
    /\ s' = [s EXCEPT !.readers = @ \ {w}]
    /\ CloexecGoto(w, "return") /\ UNCHANGED <<os, hist>>

\* The result is the program's; -1 when there is no descriptor.
Returns(t) ==
    /\ At(t, "return")
    /\ s' = [s EXCEPT !.given = IF run.fd[t] = 0 THEN @ ELSE @ \cup {run.fd[t]}]
    /\ run' = [run EXCEPT !.pc[t] = "idle", !.fd[t] = 0]
    /\ UNCHANGED <<os, hist>>

-----------------------------------------------------------------------------
\* uv__socket; the other two flags are set one after the other.
Socket ==
    /\ At(Loop, "idle")
    /\ IF os.atomic THEN CloexecOpened(Loop, {"cloexec", "nonblock"}, "return")
       ELSE CloexecOpened(Loop, {}, "nonblock")
    /\ UNCHANGED s

\* uv__accept sets close-on-exec first.
Accept ==
    /\ At(Loop, "idle")
    /\ IF os.atomic THEN CloexecOpened(Loop, {"cloexec", "nonblock"}, "return")
       ELSE CloexecOpened(Loop, {}, "both")
    /\ UNCHANGED s

Flagged(pc, flag, next) ==
    /\ At(Loop, pc)
    /\ \/ /\ os' = IF flag = "cloexec" THEN [os EXCEPT !.cloexec = @ \cup {run.fd[Loop]}]
                   ELSE [os EXCEPT !.nonblock = @ \cup {run.fd[Loop]}]
          /\ CloexecGoto(Loop, next)
       \/ /\ os' = [os EXCEPT !.open = @ \ {run.fd[Loop]}]
          /\ run' = [run EXCEPT !.pc[Loop] = "return", !.fd[Loop] = 0]
    /\ UNCHANGED <<s, hist>>

\* uv__open_cloexec, called by the loop's thread, sets only close-on-exec ...
OpenCloexec ==
    /\ At(Loop, "idle")
    /\ IF os.atomic THEN CloexecOpened(Loop, {"cloexec"}, "return")
       ELSE CloexecOpened(Loop, {}, "only")
    /\ UNCHANGED s

\* ... and so does uv__recvmsg for the descriptors of a message, ...
Recvmsg ==
    /\ At(Loop, "idle")
    /\ IF os.atomic THEN CloexecOpened(Loop, {"cloexec"}, "return")
       ELSE CloexecOpened(Loop, {}, "received")
    /\ UNCHANGED s

\* ... where the result of uv__cloexec is not looked at.
RecvmsgMark ==
    /\ At(Loop, "received")
    /\ \/ os' = [os EXCEPT !.cloexec = @ \cup {run.fd[Loop]}]
       \/ MarkFails /\ UNCHANGED os
    /\ CloexecGoto(Loop, "return") /\ UNCHANGED <<s, hist>>

OpenFlags == Flagged("only", "cloexec", "return")
SocketFlags == Flagged("nonblock", "nonblock", "mark") \/ Flagged("mark", "cloexec", "return")
AcceptFlags == Flagged("both", "cloexec", "then") \/ Flagged("then", "nonblock", "return")

\* uv_rwlock_wrlock in uv_spawn
Wrlock ==
    /\ At(Loop, "idle") /\ hist.forks < MaxForks
    /\ (OneLock => s.readers = {})
    /\ s' = [s EXCEPT !.writer = TRUE]
    /\ CloexecGoto(Loop, "fork") /\ UNCHANGED <<os, hist>>

\* fork and exec: the child gets every descriptor that is not close-on-exec.
CloexecFork ==
    /\ At(Loop, "fork")
    /\ hist' = [hist EXCEPT !.inherited = @ \cup (os.open \ os.cloexec), !.forks = @ + 1]
    /\ s' = [s EXCEPT !.writer = FALSE]
    /\ CloexecGoto(Loop, "idle") /\ UNCHANGED os

Worker(w) ==
    OpenAtomic(w) \/ OpenSkips(w) \/ Rdlock(w) \/ OpenPlain(w) \/ SetCloexec(w) \/ Rdunlock(w)
CloexecStep ==
    \/ Socket \/ Accept \/ OpenCloexec \/ Recvmsg
    \/ SocketFlags \/ AcceptFlags \/ OpenFlags \/ RecvmsgMark
    \/ Wrlock \/ CloexecFork

CloexecNext == CloexecStep \/ (\E w \in Workers : Worker(w)) \/ \E t \in Threads : Returns(t)

CloexecSpec == CloexecInit /\ [][CloexecNext]_vars

-----------------------------------------------------------------------------
\* The type invariant.
CloexecTypeOK ==
    /\ os.open \subseteq CloexecFds /\ os.cloexec \subseteq CloexecFds /\ s.readers \subseteq Workers
    /\ \A t \in Threads : run.fd[t] \in 0..MaxOpens

\* No child inherits a descriptor of the library, whatever the workers open while
\* uv_spawn forks.
NothingInherited == hist.inherited = {}

\* Every descriptor that is open belongs to the program, marked close-on-exec, or to
\* the thread that is opening it: one that could not be marked was closed again.
OpenedMarked ==
    /\ s.given \subseteq os.cloexec
    /\ os.open = s.given \cup {run.fd[t] : t \in {u \in Threads : run.fd[u] # 0}}
=============================================================================
