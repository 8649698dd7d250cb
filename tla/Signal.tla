------------------------------- MODULE Signal -------------------------------
(***************************************************************************)
(* Signal handles (unix/signal.c).  Every loop has a thread and a pipe;    *)
(* the tree of started handles is shared.  The signal handler, in whatever *)
(* thread the signal arrives, writes one message per handle, and the loop  *)
(* reads them and calls back.                                              *)
(*                                                                         *)
(* run[l] is the thread of loop l: what it does, the messages it has read, *)
(* whether it blocks signals, and the signal handler that may interrupt    *)
(* it.  The lock is a byte in a pipe.                                      *)
(***************************************************************************)
EXTENDS Integers, Sequences, SequencesExt, FiniteSets

CONSTANTS Loops, Handles, LoopOf,
          Internal,             \* the child_watcher, which the program never closes
          Signums, Invalid,     \* the signals, and those sigaction() refuses
          PipeSize,             \* messages in a pipe
          Batch,                \* messages read at once, 32
          MaxSignals, MaxSignalCalls,   \* bounds
          Keys                          \* the keys of the red-black tree, from 1

VARIABLES
    s,      \* the handles
    os,     \* the tree, the lock, the pipes, and the signals with a handler
    run,    \* the threads
    hist    \* what the bounds count

vars == <<s, os, run, hist>>

NoHandler == [at |-> "none", signum |-> 0, left |-> {}, handle |-> "none"]

\* pc is "none" or "cb" where the program's code runs; ops are the locked
\* sections still to do for a call on handle, then and back what follows.
Idle == [pc |-> "none", ops |-> <<>>, handle |-> "none", signum |-> 0, then |-> "none",
         back |-> "none", batch |-> <<>>, full |-> FALSE, blocked |-> FALSE,
         handler |-> NoHandler]

Init ==
    /\ s = [h \in Handles |-> [signum |-> 0, caught |-> 0, dispatched |-> 0,
                               close |-> "open", active |-> FALSE]]
    /\ os = [tree |-> {}, locked |-> FALSE, pipe |-> [l \in Loops |-> <<>>],
             open |-> Loops, handled |-> {}]
    /\ run = [l \in Loops |-> Idle]
    /\ hist = [signals |-> 0, calls |-> 0]

\* The thread of l is at pc, and no signal handler interrupts it.
At(l, pc) == run[l].pc = pc /\ run[l].handler = NoHandler

Watching(n) == {h \in os.tree : s[h].signum = n}

-----------------------------------------------------------------------------
\* A signal with a handler arrives in a thread that does not block it; the
\* handler blocks all the others.
SignalArrives(l, n) ==
    /\ n \in os.handled /\ ~run[l].blocked /\ run[l].handler = NoHandler
    /\ hist.signals < MaxSignals
    /\ run' = [run EXCEPT ![l].handler = [NoHandler EXCEPT !.at = "lock", !.signum = n]]
    /\ hist' = [hist EXCEPT !.signals = @ + 1]
    /\ UNCHANGED <<s, os>>

HandlerLocks(l) ==
    /\ run[l].handler.at = "lock" /\ ~os.locked
    /\ os' = [os EXCEPT !.locked = TRUE]
    /\ run' = [run EXCEPT ![l].handler.at = "write",
                          ![l].handler.left = Watching(run[l].handler.signum)]
    /\ UNCHANGED <<s, hist>>

\* The pipe takes the whole message or none of it.
Written(l, h) == Len(os.pipe[LoopOf[h]]) < PipeSize

\* One round of the loop of uv__signal_handler: the write ...
HandlerWrites(l, h) ==
    /\ run[l].handler.at = "write" /\ h \in run[l].handler.left
    /\ os' = [os EXCEPT !.pipe[LoopOf[h]] =
                  IF Len(@) < PipeSize
                  THEN Append(@, [handle |-> h, signum |-> run[l].handler.signum])
                  ELSE @]
    /\ run' = [run EXCEPT ![l].handler.left = @ \ {h}, ![l].handler.handle = h,
                          ![l].handler.at = IF Written(l, h) THEN "count" ELSE "write"]
    /\ UNCHANGED <<s, hist>>

\* ... and the count.
HandlerCounts(l) ==
    /\ run[l].handler.at = "count"
    /\ s' = [s EXCEPT ![run[l].handler.handle].caught = @ + 1]
    /\ run' = [run EXCEPT ![l].handler.at = "write"]
    /\ UNCHANGED <<os, hist>>

HandlerUnlocks(l) ==
    /\ run[l].handler.at = "write" /\ run[l].handler.left = {}
    /\ os' = [os EXCEPT !.locked = FALSE]
    /\ run' = [run EXCEPT ![l].handler = NoHandler]
    /\ UNCHANGED <<s, hist>>

-----------------------------------------------------------------------------
\* The program's code in the thread of l calls the API; the sections ops are
\* done with the lock.
Call(l) ==
    /\ run[l].pc \in {"none", "cb"} /\ run[l].handler = NoHandler /\ l \in os.open
    /\ hist.calls < MaxSignalCalls

Sections(l, ops, h, n, then) ==
    run' = [run EXCEPT ![l].pc = "block", ![l].ops = ops, ![l].handle = h,
                       ![l].signum = n, ![l].then = then, ![l].back = run[l].pc]

\* uv__signal_stop does nothing for a handle that is not started.
StopOps(h) == IF s[h].signum = 0 THEN <<>> ELSE <<"stop">>

Called == hist' = [hist EXCEPT !.calls = @ + 1]

\* uv_signal_start; the same signal again only changes the callback.
Start(l, h, n) ==
    /\ Call(l) /\ LoopOf[h] = l /\ s[h].close = "open" /\ s[h].signum # n
    /\ Sections(l, StopOps(h) \o <<"start">>, h, n, "none")
    /\ Called /\ UNCHANGED <<s, os>>

Stop(l, h) ==
    /\ Call(l) /\ LoopOf[h] = l /\ s[h].close = "open" /\ s[h].signum # 0
    /\ Sections(l, StopOps(h), h, 0, "none")
    /\ Called /\ UNCHANGED <<s, os>>

\* uv_close up to uv__signal_stop.
Close(l, h) ==
    /\ Call(l) /\ LoopOf[h] = l /\ s[h].close = "open" /\ h \notin Internal
    /\ s' = [s EXCEPT ![h].close = "closing"]
    /\ Sections(l, StopOps(h), h, 0, "close")
    /\ Called /\ UNCHANGED os

\* uv__signal_loop_cleanup, when only internal handles are left.
LoopCleanup(l) ==
    /\ Call(l) /\ run[l].pc = "none"
    /\ \A h \in Handles \ Internal : LoopOf[h] = l => s[h].close = "closed"
    /\ \E h \in Internal :
           IF LoopOf[h] = l THEN Sections(l, StopOps(h), h, 0, "cleanup")
           ELSE Sections(l, <<>>, h, 0, "cleanup")
    /\ Called /\ UNCHANGED <<s, os>>

\* Mutant of Block: the thread can be interrupted while it has the lock.
BlockNot(l) ==
    /\ At(l, "block") /\ run[l].ops # <<>>
    /\ run' = [run EXCEPT ![l].pc = "lock"]
    /\ UNCHANGED <<s, os, hist>>

\* uv__signal_block_and_lock
Block(l) ==
    /\ At(l, "block") /\ run[l].ops # <<>>
    /\ run' = [run EXCEPT ![l].pc = "lock", ![l].blocked = TRUE]
    /\ UNCHANGED <<s, os, hist>>

Lock(l) ==
    /\ At(l, "lock") /\ ~os.locked
    /\ os' = [os EXCEPT !.locked = TRUE]
    /\ run' = [run EXCEPT ![l].pc = "locked"]
    /\ UNCHANGED <<s, hist>>

\* uv__signal_unlock_and_unblock, at the end of a section.
Unblocked(l) ==
    run' = [run EXCEPT ![l].pc = "block", ![l].ops = Tail(@), ![l].blocked = FALSE]

\* The signals with a handler when h stops watching n.
Handled(h, n) == IF Watching(n) = {h} THEN os.handled \ {n} ELSE os.handled

\* Mutant of StopSection: the handle is not stopped.
StopSectionActive(l) ==
    /\ At(l, "locked") /\ Head(run[l].ops) = "stop"
    /\ LET h == run[l].handle
       IN /\ os' = [os EXCEPT !.tree = @ \ {h}, !.locked = FALSE,
                              !.handled = Handled(h, s[h].signum)]
          /\ s' = [s EXCEPT ![h].signum = 0]
    /\ Unblocked(l) /\ UNCHANGED hist

\* The rest of uv__signal_stop.
StopSection(l) ==
    /\ At(l, "locked") /\ Head(run[l].ops) = "stop"
    /\ LET h == run[l].handle
       IN /\ os' = [os EXCEPT !.tree = @ \ {h}, !.locked = FALSE,
                              !.handled = Handled(h, s[h].signum)]
          /\ s' = [s EXCEPT ![h].signum = 0, ![h].active = FALSE]
    /\ Unblocked(l) /\ UNCHANGED hist

\* The handle stays stopped when sigaction() refuses the signal.
StartSection(l) ==
    /\ At(l, "locked") /\ Head(run[l].ops) = "start"
    /\ LET h == run[l].handle
           n == run[l].signum
       IN IF Watching(n) = {} /\ n \in Invalid
          THEN os' = [os EXCEPT !.locked = FALSE] /\ UNCHANGED s
          ELSE /\ os' = [os EXCEPT !.tree = @ \cup {h}, !.handled = @ \cup {n},
                                   !.locked = FALSE]
               /\ s' = [s EXCEPT ![h].signum = n, ![h].active = TRUE]
    /\ Unblocked(l) /\ UNCHANGED hist

\* Mutant of Trapped: messages in the pipe do not delay a close.
TrappedNone(h) == FALSE

\* Signals of h are still in the pipe or in a buffer.
Trapped(h) == s[h].caught # s[h].dispatched

\* The end of uv_signal_start, uv_signal_stop, uv__signal_close or
\* uv__signal_loop_cleanup.
Return(l) ==
    /\ At(l, "block") /\ run[l].ops = <<>>
    /\ run' = [run EXCEPT ![l] = [Idle EXCEPT !.pc = run[l].back, !.batch = run[l].batch,
                                              !.full = run[l].full]]
    /\ LET h == run[l].handle
       IN CASE run[l].then = "close" ->
                   /\ s' = [s EXCEPT ![h].close = IF Trapped(h) THEN @ ELSE "pending"]
                   /\ UNCHANGED os
            [] run[l].then = "cleanup" ->
                   /\ os' = [os EXCEPT !.open = @ \ {l}, !.pipe[l] = <<>>]
                   /\ UNCHANGED s
            [] OTHER -> UNCHANGED <<s, os>>
    /\ UNCHANGED hist

-----------------------------------------------------------------------------
\* uv__signal_event reads a buffer of messages; it reads again after a full one.
Event(l) ==
    /\ \/ At(l, "none") \/ (At(l, "next") /\ run[l].batch = <<>> /\ run[l].full)
    /\ os.pipe[l] # <<>>
    /\ LET n == IF Len(os.pipe[l]) < Batch THEN Len(os.pipe[l]) ELSE Batch
       IN /\ os' = [os EXCEPT !.pipe[l] = SubSeq(@, n + 1, Len(@))]
          /\ run' = [run EXCEPT ![l].batch = SubSeq(os.pipe[l], 1, n), ![l].pc = "next",
                                ![l].full = (n = Batch)]
    /\ UNCHANGED <<s, hist>>

EventEnds(l) ==
    /\ At(l, "next") /\ run[l].batch = <<>> /\ (~run[l].full \/ os.pipe[l] = <<>>)
    /\ run' = [run EXCEPT ![l].pc = "none", ![l].full = FALSE]
    /\ UNCHANGED <<s, os, hist>>

\* A message for a signal the handle still watches is a callback.
Dispatch(l) ==
    /\ At(l, "next") /\ run[l].batch # <<>>
    /\ LET msg == Head(run[l].batch)
       IN run' = [run EXCEPT ![l].pc = IF msg.signum = s[msg.handle].signum
                                       THEN "cb" ELSE "count"]
    /\ UNCHANGED <<s, os, hist>>

\* The end of the round: a close that waited for this message goes on.
Dispatched(st) ==
    [st EXCEPT !.dispatched = @ + 1,
               !.close = IF @ = "closing" /\ st.caught = st.dispatched + 1
                         THEN "pending" ELSE @]

MessageDone(l) ==
    /\ At(l, "cb") \/ At(l, "count")
    /\ s' = [s EXCEPT ![Head(run[l].batch).handle] = Dispatched(@)]
    /\ run' = [run EXCEPT ![l].pc = "next", ![l].batch = Tail(@)]
    /\ UNCHANGED <<os, hist>>

FinishClose(l, h) ==
    /\ At(l, "none") /\ LoopOf[h] = l /\ s[h].close = "pending"
    /\ s' = [s EXCEPT ![h].close = "closed"]
    /\ UNCHANGED <<os, run, hist>>

HandlerStep ==
    \E l \in Loops : HandlerLocks(l) \/ HandlerCounts(l) \/ HandlerUnlocks(l)
                     \/ \E h \in Handles : HandlerWrites(l, h)

LoopStep(l) ==
    \/ Block(l) \/ Lock(l) \/ StopSection(l) \/ StartSection(l) \/ Return(l)
    \/ Event(l) \/ EventEnds(l) \/ Dispatch(l) \/ MessageDone(l)
    \/ \E h \in Handles : FinishClose(l, h)

Next ==
    \/ HandlerStep
    \/ \E l \in Loops :
           \/ LoopStep(l) \/ LoopCleanup(l)
           \/ \E n \in Signums : SignalArrives(l, n)
           \/ \E h \in Handles : Stop(l, h) \/ Close(l, h)
                                 \/ \E n \in Signums : Start(l, h, n)

\* The threads run on.
Fairness == WF_vars(HandlerStep) /\ \A l \in Loops : WF_vars(LoopStep(l))

Spec == Init /\ [][Next]_vars

-----------------------------------------------------------------------------
Messages(h) ==
    LET Of(q) == Len(SelectSeq(q, LAMBDA m : m.handle = h))
    IN Of(os.pipe[LoopOf[h]]) + Of(run[LoopOf[h]].batch)

\* The type invariant; signal_cb is called only for a handle that is not closing.
TypeOK ==
    /\ os.tree \subseteq Handles /\ os.handled \subseteq Signums
    /\ \A l \in Loops :
           /\ Len(os.pipe[l]) <= PipeSize /\ Len(run[l].batch) <= Batch
           /\ run[l].pc = "next" /\ run[l].batch # <<>> =>
                  LET msg == Head(run[l].batch)
                  IN msg.signum = s[msg.handle].signum => s[msg.handle].close = "open"
    /\ \A h \in Handles :
           /\ s[h].close \in {"open", "closing", "pending", "closed"}
           /\ s[h].active <=> s[h].signum # 0

\* Between two locked sections, exactly the signals that started handles watch
\* have the handler, and the tree holds exactly those handles.
HandlersMatch ==
    ~os.locked => /\ os.tree = {h \in Handles : s[h].signum # 0}
                  /\ os.handled = {s[h].signum : h \in os.tree}

\* The counters tell how many messages of a handle are on their way, also while
\* a handler in another thread has written a message it has not counted.
CaughtExact ==
    \A h \in Handles : \A l \in Loops :
        l = LoopOf[h] /\ l \in os.open =>
            s[h].caught + Cardinality({m \in Loops : run[m].handler.at = "count"
                                                     /\ run[m].handler.handle = h})
                = s[h].dispatched + Messages(h)

\* A handle whose close goes on has no message left that points to it, and none
\* is written to a pipe that was closed.
NoDanglingMessage ==
    /\ \A h \in Handles : s[h].close \in {"pending", "closed"} => Messages(h) = 0
    /\ \A l \in Loops : \A h \in run[l].handler.left : LoopOf[h] \in os.open

-----------------------------------------------------------------------------
(***************************************************************************)
(* The red-black tree of tree.h, which holds the signal handles and the    *)
(* inotify watchers, as a specification of its own (Rb...).  A node is its *)
(* key; the macros' two mirrored halves are written once, with the side as *)
(* a parameter.  s is the root and the fields of the nodes, 0 is NULL, and *)
(* hist the reference: the set of keys in the tree.                        *)
(***************************************************************************)
rbVars == <<s, hist>>

NULL == 0
Other(d) == IF d = "l" THEN "r" ELSE "l"
IsBlack(t, n) == n = NULL \/ t.c[n] = "black"
Paint(t, n, c) == IF n = NULL THEN t ELSE [t EXCEPT !.c[n] = c]

RbInit ==
    /\ s = [root |-> NULL, l |-> [k \in Keys |-> NULL], r |-> [k \in Keys |-> NULL],
            p |-> [k \in Keys |-> NULL], c |-> [k \in Keys |-> "black"]]
    /\ hist = {}

Kid(t, n, d) == IF d = "l" THEN t.l[n] ELSE t.r[n]
SetKid(t, n, d, k) == IF d = "l" THEN [t EXCEPT !.l[n] = k] ELSE [t EXCEPT !.r[n] = k]
SetParent(t, n, p) == IF n = NULL THEN t ELSE [t EXCEPT !.p[n] = p]

\* The parent of n, or the head, points to k instead.
RbReplace(t, n, k) ==
    LET p == t.p[n]
    IN IF p = NULL THEN [t EXCEPT !.root = k]
       ELSE SetKid(t, p, IF t.l[p] = n THEN "l" ELSE "r", k)

\* RB_ROTATE_LEFT for d = "l", and its mirror image RB_ROTATE_RIGHT for d = "r"
RbRotate(t, n, d) ==
    LET k  == Kid(t, n, Other(d))
        t1 == SetParent(SetKid(t, n, Other(d), Kid(t, k, d)), Kid(t, k, d), n)
        t2 == RbReplace([t1 EXCEPT !.p[k] = t.p[n]], n, k)
    IN [SetKid(t2, k, d, n) EXCEPT !.p[n] = k]

RECURSIVE RbInsertColor(_, _)
\* RB_INSERT_COLOR
RbInsertColor(t, elm) ==
    LET parent == t.p[elm]
    IN IF parent = NULL \/ IsBlack(t, parent) THEN Paint(t, t.root, "black")
       ELSE LET gparent == t.p[parent]
                d       == IF t.l[gparent] = parent THEN "l" ELSE "r"
                uncle   == Kid(t, gparent, Other(d))
            IN IF ~IsBlack(t, uncle)
               THEN RbInsertColor([t EXCEPT !.c[uncle] = "black", !.c[parent] = "black",
                                          !.c[gparent] = "red"], gparent)
               ELSE LET inner == Kid(t, parent, Other(d)) = elm
                        t1  == IF inner THEN RbRotate(t, parent, d) ELSE t
                        top == IF inner THEN elm ELSE parent
                        low == IF inner THEN parent ELSE elm
                    IN RbInsertColor(RbRotate([t1 EXCEPT !.c[top] = "black", !.c[gparent] = "red"],
                                          gparent, Other(d)), low)

\* Mutant of FarRed: the outer nephew is not looked at.
FarRedAlways(t, tmp, d) == TRUE

\* The nephew on the far side is red: one rotation will do.
FarRed(t, tmp, d) == ~IsBlack(t, Kid(t, tmp, Other(d)))

RECURSIVE RbRemoveColor(_, _, _)
\* RB_REMOVE_COLOR
RbRemoveColor(t, parent, elm) ==
    IF ~IsBlack(t, elm) \/ elm = t.root THEN Paint(t, elm, "black")
    ELSE LET d   == IF t.l[parent] = elm THEN "l" ELSE "r"
             sib == Kid(t, parent, Other(d))
             t1  == IF IsBlack(t, sib) THEN t
                    ELSE RbRotate([t EXCEPT !.c[sib] = "black", !.c[parent] = "red"], parent, d)
             tmp == Kid(t1, parent, Other(d))
         IN IF IsBlack(t1, t1.l[tmp]) /\ IsBlack(t1, t1.r[tmp])
            THEN RbRemoveColor([t1 EXCEPT !.c[tmp] = "red"], t1.p[parent], parent)
            ELSE LET t2 == IF FarRed(t1, tmp, d) THEN t1
                           ELSE RbRotate(Paint(Paint(t1, Kid(t1, tmp, d), "black"), tmp, "red"),
                                       tmp, Other(d))
                     u  == Kid(t2, parent, Other(d))
                     t3 == [t2 EXCEPT !.c[u] = t2.c[parent], !.c[parent] = "black"]
                     t4 == RbRotate(Paint(t3, Kid(t3, u, Other(d)), "black"), parent, d)
                 IN Paint(t4, t4.root, "black")

RECURSIVE RbOutermost(_, _, _)
\* The last node when one goes from n to side d; RB_MINMAX from the root.
RbOutermost(t, n, d) ==
    IF n = NULL \/ Kid(t, n, d) = NULL THEN n ELSE RbOutermost(t, Kid(t, n, d), d)

\* RB_REMOVE: a node with two children is replaced by its successor.
RbRemove(t, old) ==
    IF t.l[old] = NULL \/ t.r[old] = NULL
    THEN LET child  == IF t.l[old] = NULL THEN t.r[old] ELSE t.l[old]
             t1     == RbReplace(SetParent(t, child, t.p[old]), old, child)
         IN IF t.c[old] = "black" THEN RbRemoveColor(t1, t.p[old], child) ELSE t1
    ELSE LET elm    == RbOutermost(t, t.r[old], "l")
             child  == t.r[elm]
             parent == IF t.p[elm] = old THEN elm ELSE t.p[elm]
             t1     == RbReplace(SetParent(t, child, t.p[elm]), elm, child)
             t2     == [t1 EXCEPT !.l[elm] = t1.l[old], !.r[elm] = t1.r[old],
                                  !.p[elm] = t1.p[old], !.c[elm] = t1.c[old]]
             t3     == RbReplace(t2, old, elm)
             t4     == SetParent(SetParent(t3, t3.l[old], elm), t3.r[old], elm)
         IN IF t.c[elm] = "black" THEN RbRemoveColor(t4, parent, child) ELSE t4

RECURSIVE Place(_, _, _)
\* The node below which k belongs, or k itself.
Place(t, n, k) ==
    LET next == IF k < n THEN t.l[n] ELSE t.r[n]
    IN IF n = NULL \/ n = k \/ next = NULL THEN n ELSE Place(t, next, k)

\* RB_INSERT; a key that is there already stays.
RbInsert(t, k) ==
    LET parent == IF t.root = NULL THEN NULL ELSE Place(t, t.root, k)
        t1 == [t EXCEPT !.p[k] = parent, !.l[k] = NULL, !.r[k] = NULL, !.c[k] = "red"]
    IN IF parent = k THEN t
       ELSE RbInsertColor(IF parent = NULL THEN [t1 EXCEPT !.root = k]
                        ELSE SetKid(t1, parent, IF k < parent THEN "l" ELSE "r", k), k)

\* RB_FIND
RbFind(t, k) == IF t.root # NULL /\ Place(t, t.root, k) = k THEN k ELSE NULL

RECURSIVE RbNFindFrom(_, _, _, _)
RbNFindFrom(t, n, k, res) ==
    CASE n = NULL -> res
      [] n = k -> n
      [] k < n -> RbNFindFrom(t, t.l[n], k, n)
      [] OTHER -> RbNFindFrom(t, t.r[n], k, res)

\* Mutant of RbNFind: the node where the search ends.
RbNFindPlace(t, k) == IF t.root = NULL THEN NULL ELSE Place(t, t.root, k)

\* RB_NFIND
RbNFind(t, k) == RbNFindFrom(t, t.root, k, NULL)

RECURSIVE Up(_, _, _)
\* Up to the first ancestor that has n on side d.
Up(t, n, d) == IF t.p[n] = NULL \/ Kid(t, t.p[n], d) = n THEN t.p[n] ELSE Up(t, t.p[n], d)

\* RB_NEXT
RbSuccessor(t, n) == IF t.r[n] # NULL THEN RbOutermost(t, t.r[n], "l") ELSE Up(t, n, "l")

\* RB_PREV
RbPredecessor(t, n) == IF t.l[n] # NULL THEN RbOutermost(t, t.l[n], "r") ELSE Up(t, n, "r")

-----------------------------------------------------------------------------
RbDoInsert == \E k \in Keys : s' = RbInsert(s, k) /\ hist' = hist \cup {k}

\* The fields of a node that was removed are the program's again.
RbDoRemove ==
    \E k \in hist :
        /\ s' = [RbRemove(s, k) EXCEPT !.l[k] = NULL, !.r[k] = NULL, !.p[k] = NULL,
                                        !.c[k] = "black"]
        /\ hist' = hist \ {k}

RbNext == RbDoInsert \/ RbDoRemove

RbSpec == RbInit /\ [][RbNext]_vars

-----------------------------------------------------------------------------
\* The type invariant.
RbTypeOK == s.root \in Keys \cup {NULL} /\ \A k \in Keys : s.c[k] \in {"black", "red"}

RECURSIVE Reached(_)
Reached(n) == IF n = NULL THEN {} ELSE {n} \cup Reached(s.l[n]) \cup Reached(s.r[n])

RECURSIVE BlackHeight(_)
\* The number of black nodes on every way down from n, or -1 if they differ.
BlackHeight(n) ==
    IF n = NULL THEN 0
    ELSE LET a == BlackHeight(s.l[n])
             b == BlackHeight(s.r[n])
         IN IF a = -1 \/ a # b THEN -1 ELSE a + (IF s.c[n] = "black" THEN 1 ELSE 0)

\* After every insertion and removal the tree is a red-black tree: a red node has no
\* red parent, and all ways down have the same number of black ones.
Balanced ==
    /\ BlackHeight(s.root) # -1 /\ IsBlack(s, s.root)
    /\ \A k \in Reached(s.root) : s.c[k] = "red" => s.p[k] # NULL /\ IsBlack(s, s.p[k])

\* It holds the keys put in and not taken out, each linked with its parent.
TreeExact ==
    /\ Reached(s.root) = hist
    /\ \A k \in hist :
           IF s.p[k] = NULL THEN s.root = k ELSE s.l[s.p[k]] = k \/ s.r[s.p[k]] = k

\* Searching and walking agree with the order of the keys: RB_FIND, RB_NFIND (which
\* uv__signal_handler starts from), RB_NEXT and RB_PREV.
SearchExact ==
    LET Least(S) == IF S = {} THEN NULL ELSE CHOOSE x \in S : \A y \in S : x <= y
        Greatest(S) == IF S = {} THEN NULL ELSE CHOOSE x \in S : \A y \in S : x >= y
    IN /\ \A k \in Keys :
              /\ RbFind(s, k) = IF k \in hist THEN k ELSE NULL
              /\ RbNFind(s, k) = Least({x \in hist : x >= k})
       /\ \A k \in hist :
              /\ RbSuccessor(s, k) = Least({x \in hist : x > k})
              /\ RbPredecessor(s, k) = Greatest({x \in hist : x < k})
=============================================================================
