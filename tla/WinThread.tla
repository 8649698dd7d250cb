----------------------------- MODULE WinThread ------------------------------
(***************************************************************************)
(* Threads of the Windows port and what they share (win/thread.c): uv_once *)
(* and threads, read-write locks, the condition variable that is used      *)
(* where the system has none, and barriers.  Each part is a specification  *)
(* of its own.                                                             *)
(***************************************************************************)
EXTENDS Integers, FiniteSets

CONSTANTS
    Created,   \* the threads that the main thread creates
    RwThreads,
    MaxLocks,   \* bound on the calls of a thread
    Consumers,
    SignalsInRow,     \* a signal may come while an event is still set
    BroadcastRaces,   \* a broadcast may meet consumers that just woke up or timed out
    MaxWakes, MaxTimeouts,   \* bounds
    BarrierThreads,      \* as many as uv_barrier_init was told
    SerialDestroys,   \* the serial thread destroys the barrier when it returns
    Rounds        \* bound

VARIABLES
    s,      \* what the memory of the program holds
    os,     \* what the system holds: events, semaphores, the owner of a lock
    run,    \* the place of every thread
    hist    \* history, and what the bounds count

vars == <<s, os, run, hist>>

None == "none"

Goto(t, pc) == run' = [run EXCEPT ![t] = pc]

-----------------------------------------------------------------------------
(***************************************************************************)
(* Threads on Windows (win/thread.c): uv_once, the thread-local key it     *)
(* guards, uv_thread_create with the suspended start of the thread,        *)
(* uv_thread_self and uv_thread_join.  A main thread creates the others.   *)
(***************************************************************************)
\* s: the guard, the key, and what uv_thread_create knows of each thread
\* os: the state of the threads, and the events that are open
\* run: the place of every thread
\* hist: how often the key was made, and what uv_thread_self returned

Main == "main"
Threads == Created \cup {Main}

OnceInit ==
    /\ s = [ran |-> FALSE, event |-> None, signalled |-> FALSE, key |-> FALSE,
            tls |-> [t \in Threads |-> None], tid |-> [t \in Created |-> None],
            ctx |-> [t \in Created |-> None], self |-> [t \in Created |-> None]]
    /\ os = [st |-> [t \in Created |-> None], events |-> {}]
    /\ run = [t \in Threads |-> IF t = Main THEN "create" ELSE "start"]
    /\ hist = [made |-> 0, seen |-> [t \in Created |-> None]]

-----------------------------------------------------------------------------
\* uv_once: the fast case; otherwise uv__once_inner creates an event and offers it.
OnceFast(t) ==
    /\ run[t] = "once" /\ s.ran
    /\ Goto(t, "key") /\ UNCHANGED <<s, os, hist>>

OnceCreates(t) ==
    /\ run[t] = "once" /\ ~s.ran
    /\ os' = [os EXCEPT !.events = @ \cup {t}]
    /\ Goto(t, "offer") /\ UNCHANGED <<s, hist>>

\* InterlockedCompareExchangePointer finds the event of another thread.
OfferFails(t) == s.event # None

OnceOffers(t) ==
    /\ run[t] = "offer"
    /\ IF OfferFails(t)
       THEN os' = [os EXCEPT !.events = @ \ {t}] /\ Goto(t, "wait") /\ UNCHANGED s
       ELSE s' = [s EXCEPT !.event = t] /\ Goto(t, "callback") /\ UNCHANGED os
    /\ UNCHANGED hist

\* uv__init_current_thread_key
OnceCallback(t) ==
    /\ run[t] = "callback"
    /\ s' = [s EXCEPT !.key = TRUE]
    /\ hist' = [hist EXCEPT !.made = @ + 1]
    /\ Goto(t, "set") /\ UNCHANGED os

OnceSets(t) ==
    /\ run[t] = "set"
    /\ s' = [s EXCEPT !.signalled = TRUE]
    /\ Goto(t, "ran") /\ UNCHANGED <<os, hist>>

OnceRan(t) ==
    /\ run[t] = "ran"
    /\ s' = [s EXCEPT !.ran = TRUE]
    /\ Goto(t, "key") /\ UNCHANGED <<os, hist>>

\* Mutant of OnceWaits: the loser of the race goes on at once.
OnceWaitsNot(t) ==
    /\ run[t] = "wait"
    /\ Goto(t, "key") /\ UNCHANGED <<s, os, hist>>

OnceWaits(t) ==
    /\ run[t] = "wait" /\ s.signalled
    /\ Goto(t, "key") /\ UNCHANGED <<s, os, hist>>

-----------------------------------------------------------------------------
\* uv_thread_create up to _beginthreadex, which may fail, as the allocation may.
ThreadBegins(t) ==
    /\ run[Main] = "create" /\ os.st[t] = None
    /\ \/ /\ os' = [os EXCEPT !.st[t] = "suspended"]
          /\ s' = [s EXCEPT !.ctx[t] = "made"]
          /\ Goto(Main, "resume")
       \/ os' = [os EXCEPT !.st[t] = "failed"] /\ UNCHANGED <<s, run>>
    /\ UNCHANGED hist

\* The handle goes to the caller and, before the thread runs, into its context.
Prepared(st, t) == [st EXCEPT !.tid[t] = t, !.self[t] = t]

ThreadResumes(t) ==
    /\ run[Main] = "resume" /\ os.st[t] = "suspended"
    /\ s' = Prepared(s, t)
    /\ os' = [os EXCEPT !.st[t] = "live"]
    /\ Goto(Main, "create") /\ UNCHANGED hist

\* uv__thread_start copies its context and frees it, then sets the key; the program's
\* function calls uv_thread_self.
ThreadStarts(t) ==
    /\ run[t] = "start" /\ os.st[t] = "live"
    /\ s' = [s EXCEPT !.ctx[t] = "freed"]
    /\ Goto(t, "once") /\ UNCHANGED <<os, hist>>

KeySet(t) ==
    /\ run[t] = "key" /\ t \in Created
    /\ s' = [s EXCEPT !.tls[t] = s.self[t]]
    /\ Goto(t, "entry") /\ UNCHANGED <<os, hist>>

ThreadSelf(t) ==
    /\ run[t] = "entry"
    /\ hist' = [hist EXCEPT !.seen[t] = s.tls[t]]
    /\ os' = [os EXCEPT !.st[t] = "ended"]
    /\ Goto(t, "ended") /\ UNCHANGED s

\* The main thread calls uv_thread_self as well, then uv_thread_join.
MainSelf ==
    /\ run[Main] = "create" /\ \A t \in Created : os.st[t] # None
    /\ Goto(Main, "once") /\ UNCHANGED <<s, os, hist>>

ThreadJoin(t) ==
    /\ run[Main] = "key" /\ s.tid[t] # None /\ os.st[t] = "ended"
    /\ s' = [s EXCEPT !.tid[t] = None]
    /\ os' = [os EXCEPT !.st[t] = "joined"]
    /\ UNCHANGED <<run, hist>>

OnceFinished ==
    /\ run[Main] = "key" /\ \A t \in Created : os.st[t] \in {"joined", "failed"}
    /\ UNCHANGED vars

Once(t) ==
    \/ OnceFast(t) \/ OnceCreates(t) \/ OnceOffers(t) \/ OnceCallback(t)
    \/ OnceSets(t) \/ OnceRan(t) \/ OnceWaits(t)

OnceNext ==
    \/ \E t \in Threads : Once(t)
    \/ \E t \in Created : \/ ThreadBegins(t) \/ ThreadResumes(t) \/ ThreadStarts(t)
                          \/ KeySet(t) \/ ThreadSelf(t) \/ ThreadJoin(t)
    \/ MainSelf \/ OnceFinished

OnceSpec == OnceInit /\ [][OnceNext]_vars

-----------------------------------------------------------------------------
\* The type invariant.
OnceTypeOK ==
    /\ s.event \in Threads \cup {None} /\ os.events \subseteq Threads
    /\ \A t \in Created : os.st[t] \in {None, "failed", "suspended", "live", "ended", "joined"}

\* uv_once runs its callback once, whichever threads race, and no thread returns from
\* it before the callback is done; only the event of the winner stays open.
OnceExact ==
    /\ hist.made <= 1
    /\ \A t \in Threads : run[t] \in {"key", "entry"} => s.key
    /\ \A t \in Threads : run[t] \in {"key", "entry", "ended"} /\ t \in os.events => s.event = t

\* uv_thread_self tells a thread the handle that its creator has, although both run at
\* the same time: the context is complete before the thread reads and frees it.
SelfTold ==
    \A t \in Created : os.st[t] \in {"ended", "joined"} => hist.seen[t] = t

-----------------------------------------------------------------------------
(***************************************************************************)
(* The read-write lock of the Windows port (win/thread.c): a semaphore     *)
(* that a writer, or the first reader for all of them, holds, and a        *)
(* critical section around the number of readers.                          *)
(***************************************************************************)
\* s: num_readers_ and what every thread holds
\* os: the semaphore, and the owner of num_readers_lock_
\* run: the place of every thread
\* hist: the calls of every thread

RwInit ==
    /\ s = [readers |-> 0, holds |-> [t \in RwThreads |-> None]]
    /\ os = [sem |-> 1, cs |-> None]
    /\ run = [t \in RwThreads |-> "out"]
    /\ hist = [t \in RwThreads |-> 0]

Enter(t) == os.cs = None /\ os' = [os EXCEPT !.cs = t]

\* A thread asks for a lock it does not have.
Call(t) ==
    /\ run[t] = "out" /\ s.holds[t] = None /\ hist[t] < MaxLocks
    /\ hist' = [hist EXCEPT ![t] = @ + 1]

-----------------------------------------------------------------------------
\* uv_rwlock_rdlock; the wait of the first reader is inside the critical section.
RdlockEnters(t) == Call(t) /\ Enter(t) /\ Goto(t, "rdlock") /\ UNCHANGED s

RdlockCounts(t) ==
    /\ run[t] = "rdlock"
    /\ s' = [s EXCEPT !.readers = @ + 1]
    /\ Goto(t, IF s.readers = 0 THEN "rdwait" ELSE "rdgot")
    /\ UNCHANGED <<os, hist>>

RdlockWaits(t) ==
    /\ run[t] = "rdwait" /\ os.sem > 0
    /\ os' = [os EXCEPT !.sem = @ - 1]
    /\ Goto(t, "rdgot") /\ UNCHANGED <<s, hist>>

RdlockLeaves(t) ==
    /\ run[t] = "rdgot"
    /\ s' = [s EXCEPT !.holds[t] = "read"]
    /\ os' = [os EXCEPT !.cs = None]
    /\ Goto(t, "out") /\ UNCHANGED hist

\* uv_rwlock_tryrdlock
TryrdlockBusy(t) == Call(t) /\ os.cs # None /\ UNCHANGED <<s, os, run>>
TryrdlockEnters(t) == Call(t) /\ Enter(t) /\ Goto(t, "tryrd") /\ UNCHANGED s

\* Mutant of TryCounts: a reader that finds the lock taken is counted as well.
TryCountsAlways == TRUE

\* The first reader needs the semaphore.
TryCounts == s.readers > 0 \/ os.sem > 0

Tryrdlock(t) ==
    /\ run[t] = "tryrd"
    /\ IF TryCounts THEN s' = [s EXCEPT !.readers = @ + 1, !.holds[t] = "read"] ELSE UNCHANGED s
    /\ os' = [os EXCEPT !.cs = None, !.sem = IF s.readers = 0 /\ @ > 0 THEN @ - 1 ELSE @]
    /\ Goto(t, "out") /\ UNCHANGED hist

\* uv_rwlock_rdunlock
RdunlockEnters(t) ==
    /\ run[t] = "out" /\ s.holds[t] = "read"
    /\ Enter(t)
    /\ Goto(t, "rdunlock") /\ UNCHANGED <<s, hist>>

\* Mutant of LastReader: every reader that leaves releases the semaphore.
LastReaderAny == TRUE

\* The last reader releases the semaphore.
LastReader == s.readers = 1

Rdunlock(t) ==
    /\ run[t] = "rdunlock"
    /\ s' = [s EXCEPT !.readers = @ - 1, !.holds[t] = None]
    /\ os' = [os EXCEPT !.cs = None, !.sem = IF LastReader THEN @ + 1 ELSE @]
    /\ Goto(t, "out") /\ UNCHANGED hist

\* uv_rwlock_wrlock, which waits, and uv_rwlock_trywrlock, which does not
Wrlock(t) == Call(t) /\ Goto(t, "wrwait") /\ UNCHANGED <<s, os>>

WrlockWaits(t) ==
    /\ run[t] = "wrwait" /\ os.sem > 0
    /\ os' = [os EXCEPT !.sem = @ - 1]
    /\ s' = [s EXCEPT !.holds[t] = "write"]
    /\ Goto(t, "out") /\ UNCHANGED hist

Trywrlock(t) ==
    /\ Call(t)
    /\ IF os.sem > 0
       THEN os' = [os EXCEPT !.sem = @ - 1] /\ s' = [s EXCEPT !.holds[t] = "write"]
       ELSE UNCHANGED <<s, os>>
    /\ UNCHANGED run

\* uv_rwlock_wrunlock
Wrunlock(t) ==
    /\ run[t] = "out" /\ s.holds[t] = "write"
    /\ s' = [s EXCEPT !.holds[t] = None]
    /\ os' = [os EXCEPT !.sem = @ + 1]
    /\ UNCHANGED <<run, hist>>

RwStep(t) ==
    \/ RdlockCounts(t) \/ RdlockWaits(t) \/ RdlockLeaves(t) \/ Tryrdlock(t)
    \/ RdunlockEnters(t) \/ Rdunlock(t) \/ WrlockWaits(t) \/ Wrunlock(t)

Calls(t) ==
    \/ RdlockEnters(t) \/ TryrdlockBusy(t) \/ TryrdlockEnters(t) \/ Wrlock(t) \/ Trywrlock(t)

\* No thread holds or wants a lock any more.
RwFinished == (\A t \in RwThreads : run[t] = "out" /\ s.holds[t] = None) /\ UNCHANGED vars

RwNext == (\E t \in RwThreads : RwStep(t) \/ Calls(t)) \/ RwFinished

RwSpec == RwInit /\ [][RwNext]_vars

-----------------------------------------------------------------------------
\* The type invariant.
RwTypeOK ==
    /\ s.readers \in 0..Cardinality(RwThreads) /\ os.sem \in 0..1
    /\ os.cs \in RwThreads \cup {None}

\* A writer is alone: with any mix of blocking and trying calls no reader and no other
\* writer holds the lock with it.
WriterAlone ==
    \A t, u \in RwThreads : t # u /\ s.holds[t] = "write" => s.holds[u] = None

\* The semaphore is taken exactly while a writer or a counted reader has the lock, so a
\* call that failed leaves nothing behind and the last one to unlock leaves it free.
SemaphoreExact ==
    os.sem = IF \/ \E t \in RwThreads : s.holds[t] = "write"
                \/ s.readers > 0 /\ ~\E t \in RwThreads : run[t] = "rdwait" THEN 0 ELSE 1

-----------------------------------------------------------------------------
(***************************************************************************)
(* The condition variable of the Windows port where the system has none    *)
(* (win/thread.c, the fallback): an auto-reset event for uv_cond_signal, a *)
(* manual-reset event for uv_cond_broadcast, and the number of waiters.    *)
(* Consumers wait for tokens, a producer makes them and wakes consumers.   *)
(***************************************************************************)
\* s: waiters_count, the mutex and the tokens of the program
\* os: the two events
\* run: the place of every thread
\* hist: the wakes and time-outs so far

Producer == "producer"
CondThreads == Consumers \cup {Producer}

CondInit ==
    /\ s = [count |-> 0, mutex |-> None, tokens |-> 0,
            last |-> [c \in Consumers |-> FALSE], have |-> FALSE]
    /\ os = [signal |-> FALSE, broadcast |-> FALSE]
    /\ run = [t \in CondThreads |-> "lock"]
    /\ hist = [wakes |-> 0, timeouts |-> 0]

-----------------------------------------------------------------------------
\* A consumer takes the mutex, and a token if there is one; otherwise it waits.
Consume(c) ==
    /\ run[c] = "lock" /\ s.mutex = None
    /\ IF s.tokens > 0
       THEN s' = [s EXCEPT !.tokens = @ - 1] /\ Goto(c, "done")
       ELSE s' = [s EXCEPT !.mutex = c] /\ Goto(c, "count")
    /\ UNCHANGED <<os, hist>>

\* uv_cond_wait_helper: the waiter is counted, then the mutex released.
Counted(c) ==
    /\ run[c] = "count"
    /\ s' = [s EXCEPT !.count = @ + 1]
    /\ Goto(c, "unlock") /\ UNCHANGED <<os, hist>>

Unlocks(c) ==
    /\ run[c] = "unlock"
    /\ s' = [s EXCEPT !.mutex = None]
    /\ Goto(c, "wait") /\ UNCHANGED <<os, hist>>

\* WaitForMultipleObjects: the signal comes first, and resets itself.
Waits(c) ==
    /\ run[c] = "wait" /\ (os.signal \/ os.broadcast)
    /\ os' = [os EXCEPT !.signal = FALSE]
    /\ Goto(c, IF os.signal THEN "signalled" ELSE "broadcast")
    /\ UNCHANGED <<s, hist>>

\* uv_cond_timedwait
TimesOut(c) ==
    /\ run[c] = "wait" /\ ~os.signal /\ ~os.broadcast /\ hist.timeouts < MaxTimeouts
    /\ BroadcastRaces \/ run[Producer] \notin {"broadcast", "setbroadcast"}
    /\ hist' = [hist EXCEPT !.timeouts = @ + 1]
    /\ Goto(c, "timedout") /\ UNCHANGED <<s, os>>

\* The last of those that a broadcast woke.
LastWaiter(how, count) == how = "broadcast" /\ count = 0

Uncounted(c) ==
    /\ run[c] \in {"signalled", "broadcast", "timedout"}
    /\ s' = [s EXCEPT !.count = @ - 1]
    /\ Goto(c, IF LastWaiter(run[c], s.count - 1) THEN "reset" ELSE "lock")
    /\ UNCHANGED <<os, hist>>

Resets(c) ==
    /\ run[c] = "reset"
    /\ os' = [os EXCEPT !.broadcast = FALSE]
    /\ Goto(c, "lock") /\ UNCHANGED <<s, hist>>

-----------------------------------------------------------------------------
\* Everybody that was woken is back.
Settled ==
    /\ ~os.signal /\ ~os.broadcast
    /\ \A c \in Consumers : run[c] \in {"lock", "count", "unlock", "wait", "done"}

\* The producer makes a token and signals, or one for each consumer and broadcasts.
Produce ==
    /\ run[Producer] = "lock" /\ s.mutex = None /\ hist.wakes < MaxWakes
    /\ \/ /\ SignalsInRow \/ (~os.signal /\ ~os.broadcast)
          /\ s' = [s EXCEPT !.mutex = Producer, !.tokens = @ + 1]
          /\ Goto(Producer, "signal")
       \/ /\ BroadcastRaces \/ Settled
          /\ s' = [s EXCEPT !.mutex = Producer, !.tokens = @ + Cardinality(Consumers)]
          /\ Goto(Producer, "broadcast")
    /\ hist' = [hist EXCEPT !.wakes = @ + 1]
    /\ UNCHANGED os

\* Mutant of HaveWaiters: there are waiters when more than one is counted.
HaveWaitersTwo(count) == count > 1

HaveWaiters(count) == count > 0

\* uv_cond_fallback_signal and uv_cond_fallback_broadcast look for waiters ...
Looks ==
    /\ run[Producer] \in {"signal", "broadcast"}
    /\ s' = [s EXCEPT !.have = HaveWaiters(s.count)]
    /\ Goto(Producer, IF run[Producer] = "signal" THEN "setsignal" ELSE "setbroadcast")
    /\ UNCHANGED <<os, hist>>

\* ... and set the event; the program then unlocks the mutex.
Sets ==
    /\ run[Producer] \in {"setsignal", "setbroadcast"}
    /\ os' = IF ~s.have THEN os
             ELSE IF run[Producer] = "setsignal" THEN [os EXCEPT !.signal = TRUE]
             ELSE [os EXCEPT !.broadcast = TRUE]
    /\ s' = [s EXCEPT !.mutex = None, !.have = FALSE]
    /\ Goto(Producer, "lock") /\ UNCHANGED hist

CondStep(c) ==
    Consume(c) \/ Counted(c) \/ Unlocks(c) \/ Waits(c) \/ TimesOut(c) \/ Uncounted(c) \/ Resets(c)

CondNext == (\E c \in Consumers : CondStep(c)) \/ Produce \/ Looks \/ Sets

CondSpec == CondInit /\ [][CondNext]_vars

-----------------------------------------------------------------------------
\* The type invariant.
CondTypeOK == s.count \in 0..Cardinality(Consumers) /\ s.mutex \in CondThreads \cup {None}

Asleep(c) == run[c] = "wait" /\ ~os.signal /\ ~os.broadcast

\* No wakeup is lost: of the consumers that have no token yet, as many are awake or have
\* an event waiting for them as there are tokens, whatever woke them and in which order.
NoLostWakeup ==
    LET want == {c \in Consumers : run[c] # "done"}
        n == IF s.tokens < Cardinality(want) THEN s.tokens ELSE Cardinality(want)
    IN s.mutex = None => Cardinality({c \in want : ~Asleep(c)}) >= n

\* The broadcast event does not stay set when everybody it woke has gone on: the next
\* consumer would not wait at all.
BroadcastReset ==
    (\A c \in Consumers : run[c] \in {"lock", "count", "unlock", "done"}) => ~os.broadcast

-----------------------------------------------------------------------------
(***************************************************************************)
(* The barrier of the Windows port (win/thread.c): a mutex, a counter and  *)
(* two semaphores, the turnstiles, of which one is always closed.          *)
(***************************************************************************)
\* s: the counter, and whether the barrier exists
\* os: the owner of the mutex and the two semaphores
\* run: the place of every thread
\* hist: arrivals and returns of every thread, serial returns

N == Cardinality(BarrierThreads)

\* uv_barrier_init
BarrierInit ==
    /\ s = [count |-> 0, alive |-> TRUE]
    /\ os = [mutex |-> None, t1 |-> 0, t2 |-> 1]
    /\ run = [t \in BarrierThreads |-> "out"]
    /\ hist = [arrived |-> [t \in BarrierThreads |-> 0], left |-> [t \in BarrierThreads |-> 0], serial |-> 0]

\* uv_mutex_lock and ++count; the last thread closes the second turnstile ...
Arrive(t) ==
    /\ run[t] = "out" /\ os.mutex = None /\ s.alive /\ hist.arrived[t] < Rounds
    /\ s' = [s EXCEPT !.count = @ + 1]
    /\ hist' = [hist EXCEPT !.arrived[t] = @ + 1]
    /\ IF s.count + 1 = N THEN os' = [os EXCEPT !.mutex = t] /\ Goto(t, "last")
       ELSE UNCHANGED os /\ Goto(t, "gate1")

Last(t) ==
    /\ run[t] = "last" /\ os.t2 > 0
    /\ os' = [os EXCEPT !.t2 = @ - 1]
    /\ Goto(t, "open1") /\ UNCHANGED <<s, hist>>

\* ... and opens the first.
Open1(t) ==
    /\ run[t] = "open1"
    /\ os' = [os EXCEPT !.t1 = @ + 1, !.mutex = None]
    /\ Goto(t, "gate1") /\ UNCHANGED <<s, hist>>

\* uv_sem_wait and uv_sem_post of the first turnstile
Gate1(t) ==
    /\ run[t] = "gate1" /\ os.t1 > 0
    /\ os' = [os EXCEPT !.t1 = @ - 1]
    /\ Goto(t, "pass1") /\ UNCHANGED <<s, hist>>

Pass1(t) ==
    /\ run[t] = "pass1"
    /\ os' = [os EXCEPT !.t1 = @ + 1]
    /\ Goto(t, "leave") /\ UNCHANGED <<s, hist>>

\* The last thread to leave closes the first turnstile ...
Serial(count) == count = 0

Leave(t) ==
    /\ run[t] = "leave" /\ os.mutex = None
    /\ s' = [s EXCEPT !.count = @ - 1]
    /\ IF Serial(s.count - 1)
       THEN os' = [os EXCEPT !.mutex = t] /\ Goto(t, "serial")
       ELSE UNCHANGED os /\ Goto(t, "gate2")
    /\ UNCHANGED hist

\* Mutant of SerialCloses: it stays open.
SerialClosesNot(t) ==
    /\ run[t] = "serial" /\ os.t1 > 0
    /\ Goto(t, "open2") /\ UNCHANGED <<s, os, hist>>

SerialCloses(t) ==
    /\ run[t] = "serial" /\ os.t1 > 0
    /\ os' = [os EXCEPT !.t1 = @ - 1]
    /\ Goto(t, "open2") /\ UNCHANGED <<s, hist>>

\* ... and opens the second.
Open2(t) ==
    /\ run[t] = "open2"
    /\ os' = [os EXCEPT !.t2 = @ + 1, !.mutex = None]
    /\ hist' = [hist EXCEPT !.serial = @ + 1]
    /\ Goto(t, "sgate2") /\ UNCHANGED s

Gate2(t) ==
    /\ run[t] \in {"gate2", "sgate2"} /\ os.t2 > 0
    /\ os' = [os EXCEPT !.t2 = @ - 1]
    /\ Goto(t, IF run[t] = "gate2" THEN "pass2" ELSE "spass2") /\ UNCHANGED <<s, hist>>

\* uv_barrier_wait returns; the program destroys the barrier when every thread is out,
\* or when the serial thread is.
Pass2(t) ==
    /\ run[t] \in {"pass2", "spass2"}
    /\ os' = [os EXCEPT !.t2 = @ + 1]
    /\ hist' = [hist EXCEPT !.left[t] = @ + 1]
    /\ s' = [s EXCEPT !.alive = @ /\ ~(SerialDestroys /\ run[t] = "spass2" /\ hist.left[t] + 1 = Rounds)]
    /\ Goto(t, "out")

Destroy ==
    /\ s.alive /\ \A t \in BarrierThreads : run[t] = "out" /\ hist.left[t] = Rounds
    /\ s' = [s EXCEPT !.alive = FALSE]
    /\ UNCHANGED <<os, run, hist>>

BarrierFinished == ~s.alive /\ (\A t \in BarrierThreads : run[t] = "out") /\ UNCHANGED vars

BarrierStep(t) ==
    \/ Arrive(t) \/ Last(t) \/ Open1(t) \/ Gate1(t) \/ Pass1(t) \/ Leave(t)
    \/ SerialCloses(t) \/ Open2(t) \/ Gate2(t) \/ Pass2(t)

BarrierNext == (\E t \in BarrierThreads : BarrierStep(t)) \/ Destroy \/ BarrierFinished

BarrierSpec == BarrierInit /\ [][BarrierNext]_vars

-----------------------------------------------------------------------------
\* The type invariant.
BarrierTypeOK == s.count \in 0..N /\ os.t1 \in 0..N + 1 /\ os.t2 \in 0..N + 1

\* No thread leaves a round before every thread has arrived in it, however fast the
\* others come back for the next one.
LeavesTogether == \A t, u \in BarrierThreads : hist.left[t] <= hist.arrived[u]

\* Exactly one thread of every round is told that it was the serial one.
OneSerial == \A t \in BarrierThreads : hist.left[t] <= hist.serial /\ hist.serial <= hist.arrived[t]

\* A thread that is still in uv_barrier_wait finds its semaphores: the barrier is only
\* destroyed when all have returned.
AliveInside == \A t \in BarrierThreads : run[t] # "out" => s.alive
=============================================================================
