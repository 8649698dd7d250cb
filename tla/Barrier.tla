------------------------------- MODULE Barrier -------------------------------
(***************************************************************************)
(* The barrier of pthread-barrier.c, for systems without                   *)
(* pthread_barrier_t: a mutex, a condition variable and two counters.      *)
(***************************************************************************)
EXTENDS Integers, FiniteSets

CONSTANTS Threads, Threshold,
          Ndebug,       \* assert() is empty, its argument is not evaluated
          Rounds,       \* how often a thread waits at the barrier
          EarlyReuse,   \* a thread may come back while others of its group leave
          MaxSpurious   \* bound on the wakeups without a signal

VARIABLES
    s,      \* the barrier
    os,     \* the owner of the mutex and the threads that wait on the condition
    run,    \* the place of every thread
    hist    \* arrivals and returns of every thread, serial returns, wakeups

vars == <<s, os, run, hist>>
None == "none"

Init ==
    /\ s = [in |-> 0, out |-> 0, threshold |-> Threshold, alive |-> TRUE]
    /\ os = [mutex |-> None, waiting |-> {}]
    /\ run = [t \in Threads |-> "outside"]
    /\ hist = [arrived |-> [t \in Threads |-> 0], left |-> [t \in Threads |-> 0],
               serial |-> 0, spurious |-> 0]

Goto(t, pc) == run' = [run EXCEPT ![t] = pc]

\* pthread_cond_signal wakes one waiter, if there is one.
Signalled(w) == {v \in SUBSET w : Cardinality(w \ v) = IF w = {} THEN 0 ELSE 1}

\* pthread_barrier_wait takes the mutex.  It does not look at out: a thread that comes
\* back while others leave makes in nonzero again, and those wait on.
Enter(t) ==
    /\ run[t] = "outside" /\ os.mutex = None /\ s.alive /\ hist.arrived[t] < Rounds
    /\ EarlyReuse \/ s.out = 0
    /\ os' = [os EXCEPT !.mutex = t]
    /\ hist' = [hist EXCEPT !.arrived[t] = @ + 1]
    /\ Goto(t, "count") /\ UNCHANGED s

\* The last thread resets the counter and signals, inside an assert.
Last(t) ==
    /\ run[t] = "count" /\ s.in + 1 = s.threshold
    /\ s' = [s EXCEPT !.in = 0, !.out = s.threshold - 1]
    /\ \E w \in IF Ndebug THEN {os.waiting} ELSE Signalled(os.waiting) :
           os' = [mutex |-> None, waiting |-> w]
    /\ hist' = [hist EXCEPT !.left[t] = @ + 1, !.serial = @ + 1]
    /\ Goto(t, "outside")

\* The others wait, which releases the mutex.
Wait(t) ==
    /\ run[t] = "count" /\ s.in + 1 # s.threshold
    /\ s' = [s EXCEPT !.in = @ + 1]
    /\ os' = [mutex |-> None, waiting |-> os.waiting \cup {t}]
    /\ Goto(t, "waiting") /\ UNCHANGED hist

Spurious(t) ==
    /\ run[t] = "waiting" /\ t \in os.waiting /\ hist.spurious < MaxSpurious
    /\ os' = [os EXCEPT !.waiting = @ \ {t}]
    /\ hist' = [hist EXCEPT !.spurious = @ + 1]
    /\ UNCHANGED <<s, run>>

\* Mutant of Released: the counter is not tested again after a wakeup.
ReleasedAlways == TRUE

Released == s.in = 0

\* Mutant of PassedOn: the thread that leaves does not wake the next one.
PassedOnNot(w) == {w}

\* The signal of a thread that leaves.
PassedOn(w) == Signalled(w)

\* A thread that was woken has the mutex again: it waits on, or leaves and passes
\* the signal on.
Wakes(t) ==
    /\ run[t] = "waiting" /\ t \notin os.waiting /\ os.mutex = None
    /\ IF Released
       THEN /\ s' = [s EXCEPT !.out = @ - 1]
            /\ \E w \in PassedOn(os.waiting) : os' = [os EXCEPT !.waiting = w]
            /\ hist' = [hist EXCEPT !.left[t] = @ + 1]
            /\ Goto(t, "outside")
       ELSE /\ os' = [os EXCEPT !.waiting = @ \cup {t}]
            /\ UNCHANGED <<s, run, hist>>

\* Mutant of Busy: threads that are still on their way out are not counted.
BusyIn == s.in > 0

\* pthread_barrier_destroy refuses while threads wait or leave.
Busy == s.in > 0 \/ s.out > 0

\* A thread that returned destroys the barrier, when nobody will come any more.
Destroy(t) ==
    /\ run[t] = "outside" /\ os.mutex = None /\ s.alive
    /\ \A u \in Threads : hist.arrived[u] = Rounds
    /\ ~Busy
    /\ s' = [s EXCEPT !.alive = FALSE]
    /\ UNCHANGED <<os, run, hist>>

Step(t) == Enter(t) \/ Last(t) \/ Wait(t) \/ Wakes(t)
Next == \E t \in Threads : Step(t) \/ Spurious(t) \/ Destroy(t)

Fairness == \A t \in Threads : WF_vars(Step(t))
Spec == Init /\ [][Next]_vars /\ Fairness

-----------------------------------------------------------------------------
\* The type invariant.
TypeOK ==
    /\ s.in \in 0..Threshold /\ s.out \in -1..Threshold /\ os.waiting \subseteq Threads
    /\ os.mutex \in Threads \cup {None}

\* A thread leaves the barrier for the n-th time only when Threshold threads have come
\* n times, and one of each group returns PTHREAD_BARRIER_SERIAL_THREAD.
Together ==
    LET Sum(f) == LET sum[T \in SUBSET Threads] ==
                          IF T = {} THEN 0
                          ELSE LET t == CHOOSE u \in T : TRUE IN f[t] + sum[T \ {t}]
                  IN sum[Threads]
    IN /\ \A t \in Threads : Sum(hist.arrived) >= hist.left[t] * Threshold
       /\ hist.serial = Sum(hist.arrived) \div Threshold
          \/ \E t \in Threads : run[t] = "count"

\* The barrier is destroyed only when no thread is inside that would use it.
DestroyedAlone == ~s.alive => \A t \in Threads : run[t] = "outside"

=============================================================================
