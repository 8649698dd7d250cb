---------------------------- MODULE TimerQueue -----------------------------
(***************************************************************************)
(* What the timer heap promises to the event loop: the active timers, in   *)
(* the order in which they are to fire.  Timers that are due at the same   *)
(* time fire in the order in which they were started.  The heap of         *)
(* heap-inl.h is checked against these operators, in both of its forms.    *)
(***************************************************************************)
EXTENDS Naturals, FiniteSets, Sequences

\* t is put behind every timer that is not due later; due gives the times.
QueueInsert(queue, due, t) ==
    LET n == Cardinality({i \in DOMAIN queue : due[queue[i]] <= due[t]})
    IN  SubSeq(queue, 1, n) \o <<t>> \o SubSeq(queue, n + 1, Len(queue))

\* A timer is in the queue once at most.
QueueRemove(queue, t) ==
    IF \E i \in 1..Len(queue) : queue[i] = t
    THEN LET k == CHOOSE i \in 1..Len(queue) : queue[i] = t
         IN  SubSeq(queue, 1, k - 1) \o SubSeq(queue, k + 1, Len(queue))
    ELSE queue

QueueMin(queue, none) == IF queue = <<>> THEN none ELSE Head(queue)
=============================================================================
