------------------------------ MODULE MCTimers ------------------------------
(***************************************************************************)
(* Instances of the two timer heaps of heap-inl.h for TLC: the binary heap *)
(* and the list of a build with memory constraints.                        *)
(***************************************************************************)
EXTENDS TimerHeap, TLC

CONSTANTS t1, t2, t3, t4, t5, t6

VARIABLE kind       \* the build

InitBoth ==
    \/ kind = "heap" /\ Init /\ min = Null /\ nelts = 0 /\ next = Null /\ starts = 0
         /\ curr = Null /\ target = Null
    \/ kind = "list" /\ ListInit /\ heap = Null /\ start_id = 0 /\ timer_counter = 0 /\ cur = Null

NextBoth ==
    /\ \/ kind = "heap" /\ Next /\ UNCHANGED listVars
       \/ kind = "list" /\ ListNext /\ UNCHANGED heapVars
    /\ UNCHANGED kind

SpecBoth == InitBoth /\ [][NextBoth]_<<kind, vars>>

Symmetry == Permutations(Timers)

-----------------------------------------------------------------------------
\* The binary heap is a complete tree with matching links, through every step of an
\* insertion or removal that moves nodes, and heap_min is the timer that is due first
\* (CompleteTree and MinIsNext of TimerHeap).
HeapExact == kind = "heap" => TypeOK /\ CompleteTree /\ MinIsNext

\* The list is the queue of active timers in firing order, with ties in starting order
\* (ListIsQueue of TimerHeap), and a search of it has a node to look at.
ListInOrder == kind = "list" => ListTypeOK /\ ListIsQueue
=============================================================================
