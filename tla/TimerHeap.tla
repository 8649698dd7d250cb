----------------------------- MODULE TimerHeap -----------------------------
(***************************************************************************)
(* The binary heap of heap-inl.h as unix/timer.c uses it: heap_insert from *)
(* uv_timer_start and heap_remove from uv_timer_stop, with the links       *)
(* between the nodes as the code keeps them.  One step is one iteration of *)
(* a loop; cur is the node that is moving and pc the loop it is in.        *)
(*                                                                         *)
(* queue is the promise of TimerQueue, updated with each call.  The links  *)
(* of a node outside the heap are NULL here: heap_insert sets them before  *)
(* they are read.  The list that a build with memory constraints has in    *)
(* place of the heap follows.                                              *)
(***************************************************************************)
EXTENDS TimerQueue

CONSTANTS Timers, Null,
          Dues, ListDues,     \* the timeouts in the heap and in the list
          MaxStarts           \* bound on the calls of uv_timer_start

ASSUME HeapAssumption ==
    /\ Null \notin Timers /\ IsFiniteSet(Timers)
    /\ Dues \cup ListDues \subseteq Nat /\ MaxStarts \in Nat

VARIABLES heap,               \* min, nelts and the links of the nodes
          timeout, start_id, timer_counter,
          pc, cur,
          queue,
          min, nelts, next,   \* the list
          starts,             \* what the bound counts in the list's build
          curr, target        \* cursor and argument of a search

heapVars == <<heap, start_id, timer_counter, cur>>
listVars == <<min, nelts, next, starts, curr, target>>
vars == <<timeout, pc, queue, heapVars, listVars>>

Init ==
    /\ heap = [min |-> Null, nelts |-> 0, left |-> [t \in Timers |-> Null],
               right |-> [t \in Timers |-> Null], parent |-> [t \in Timers |-> Null]]
    /\ timeout = [t \in Timers |-> 0] /\ start_id = [t \in Timers |-> 0]
    /\ timer_counter = 0
    /\ pc = "idle" /\ cur = Null
    /\ queue = <<>>

Nodes == {queue[i] : i \in DOMAIN queue}

\* timer_less_than
LessThan(a, b) ==
    \/ timeout[a] < timeout[b]
    \/ timeout[a] = timeout[b] /\ start_id[a] < start_id[b]

\* The node that the path computed from n leads to: the bits of n, from the one
\* after the highest to the lowest, choose right or left.
NodeAt(h) ==
    LET node[n \in 1..Cardinality(Timers)] ==
            IF n = 1 THEN h.min
            ELSE IF node[n \div 2] = Null THEN Null
            ELSE IF n % 2 = 1 THEN h.right[node[n \div 2]] ELSE h.left[node[n \div 2]]
    IN  node

\* *max = child for the place that the path of n leads to.
SetPlace(h, n, child) ==
    IF n = 1 THEN [h EXCEPT !.min = child]
    ELSE IF n % 2 = 1 THEN [h EXCEPT !.right[NodeAt(h)[n \div 2]] = child]
                      ELSE [h EXCEPT !.left[NodeAt(h)[n \div 2]] = child]

\* The pointer to a node that is held by its parent, or by heap->min, is set.
SetChild(h, up, old, new) ==
    IF up = Null THEN [h EXCEPT !.min = new]
    ELSE IF h.left[up] = old THEN [h EXCEPT !.left[up] = new]
                             ELSE [h EXCEPT !.right[up] = new]

HeapNodeSwap(h, p, c) ==
    LET onleft == h.left[p] = c
        sibling == IF onleft THEN h.right[p] ELSE h.left[p]
        up == h.parent[p]
        swapped == [h EXCEPT
            !.left = [@ EXCEPT ![p] = h.left[c], ![c] = IF onleft THEN p ELSE h.left[p]],
            !.right = [@ EXCEPT ![p] = h.right[c], ![c] = IF onleft THEN h.right[p] ELSE p],
            !.parent = [n \in Timers |-> IF n \in {p, sibling} THEN c ELSE IF n = c THEN up
                                         ELSE IF n \in {h.left[c], h.right[c]} THEN p ELSE @[n]]]
    IN  SetChild(swapped, up, p, c)

-----------------------------------------------------------------------------
\* heap_insert up to the walk upwards: the node goes to the left-most free
\* place of the bottom row.
HeapInsert(t, due) ==
    /\ pc = "idle" /\ t \notin Nodes
    /\ timer_counter < MaxStarts /\ timer_counter' = timer_counter + 1
    /\ timeout' = [timeout EXCEPT ![t] = due]
    /\ start_id' = [start_id EXCEPT ![t] = timer_counter]
    /\ LET n == heap.nelts + 1
           linked == [heap EXCEPT !.nelts = n,
                                  !.parent[t] = IF n = 1 THEN Null ELSE NodeAt(heap)[n \div 2]]
       IN  heap' = SetPlace(linked, n, t)
    /\ queue' = QueueInsert(queue, timeout', t)
    /\ pc' = "up" /\ cur' = t

HeapUp ==
    /\ pc = "up"
    /\ LET p == heap.parent[cur] IN
       IF p # Null /\ LessThan(cur, p)
       THEN heap' = HeapNodeSwap(heap, p, cur) /\ UNCHANGED <<pc, cur>>
       ELSE pc' = "idle" /\ cur' = Null /\ UNCHANGED heap
    /\ UNCHANGED <<timeout, start_id, timer_counter, queue>>

\* child takes the place of node, whose links are dropped.
Replace(h, node, child) ==
    LET links == [h EXCEPT
            !.left = [@ EXCEPT ![child] = h.left[node], ![node] = Null],
            !.right = [@ EXCEPT ![child] = h.right[node], ![node] = Null],
            !.parent = [n \in Timers |-> IF n = child THEN h.parent[node]
                            ELSE IF n = node THEN Null
                            ELSE IF n \in {h.left[node], h.right[node]} THEN child ELSE @[n]]]
    IN  SetChild(links, h.parent[node], node, child)

\* Mutant of HeapRemove: the walk starts at the removed node.
HeapRemoveWalksNode(node) ==
    /\ pc = "idle" /\ node \in Nodes
    /\ LET child == NodeAt(heap)[heap.nelts]
           unlinked == [SetPlace(heap, heap.nelts, Null) EXCEPT !.nelts = @ - 1]
       IN  IF child = node
           THEN heap' = [unlinked EXCEPT !.parent[node] = Null] /\ UNCHANGED <<pc, cur>>
           ELSE heap' = Replace(unlinked, node, child) /\ pc' = "down" /\ cur' = node
    /\ queue' = QueueRemove(queue, node)
    /\ UNCHANGED <<timeout, start_id, timer_counter>>

\* heap_remove up to the walk downwards: the last node replaces the removed one.
HeapRemove(node) ==
    /\ pc = "idle" /\ node \in Nodes
    /\ LET child == NodeAt(heap)[heap.nelts]
           unlinked == [SetPlace(heap, heap.nelts, Null) EXCEPT !.nelts = @ - 1]
       IN  IF child = node
           THEN heap' = [unlinked EXCEPT !.parent[node] = Null] /\ UNCHANGED <<pc, cur>>
           ELSE heap' = Replace(unlinked, node, child) /\ pc' = "down" /\ cur' = child
    /\ queue' = QueueRemove(queue, node)
    /\ UNCHANGED <<timeout, start_id, timer_counter>>

\* The smallest of the moving node and its children.
Smallest ==
    LET l == heap.left[cur]
        r == heap.right[cur]
        s == IF l # Null /\ LessThan(l, cur) THEN l ELSE cur
    IN  IF r # Null /\ LessThan(r, s) THEN r ELSE s

HeapDown ==
    /\ pc = "down"
    /\ IF Smallest = cur THEN pc' = "up" /\ UNCHANGED heap
       ELSE heap' = HeapNodeSwap(heap, cur, Smallest) /\ UNCHANGED pc
    /\ UNCHANGED <<timeout, start_id, timer_counter, cur, queue>>

Next ==
    \/ \E t \in Timers, due \in Dues : HeapInsert(t, due)
    \/ \E t \in Timers : HeapRemove(t)
    \/ HeapUp \/ HeapDown

Spec == Init /\ [][Next /\ UNCHANGED listVars]_vars

-----------------------------------------------------------------------------
\* The state is well typed, and the node that is moving is an active timer.
TypeOK ==
    /\ heap \in [min : Timers \cup {Null}, nelts : 0..Cardinality(Timers),
                 left : [Timers -> Timers \cup {Null}], right : [Timers -> Timers \cup {Null}],
                 parent : [Timers -> Timers \cup {Null}]]
    /\ timeout \in [Timers -> Dues \cup {0}] /\ start_id \in [Timers -> 0..MaxStarts]
    /\ timer_counter \in 0..MaxStarts
    /\ pc \in {"idle", "up", "down"} /\ cur \in IF pc = "idle" THEN {Null} ELSE Nodes
    /\ queue \in Seq(Timers)

\* "it's always a complete binary tree": the places 1..nelts hold the active
\* timers, each once, nothing is below them, and every link up matches the
\* link down, also while heap_node_swap moves a node through the tree.
CompleteTree ==
    LET node == NodeAt(heap)
    IN  /\ {node[n] : n \in 1..heap.nelts} = Nodes
        /\ heap.nelts = Cardinality(Nodes)
        /\ \A n \in heap.nelts + 1..Cardinality(Timers) : node[n] = Null
        /\ \A n \in 1..heap.nelts :
              heap.parent[node[n]] = IF n = 1 THEN Null ELSE node[n \div 2]

\* "the root is the lowest element in the set": between two calls heap_min is
\* the timer that is due first and, among those, was started first.
MinIsNext == pc = "idle" => heap.min = QueueMin(queue, Null)

-----------------------------------------------------------------------------
(***************************************************************************)
(* The heap of a build with TUV_ENABLE_MEMORY_CONSTRAINTS: a singly linked *)
(* list in firing order.  One step is one iteration of the search loop of  *)
(* heap_insert or heap_remove; curr is its cursor and target the argument  *)
(* of the call.  The link of a node outside the list is NULL here:         *)
(* heap_insert sets it before it is read.                                  *)
(***************************************************************************)
ListInit ==
    /\ min = Null /\ nelts = 0 /\ next = [t \in Timers |-> Null]
    /\ timeout = [t \in Timers |-> 0] /\ starts = 0
    /\ pc = "idle" /\ curr = Null /\ target = Null
    /\ queue = <<>>

\* timer_less_than of this build: there is no start_id.
ListLessThan(due, t) == due < timeout[t]

\* The call returns.
Return == pc' = "idle" /\ curr' = Null /\ target' = Null

Search(where, t) == pc' = where /\ curr' = min /\ target' = t

\* heap_insert up to its loop: the new node may become the head.
ListInsert(t, due) ==
    /\ pc = "idle" /\ t \notin Nodes
    /\ starts < MaxStarts /\ starts' = starts + 1
    /\ timeout' = [timeout EXCEPT ![t] = due]
    /\ IF min = Null \/ ListLessThan(due, min)
       THEN /\ next' = [next EXCEPT ![t] = min]
            /\ min' = t /\ nelts' = nelts + 1
            /\ UNCHANGED <<pc, curr, target>>
       ELSE Search("insert", t) /\ UNCHANGED <<min, nelts, next>>
    /\ queue' = QueueInsert(queue, timeout', t)

\* Mutant of InsertStep: equal timeouts are put in front of each other.
InsertStepBeforeEqual ==
    /\ pc = "insert"
    /\ IF next[curr] = Null \/ timeout[target] <= timeout[next[curr]]
       THEN /\ next' = [next EXCEPT ![target] = next[curr], ![curr] = target]
            /\ nelts' = nelts + 1
            /\ Return
       ELSE curr' = next[curr] /\ UNCHANGED <<nelts, next, pc, target>>
    /\ UNCHANGED <<min, timeout, starts, queue>>

\* The new node goes in front of the first one it is less than, or to the end.
InsertStep ==
    /\ pc = "insert"
    /\ IF next[curr] = Null \/ ListLessThan(timeout[target], next[curr])
       THEN /\ next' = [next EXCEPT ![target] = next[curr], ![curr] = target]
            /\ nelts' = nelts + 1
            /\ Return
       ELSE curr' = next[curr] /\ UNCHANGED <<nelts, next, pc, target>>
    /\ UNCHANGED <<min, timeout, starts, queue>>

\* heap_remove up to its loop.
ListRemove(t) ==
    /\ pc = "idle" /\ t \in Nodes
    /\ IF min = t
       THEN /\ min' = next[t] /\ next' = [next EXCEPT ![t] = Null]
            /\ UNCHANGED <<pc, curr, target>>
       ELSE Search("remove", t) /\ UNCHANGED <<min, next>>
    /\ queue' = QueueRemove(queue, t)
    /\ UNCHANGED <<nelts, timeout, starts>>

\* The loop ends at the node, or with the list.
RemoveStep ==
    /\ pc = "remove"
    /\ IF next[curr] = Null THEN Return /\ UNCHANGED next
       ELSE IF next[curr] = target
       THEN next' = [next EXCEPT ![curr] = next[target], ![target] = Null] /\ Return
       ELSE curr' = next[curr] /\ UNCHANGED <<next, pc, target>>
    /\ UNCHANGED <<min, nelts, timeout, starts, queue>>

ListNext ==
    \/ \E t \in Timers, due \in ListDues : ListInsert(t, due)
    \/ \E t \in Timers : ListRemove(t)
    \/ InsertStep \/ RemoveStep

ListSpec == ListInit /\ [][ListNext /\ UNCHANGED heapVars]_vars

-----------------------------------------------------------------------------
\* The state is well typed; a search has a node to look at.
ListTypeOK ==
    /\ min \in Timers \cup {Null} /\ nelts \in 0..MaxStarts
    /\ next \in [Timers -> Timers \cup {Null}]
    /\ timeout \in [Timers -> ListDues \cup {0}] /\ starts \in 0..MaxStarts
    /\ pc \in {"idle", "insert", "remove"}
    /\ queue \in Seq(Timers)
    /\ IF pc = "idle" THEN curr = Null /\ target = Null ELSE curr \in Timers /\ target \in Timers

\* Between two calls the list, followed from heap->min, is exactly the queue of
\* active timers in firing order, and it ends.
ListIsQueue ==
    pc = "idle" =>
        /\ min = QueueMin(queue, Null)
        /\ \A i \in DOMAIN queue :
              next[queue[i]] = IF i = Len(queue) THEN Null ELSE queue[i + 1]
=============================================================================
