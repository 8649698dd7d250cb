----------------------------- MODULE UdpProofs ------------------------------
(***************************************************************************)
(* Proofs about Udp, for any number of requests, calls and datagrams.      *)
(***************************************************************************)
EXTENDS Udp, SequenceTheorems, TLAPS

-----------------------------------------------------------------------------
(***************************************************************************)
(* Lists of requests.                                                      *)
(***************************************************************************)
Distinct(q) == \A i, j \in 1..Len(q) : q[i] = q[j] => i = j

\* A list is its first k elements and the others.
LEMMA Split ==
    ASSUME NEW S, NEW q \in Seq(S), NEW k \in 0..Len(q)
    PROVE  /\ SubSeq(q, 1, k) \in Seq(S) /\ SubSeq(q, k + 1, Len(q)) \in Seq(S)
           /\ SubSeq(q, 1, k) \o SubSeq(q, k + 1, Len(q)) = q
           /\ k = Len(q) => SubSeq(q, k + 1, Len(q)) = <<>>
  <1>1. Len(q) \in Nat /\ k \in Nat /\ k <= Len(q)
    OBVIOUS
  <1>2. 1 \in 1..Len(q) + 1 /\ k \in 1 - 1..Len(q) /\ Len(q) \in k..Len(q)
    BY <1>1
  <1>3. SubSeq(q, 1, k) \in Seq(S) /\ SubSeq(q, k + 1, Len(q)) \in Seq(S)
    BY <1>1
  <1>4. SubSeq(q, 1, k) \o SubSeq(q, k + 1, Len(q)) = SubSeq(q, 1, Len(q))
    BY Zenon, <1>2, ConcatAdjacentSubSeq
  <1>5. SubSeq(q, 1, Len(q)) = q
    BY Zenon, SubSeqFull
  <1>6. k = Len(q) => SubSeq(q, k + 1, Len(q)) = <<>>
    BY <1>1
  <1> QED BY Zenon, <1>3, <1>4, <1>5, <1>6

\* Without its first element, wherever that is looked for, a list is its tail.
LEMMA RemoveHead ==
    ASSUME NEW S, NEW q \in Seq(S), q # <<>>, Distinct(q), NEW i \in DOMAIN q, q[i] = Head(q)
    PROVE  SubSeq(q, 1, i - 1) \o SubSeq(q, i + 1, Len(q)) = Tail(q)
  <1>1. Len(q) \in Nat /\ 1 \in 1..Len(q) /\ i \in 1..Len(q) /\ Head(q) = q[1]
    OBVIOUS
  <1>2. i = 1
    BY Zenon, <1>1 DEF Distinct
  <1>3. SubSeq(q, 1, i - 1) = <<>> /\ SubSeq(q, i + 1, Len(q)) = Tail(q)
    BY <1>1, <1>2
  <1>4. Tail(q) \in Seq(S)
    OBVIOUS
  <1> QED BY Zenon, <1>3, <1>4, ConcatEmptySeq

LEMMA TailDistinct ==
    ASSUME NEW S, NEW q \in Seq(S), q # <<>>, Distinct(q)
    PROVE  Tail(q) \in Seq(S) /\ Len(Tail(q)) = Len(q) - 1 /\ Distinct(Tail(q))
  <1>1. Len(q) \in Nat /\ Tail(q) \in Seq(S) /\ Len(Tail(q)) = Len(q) - 1
    OBVIOUS
  <1>2. \A i \in 1..Len(Tail(q)) : Tail(q)[i] = q[i + 1] /\ i + 1 \in 1..Len(q)
    BY <1>1
  <1>3. \A i, j \in 1..Len(Tail(q)) : i + 1 = j + 1 => i = j
    BY <1>1
  <1> QED BY Zenon, <1>1, <1>2, <1>3 DEF Distinct

LEMMA AppendDistinct ==
    ASSUME NEW S, NEW q \in Seq(S), NEW x \in S, Distinct(q), \A i \in DOMAIN q : q[i] # x
    PROVE  Append(q, x) \in Seq(S) /\ Len(Append(q, x)) = Len(q) + 1 /\ Distinct(Append(q, x))
  <1>1. Len(q) \in Nat /\ DOMAIN q = 1..Len(q)
    OBVIOUS
  <1>2. /\ Append(q, x) \in Seq(S) /\ Len(Append(q, x)) = Len(q) + 1
        /\ \A i \in 1..Len(q) : Append(q, x)[i] = q[i]
        /\ Append(q, x)[Len(q) + 1] = x
    OBVIOUS
  <1> QED BY <1>1, <1>2 DEF Distinct

LEMMA Associative ==
    ASSUME NEW p \in Seq(Reqs), NEW q \in Seq(Reqs), NEW r \in Seq(Reqs)
    PROVE  (p \o q) \o r = p \o (q \o r)
  BY SMTT(60), ConcatAssociative

\* Appending to the second of two lists appends to both together.
LEMMA ConcatAppend ==
    ASSUME NEW p \in Seq(Reqs), NEW q \in Seq(Reqs), NEW x \in Reqs
    PROVE  p \o Append(q, x) = Append(p \o q, x)
  <1>1. p \o q \in Seq(Reqs) /\ <<x>> \in Seq(Reqs)
    OBVIOUS
  <1>2. Append(q, x) = q \o <<x>> /\ Append(p \o q, x) = (p \o q) \o <<x>>
    BY Zenon, <1>1, AppendIsConcat
  <1> DEFINE e == <<x>>
  <1> HIDE DEF e
  <1>3. (p \o q) \o e = p \o (q \o e)
    BY Zenon, <1>1, Associative DEF e
  <1> QED BY Zenon, <1>2, <1>3 DEF e

\* Taking from the first of two lists takes from both together.
LEMMA ConcatTail ==
    ASSUME NEW S, NEW p \in Seq(S), NEW q \in Seq(S), p # <<>>
    PROVE  p \o q # <<>> /\ Head(p \o q) = Head(p) /\ Tail(p \o q) = Tail(p) \o q
  <1>1. /\ Len(p) \in Nat /\ Len(q) \in Nat /\ Len(p) > 0
        /\ Tail(p) \in Seq(S) /\ Len(Tail(p)) = Len(p) - 1
        /\ \A i \in 1..Len(Tail(p)) : Tail(p)[i] = p[i + 1]
    OBVIOUS
  <1>2. /\ p \o q \in Seq(S) /\ Len(p \o q) = Len(p) + Len(q)
        /\ \A i \in 1..Len(p) + Len(q) : (p \o q)[i] = IF i <= Len(p) THEN p[i] ELSE q[i - Len(p)]
    BY Zenon, ConcatProperties
  <1>3. /\ Tail(p) \o q \in Seq(S) /\ Len(Tail(p) \o q) = Len(Tail(p)) + Len(q)
        /\ \A i \in 1..Len(Tail(p)) + Len(q) :
             (Tail(p) \o q)[i] = IF i <= Len(Tail(p)) THEN Tail(p)[i] ELSE q[i - Len(Tail(p))]
    BY Zenon, <1>1, ConcatProperties
  <1> DEFINE u == p \o q
             v == Tail(p) \o q
  <1>4. u # <<>> /\ Head(u) = Head(p)
    BY <1>1, <1>2
  <1>5. /\ Tail(u) \in Seq(S) /\ Len(Tail(u)) = Len(u) - 1
        /\ \A i \in 1..Len(Tail(u)) : Tail(u)[i] = u[i + 1]
    BY <1>2, <1>4
  <1>6. Len(Tail(u)) = Len(v)
    BY <1>1, <1>2, <1>3, <1>5
  <1>7. ASSUME NEW i \in 1..Len(Tail(u)) PROVE Tail(u)[i] = v[i]
    <2>1. /\ i + 1 \in 1..Len(p) + Len(q) /\ i \in 1..Len(Tail(p)) + Len(q)
          /\ (i + 1) - Len(p) = i - Len(Tail(p))
          /\ i + 1 <= Len(p) <=> i <= Len(Tail(p))
          /\ i <= Len(Tail(p)) => i \in 1..Len(Tail(p))
      BY <1>1, <1>2, <1>5
    <2>2. Tail(u)[i] = IF i + 1 <= Len(p) THEN p[i + 1] ELSE q[(i + 1) - Len(p)]
      BY Zenon, <1>2, <1>5, <2>1
    <2>3. v[i] = IF i <= Len(Tail(p)) THEN Tail(p)[i] ELSE q[i - Len(Tail(p))]
      BY Zenon, <1>3, <2>1
    <2> QED BY Zenon, <1>1, <2>1, <2>2, <2>3
  <1> HIDE DEF u, v
  <1>8. Tail(u) = v
    BY Zenon, <1>3, <1>5, <1>6, <1>7, SeqEqual DEF v
  <1> QED BY Zenon, <1>4, <1>8 DEF u, v

-----------------------------------------------------------------------------
(***************************************************************************)
(* The queues.  SendsInOrder alone is not inductive: the callback of a     *)
(* request takes that request out of the history wherever it is, which is  *)
(* its head only if no request is outstanding twice.                       *)
(***************************************************************************)
QueueInv ==
    /\ write_queue \in Seq(Reqs) /\ write_completed_queue \in Seq(Reqs)
    /\ order \in Seq(Reqs) /\ Distinct(order)
    /\ SendsInOrder

LEMMA QueueInvInit == Init => QueueInv
  <1> SUFFICES ASSUME Init PROVE QueueInv
    OBVIOUS
  <1>1. /\ write_queue = <<>> /\ write_completed_queue = <<>> /\ order = <<>>
        /\ send_queue_count = 0 /\ active_reqs = 0
    BY Zenon DEF Init
  <1>2. <<>> \in Seq(Reqs) /\ Len(<<>>) = 0 /\ Distinct(<<>>) /\ <<>> \o <<>> = <<>>
    BY DEF Distinct
  <1> QED BY Zenon, <1>1, <1>2 DEF QueueInv, SendsInOrder

\* uv__udp_sendmsg moves requests from one queue to the other, in their order.
LEMMA SendMsgQueues ==
    ASSUME write_completed_queue \in Seq(Reqs), NEW q \in Seq(Reqs), NEW open, SendMsg(q, open)
    PROVE  /\ write_queue' \in Seq(Reqs) /\ write_completed_queue' \in Seq(Reqs)
           /\ write_completed_queue' \o write_queue' = write_completed_queue \o q
  <1>1. PICK k \in 0..Len(q) : /\ write_queue' = SubSeq(q, k + 1, Len(q))
                               /\ write_completed_queue' = write_completed_queue \o SubSeq(q, 1, k)
    BY Zenon DEF SendMsg
  <1> DEFINE a == SubSeq(q, 1, k)
             b == SubSeq(q, k + 1, Len(q))
  <1>2. a \in Seq(Reqs) /\ b \in Seq(Reqs) /\ a \o b = q
    BY Zenon, Split
  <1>3. write_queue' = b /\ write_completed_queue' = write_completed_queue \o a
    BY Zenon, <1>1
  <1> HIDE DEF a, b
  <1>4. write_completed_queue \o a \in Seq(Reqs)
    BY Zenon, <1>2, ConcatProperties
  <1>5. (write_completed_queue \o a) \o b = write_completed_queue \o (a \o b)
    BY ZenonT(60), <1>2, Associative
  <1> QED BY Zenon, <1>2, <1>3, <1>4, <1>5

\* uv_udp_send appends its request to what is outstanding.
LEMMA SendQueues ==
    ASSUME QueueInv, NEW r \in Reqs, Send(r)
    PROVE  QueueInv'
  <1>1. /\ order' = Append(order, r) /\ \A i \in DOMAIN order : order[i] # r
        /\ send_queue_count' = send_queue_count + 1 /\ active_reqs' = active_reqs + 1
    BY Zenon DEF Send
  <1>2. order' \in Seq(Reqs) /\ Len(order') = Len(order) + 1 /\ Distinct(order')
    BY Zenon, <1>1, AppendDistinct DEF QueueInv
  <1>3. Append(write_queue, r) \in Seq(Reqs)
    BY DEF QueueInv
  <1>4. write_completed_queue \o Append(write_queue, r) = order'
    BY Zenon, <1>1, ConcatAppend DEF QueueInv, SendsInOrder
  <1>5. /\ write_queue' \in Seq(Reqs) /\ write_completed_queue' \in Seq(Reqs)
        /\ write_completed_queue' \o write_queue' = order'
    <2>1. CASE SendMsg(Append(write_queue, r), TRUE)
      BY Zenon, <1>3, <1>4, <2>1, SendMsgQueues DEF QueueInv
    <2>2. CASE write_queue' = Append(write_queue, r) /\ UNCHANGED write_completed_queue
      BY Zenon, <1>3, <1>4, <2>2 DEF QueueInv
    <2> QED BY Zenon, <2>1, <2>2 DEF Send
  <1>6. send_queue_count' = Len(order') /\ active_reqs' = Len(order')
    BY Zenon, <1>1, <1>2 DEF QueueInv, SendsInOrder
  <1> QED BY Zenon, <1>2, <1>5, <1>6 DEF QueueInv, SendsInOrder

LEMMA SendIoQueues ==
    ASSUME QueueInv, SendIo
    PROVE  QueueInv'
  <1>1. UNCHANGED <<send_queue_count, active_reqs, order>> /\ SendMsg(write_queue, fd)
    BY Zenon DEF SendIo
  <1>2. /\ write_queue' \in Seq(Reqs) /\ write_completed_queue' \in Seq(Reqs)
        /\ write_completed_queue' \o write_queue' = write_completed_queue \o write_queue
    BY Zenon, <1>1, SendMsgQueues DEF QueueInv
  <1> QED BY Zenon, <1>1, <1>2 DEF QueueInv, SendsInOrder

\* A round of uv__udp_run_completed takes the oldest outstanding request.
LEMMA RunCompletedQueues ==
    ASSUME QueueInv, RunCompleted
    PROVE  QueueInv' /\ order # <<>>
  <1>1. /\ write_completed_queue # <<>> /\ write_completed_queue' = Tail(write_completed_queue)
        /\ active_reqs' = active_reqs - 1 /\ send_queue_count' = send_queue_count - 1
        /\ write_queue' = write_queue
    BY Zenon DEF RunCompleted
  <1>2. PICK i \in DOMAIN order :
           /\ order[i] = Head(write_completed_queue)
           /\ order' = SubSeq(order, 1, i - 1) \o SubSeq(order, i + 1, Len(order))
    BY Zenon DEF RunCompleted
  <1>3. /\ order # <<>> /\ Head(order) = Head(write_completed_queue)
        /\ Tail(order) = Tail(write_completed_queue) \o write_queue
    BY Zenon, <1>1, ConcatTail DEF QueueInv, SendsInOrder
  <1>4. order' = Tail(order)
    BY Zenon, <1>2, <1>3, RemoveHead DEF QueueInv
  <1>5. order' \in Seq(Reqs) /\ Len(order') = Len(order) - 1 /\ Distinct(order')
    BY Zenon, <1>3, <1>4, TailDistinct DEF QueueInv
  <1>6. write_completed_queue' \in Seq(Reqs)
    BY <1>1 DEF QueueInv
  <1>7. send_queue_count' = Len(order') /\ active_reqs' = Len(order')
    BY Zenon, <1>1, <1>5 DEF QueueInv, SendsInOrder
  <1> QED BY Zenon, <1>1, <1>3, <1>4, <1>5, <1>6, <1>7 DEF QueueInv, SendsInOrder

\* uv__udp_finish_close cancels what was not sent, behind what was.
LEMMA FinishCloseQueues ==
    ASSUME QueueInv, FinishClose
    PROVE  QueueInv'
  <1>1. /\ write_queue' = <<>> /\ write_completed_queue' = write_completed_queue \o write_queue
        /\ UNCHANGED <<send_queue_count, active_reqs, order>>
    BY Zenon DEF FinishClose
  <1>2. write_completed_queue' = order
    BY Zenon, <1>1 DEF QueueInv, SendsInOrder
  <1>3. order \o <<>> = order /\ <<>> \in Seq(Reqs)
    BY DEF QueueInv
  <1> QED BY Zenon, <1>1, <1>2, <1>3 DEF QueueInv, SendsInOrder

\* The steps that leave the queues alone.
Elsewhere ==
    \/ Open \/ Bind \/ RecvStart \/ RecvStop \/ TrySend \/ SetMembership \/ Close
    \/ RunPending \/ PollNothing \/ PollEvent \/ RecvMsg \/ RecvCbReturns
    \/ SendCbReturns \/ CompletedDone \/ CloseCbReturns \/ NextIteration \/ Drain

LEMMA NextCases ==
    Next <=> \/ Elsewhere \/ SendIo \/ RunCompleted \/ FinishClose
             \/ \E r \in Reqs : Send(r)
  BY Zenon DEF Next, UserCall, LoopStep, Elsewhere

LEMMA ElsewhereQueues == Elsewhere => UNCHANGED queueVars
  BY Zenon DEF Elsewhere, Open, Bind, RecvStart, RecvStop, TrySend, SetMembership, Close,
     RunPending, PollNothing, PollEvent, RecvMsg, RecvCbReturns, SendCbReturns,
     CompletedDone, CloseCbReturns, NextIteration, Drain

LEMMA QueueInvNext == QueueInv /\ [Next]_vars => QueueInv'
  <1> SUFFICES ASSUME QueueInv, [Next]_vars PROVE QueueInv'
    OBVIOUS
  <1>1. ASSUME UNCHANGED queueVars PROVE QueueInv'
    BY Zenon, <1>1 DEF queueVars, QueueInv, SendsInOrder
  <1>2. UNCHANGED vars => UNCHANGED queueVars
    BY Zenon DEF vars
  <1> QED BY Zenon, <1>1, <1>2, NextCases, ElsewhereQueues, SendQueues, SendIoQueues,
             RunCompletedQueues, FinishCloseQueues

LEMMA QueueInvariance == Spec => []QueueInv
  BY QueueInvInit, QueueInvNext, PTL DEF Spec

\* The callbacks of uv_udp_send come in the order of the calls, each once, and
\* the counters count them, for any number of requests, whatever callbacks send,
\* bind or close (udp.c:102-171, 278-326, 460-511).
THEOREM SendsKeepOrder == Spec => []SendsInOrder
  <1>1. QueueInv => SendsInOrder
    BY Zenon DEF QueueInv
  <1> QED BY <1>1, QueueInvariance, PTL

-----------------------------------------------------------------------------
(***************************************************************************)
(* Types, and the progress of a close.                                     *)
(***************************************************************************)
Calls == {"none", "recv", "recv_cb", "send", "completed", "send_cb", "close_cb"}

Types ==
    /\ fd \in BOOLEAN /\ bound \in BOOLEAN /\ watched \in BOOLEAN /\ active \in BOOLEAN
    /\ pevents \subseteq {"in", "out"} /\ pending \in {"init", "linked", "stale"}
    /\ recv_cb \in BOOLEAN /\ processing \in BOOLEAN
    /\ state \in {"open", "closing", "closed"} /\ phase \in {"pending", "poll", "closing"}
    /\ call \in Calls /\ pollout \in BOOLEAN /\ count \in 0..RecvMax /\ full \in BOOLEAN
    /\ calls \in 0..MaxCalls /\ fills \in 0..MaxFills

\* Once the handle is closed, uv_run does not come back to it, and close_cb finds
\* nothing outstanding.
CloseInv ==
    /\ state = "closed" => /\ write_queue = <<>> /\ phase = "closing"
                           /\ call \in {"none", "completed", "send_cb", "close_cb"}
    /\ call = "close_cb" => state = "closed" /\ send_queue_count = 0

TypeInv == Types /\ CloseInv

LEMMA TypeInvInit == Init => TypeInv
  <1> SUFFICES ASSUME Init PROVE TypeInv
    OBVIOUS
  <1>1. 0 \in 0..RecvMax /\ 0 \in 0..MaxCalls /\ 0 \in 0..MaxFills
    BY UdpAssumption
  <1>2. Types
    BY Zenon, <1>1 DEF Init, Types, Calls
  <1>3. CloseInv
    BY DEF Init, CloseInv
  <1> QED BY Zenon, <1>2, <1>3 DEF TypeInv

LEMMA CallsCounted == ASSUME Types, Call PROVE calls' \in 0..MaxCalls
  BY UdpAssumption DEF Types, Call

LEMMA FillsCounted ==
    ASSUME Types, NEW q, NEW open, SendMsg(q, open)
    PROVE  fills' \in 0..MaxFills /\ full' \in BOOLEAN /\ pending' \in {"init", "linked", "stale"}
  <1>1. /\ full' \in BOOLEAN /\ fills' \in {fills, fills + 1} /\ fills' <= MaxFills
        /\ pending' \in {pending, "linked"}
    BY Zenon DEF SendMsg, IoFeed
  <1> QED BY <1>1, UdpAssumption DEF Types

LEMMA IoTypes ==
    ASSUME Types, NEW ev \in {"in", "out"}, NEW evs,
           IoStart(ev) \/ IoStop(evs) \/ UNCHANGED <<pevents, watched>>
    PROVE  pevents' \subseteq {"in", "out"} /\ watched' \in BOOLEAN
  BY Zenon DEF Types, IoStart, IoStop

\* Calls of the API.
LEMMA UserTypes ==
    ASSUME TypeInv, QueueInv,
           \/ Open \/ Bind \/ RecvStart \/ RecvStop \/ TrySend \/ SetMembership \/ Close
           \/ \E r \in Reqs : Send(r)
    PROVE  TypeInv'
  <1>1. /\ state = "open" /\ state' \in {"open", "closing"}
        /\ call \in {"none", "recv_cb", "send_cb"}
        /\ UNCHANGED <<phase, call, pollout, count, processing>>
        /\ calls' \in 0..MaxCalls
    BY Zenon, CallsCounted DEF TypeInv, Open, Bind, RecvStart, RecvStop, TrySend, SetMembership,
       Close, Send, Call, runVars
  <1>2. CloseInv'
    BY <1>1 DEF CloseInv
  <1>3. fd' \in BOOLEAN /\ bound' \in BOOLEAN
    BY Zenon DEF TypeInv, Types, Open, Bind, RecvStart, RecvStop, TrySend, SetMembership,
       Close, Send, DeferredBind, socketVars
  <1>4. /\ pevents' \subseteq {"in", "out"} /\ watched' \in BOOLEAN
    BY Zenon, IoTypes DEF TypeInv, Open, Bind, RecvStart, RecvStop, TrySend, SetMembership,
       Close, Send, ioVars
  <1>5. active' \in BOOLEAN /\ recv_cb' \in BOOLEAN
    BY Zenon DEF TypeInv, Types, Open, Bind, RecvStart, RecvStop, TrySend, SetMembership,
       Close, Send, ioVars
  <1>6. fills' \in 0..MaxFills /\ full' \in BOOLEAN /\ pending' \in {"init", "linked", "stale"}
    <2>1. CASE \E q : SendMsg(q, TRUE)
      BY Zenon, <2>1, FillsCounted DEF TypeInv
    <2>2. CASE UNCHANGED <<full, fills>> /\ pending' \in {pending, "stale"}
      BY <2>2 DEF TypeInv, Types
    <2> QED BY Zenon, <2>1, <2>2 DEF Open, Bind, RecvStart, RecvStop, TrySend, SetMembership,
               Close, Send
  <1> QED BY <1>1, <1>2, <1>3, <1>4, <1>5, <1>6 DEF TypeInv, Types

\* Steps of uv_run.
LEMMA LoopTypes ==
    ASSUME TypeInv, QueueInv, LoopStep \/ Drain
    PROVE  TypeInv'
  <1> USE UdpAssumption DEF TypeInv, Types, CloseInv, Calls, socketVars, ioVars, queueVars,
          runVars, At
  <1>1. CASE RunPending
    BY <1>1 DEF RunPending
  <1>2. CASE PollNothing
    BY <1>2 DEF PollNothing
  <1>3. CASE PollEvent
    BY <1>3 DEF PollEvent, Readable, Writable
  <1>4. CASE RecvMsg
    BY <1>4 DEF RecvMsg
  <1>5. CASE RecvCbReturns
    BY <1>5 DEF RecvCbReturns, RecvAgain
  <1>6. CASE SendIo
    <2>1. fills' \in 0..MaxFills /\ full' \in BOOLEAN /\ pending' \in {"init", "linked", "stale"}
      BY Zenon, <1>6, FillsCounted DEF SendIo
    <2> QED BY Zenon, <1>6, <2>1 DEF SendIo
  <1>7. CASE RunCompleted
    BY <1>7 DEF RunCompleted
  <1>8. CASE SendCbReturns
    BY <1>8 DEF SendCbReturns
  <1>9. CASE CompletedDone
    <2>1. pevents' \subseteq {"in", "out"} /\ watched' \in BOOLEAN
      BY Zenon, <1>9, IoTypes DEF CompletedDone, StopSending
    <2>2. active' \in BOOLEAN /\ recv_cb' \in BOOLEAN
      BY Zenon, <1>9 DEF CompletedDone, StopSending
    <2>3. state = "closed" => send_queue_count = 0
      <3>1. ASSUME state = "closed" PROVE write_queue = <<>> /\ write_completed_queue = <<>>
        BY <1>9, <3>1 DEF CompletedDone
      <3>2. <<>> \o <<>> = <<>> /\ Len(<<>>) = 0
        OBVIOUS
      <3> QED BY Zenon, <3>1, <3>2 DEF QueueInv, SendsInOrder
    <2> QED BY Zenon, <1>9, <2>1, <2>2, <2>3 DEF CompletedDone
  <1>10. CASE FinishClose
    BY <1>10 DEF FinishClose
  <1>11. CASE CloseCbReturns
    BY <1>11 DEF CloseCbReturns
  <1>12. CASE NextIteration
    BY <1>12 DEF NextIteration
  <1>13. CASE Drain
    <2>1. /\ full' \in BOOLEAN /\ UNCHANGED <<state, write_queue, phase, call, send_queue_count>>
          /\ UNCHANGED <<fd, bound, watched, active, pevents, pending, recv_cb, processing>>
          /\ UNCHANGED <<pollout, count, calls, fills>>
      BY Zenon, <1>13 DEF Drain
    <2> QED BY <2>1
  <1> QED BY Zenon, <1>1, <1>2, <1>3, <1>4, <1>5, <1>6, <1>7, <1>8, <1>9, <1>10, <1>11,
             <1>12, <1>13 DEF LoopStep

LEMMA TypeInvNext == TypeInv /\ QueueInv /\ [Next]_vars => TypeInv'
  <1> SUFFICES ASSUME TypeInv, QueueInv, [Next]_vars PROVE TypeInv'
    OBVIOUS
  <1>1. CASE UNCHANGED vars
    <2>1. /\ UNCHANGED <<fd, bound, watched, active, pevents, pending, recv_cb, processing>>
          /\ UNCHANGED <<state, phase, call, pollout, count, full, calls, fills>>
          /\ UNCHANGED <<write_queue, send_queue_count>>
      BY Zenon, <1>1 DEF vars, socketVars, ioVars, queueVars, runVars
    <2>2. Types'
      BY ZenonT(60), <2>1 DEF TypeInv, Types
    <2>3. CloseInv'
      BY Zenon, <2>1 DEF TypeInv, CloseInv
    <2> QED BY Zenon, <2>2, <2>3 DEF TypeInv
  <1> QED BY Zenon, <1>1, UserTypes, LoopTypes DEF Next, UserCall

LEMMA TypeInvariance == Spec => []TypeInv
  BY TypeInvInit, TypeInvNext, QueueInvariance, PTL DEF Spec

-----------------------------------------------------------------------------
(***************************************************************************)
(* The watcher.  uv__io_stop does nothing without a descriptor, so what it *)
(* is called for is only done because a watcher that is registered has     *)
(* one; this is what a failing uv_udp_bind would break.                    *)
(***************************************************************************)
WatchInv ==
    /\ watched <=> pevents # {}
    /\ watched => fd
    /\ "in" \in pevents <=> state = "open" /\ recv_cb
    /\ "in" \in pevents => active
    /\ state # "open" => ~fd
    /\ call = "recv" => recv_cb

LEMMA WatchInvInit == Init => WatchInv
  BY DEF Init, WatchInv

LEMMA UserWatch ==
    ASSUME ~BindWhileWatched, TypeInv, WatchInv,
           \/ Open \/ Bind \/ RecvStart \/ RecvStop \/ TrySend \/ SetMembership \/ Close
           \/ \E r \in Reqs : Send(r)
    PROVE  WatchInv'
  <1> USE DEF TypeInv, Types, WatchInv, Call, socketVars, ioVars, runVars
  <1>1. CASE Open
    BY <1>1 DEF Open
  <1>2. CASE Bind
    BY <1>2 DEF Bind
  <1>3. CASE RecvStart
    BY <1>3 DEF RecvStart, IoStart, DeferredBind
  <1>4. CASE RecvStop
    BY Zenon, <1>4 DEF RecvStop, IoStop
  <1>5. CASE TrySend \/ SetMembership
    BY <1>5 DEF TrySend, SetMembership, DeferredBind
  <1>6. CASE Close
    BY Zenon, <1>6 DEF Close, IoStop
  <1>7. ASSUME NEW r \in Reqs, Send(r) PROVE WatchInv'
    <2>1. /\ state = "open" /\ active' = TRUE /\ fd' = TRUE
          /\ UNCHANGED <<recv_cb, state, call>>
          /\ UNCHANGED <<pevents, watched>> \/ IoStart("out")
      BY Zenon, <1>7 DEF Send, DeferredBind
    <2> QED BY <2>1 DEF IoStart
  <1> QED BY Zenon, <1>1, <1>2, <1>3, <1>4, <1>5, <1>6, <1>7

LEMMA LoopWatch ==
    ASSUME TypeInv, WatchInv, LoopStep \/ Drain
    PROVE  WatchInv'
  <1> USE DEF TypeInv, Types, WatchInv, socketVars, ioVars, runVars
  <1>1. CASE PollEvent
    BY <1>1 DEF PollEvent, Readable
  <1>2. CASE RecvCbReturns
    BY <1>2 DEF RecvCbReturns, RecvAgain
  <1>3. CASE CompletedDone
    BY <1>3 DEF CompletedDone, StopSending, IoStop
  <1>4. CASE FinishClose
    BY <1>4 DEF FinishClose
  <1>5. CASE \/ RunPending \/ PollNothing \/ RecvMsg \/ SendIo \/ RunCompleted \/ SendCbReturns
             \/ CloseCbReturns \/ NextIteration \/ Drain
    <2>1. /\ UNCHANGED <<fd, watched, pevents, active, recv_cb, state>>
          /\ call' \in {call, "none", "send", "send_cb", "recv_cb", "completed"}
      BY Zenon, <1>5 DEF RunPending, PollNothing, RecvMsg, SendIo, RunCompleted,
         SendCbReturns, CloseCbReturns, NextIteration, Drain
    <2> QED BY <2>1
  <1> QED BY Zenon, <1>1, <1>2, <1>3, <1>4, <1>5 DEF LoopStep

LEMMA WatchInvNext ==
    ASSUME ~BindWhileWatched
    PROVE  TypeInv /\ WatchInv /\ [Next]_vars => WatchInv'
  <1> SUFFICES ASSUME TypeInv, WatchInv, [Next]_vars PROVE WatchInv'
    OBVIOUS
  <1>1. CASE UNCHANGED vars
    BY Zenon, <1>1 DEF vars, socketVars, ioVars, runVars, WatchInv
  <1> QED BY Zenon, <1>1, UserWatch, LoopWatch DEF Next, UserCall

\* If uv_udp_bind is only called before the watcher is started, a handle that
\* receives is watched and keeps its loop alive, whatever the sending side stops,
\* and a closed one has no watcher and, at close_cb, nothing to send: what
\* uv__udp_finish_close asserts (udp.c:106-107, 120-121).
THEOREM WatcherIsSound ==
    ASSUME ~BindWhileWatched
    PROVE  Spec => []WatcherSound
  <1>1. Init => WatchInv
    BY Zenon, WatchInvInit
  <1>2. TypeInv /\ WatchInv /\ [Next]_vars => WatchInv'
    BY Zenon, WatchInvNext
  <1>3. TypeInv /\ WatchInv /\ QueueInv => WatcherSound
    <2> SUFFICES ASSUME TypeInv, WatchInv, QueueInv PROVE WatcherSound
      OBVIOUS
    <2>1. send_queue_count \in Nat /\ active_reqs \in Nat
      BY DEF QueueInv, SendsInOrder
    <2>2. recv_cb \in IF call = "recv" THEN {TRUE} ELSE BOOLEAN
      BY Zenon DEF TypeInv, Types, WatchInv
    <2>3. TypeOK
      BY Zenon, <2>1, <2>2 DEF TypeInv, Types, Calls, QueueInv, TypeOK
    <2>4. state = "open" /\ recv_cb => "in" \in pevents /\ watched /\ active
      BY DEF WatchInv
    <2>5. state = "closed" => pevents = {} /\ ~watched /\ ~fd
      BY DEF WatchInv
    <2>6. call = "close_cb" => send_queue_count = 0
      BY Zenon DEF TypeInv, CloseInv
    <2> QED BY Zenon, <2>3, <2>4, <2>5, <2>6 DEF WatcherSound
  <1> QED BY <1>1, <1>2, <1>3, TypeInvariance, QueueInvariance, PTL DEF Spec

-----------------------------------------------------------------------------
(***************************************************************************)
(* A closed handle.  It is not queued again because uv__udp_io does not    *)
(* come to its sending half any more, which is where recv_cb must not      *)
(* close the handle.                                                       *)
(***************************************************************************)
QuietInv ==
    state # "open" => /\ ~fd /\ pending # "linked" /\ call \notin {"send", "recv"}
                      /\ call = "recv_cb" => ~pollout

LEMMA QuietInvNext ==
    ASSUME ~CloseWithPollout
    PROVE  TypeInv /\ QuietInv /\ [Next]_vars => QuietInv'
  <1> SUFFICES ASSUME TypeInv, QuietInv, [Next]_vars PROVE QuietInv'
    OBVIOUS
  <1> USE DEF TypeInv, Types, QuietInv, socketVars, ioVars, runVars
  <1>1. CASE Close
    BY <1>1 DEF Close, Call
  <1>2. CASE \/ Open \/ Bind \/ RecvStart \/ RecvStop \/ TrySend \/ SetMembership
             \/ \E r \in Reqs : Send(r)
    <2>1. state = "open" /\ state' = state
      BY Zenon, <1>2 DEF Open, Bind, RecvStart, RecvStop, TrySend, SetMembership, Send, Call
    <2> QED BY <2>1
  <1>3. CASE RunPending
    BY <1>3 DEF RunPending
  <1>4. CASE PollEvent
    BY <1>4 DEF PollEvent, Readable, Writable
  <1>5. CASE RecvCbReturns
    BY <1>5 DEF RecvCbReturns, RecvAgain
  <1>6. CASE SendIo \/ RecvMsg
    <2>1. call \in {"send", "recv"} /\ state' = state
      BY Zenon, <1>6 DEF SendIo, RecvMsg
    <2> QED BY <2>1
  <1>7. CASE \/ RunCompleted \/ SendCbReturns \/ CompletedDone \/ FinishClose
             \/ CloseCbReturns \/ PollNothing \/ NextIteration \/ Drain
    <2>1. /\ UNCHANGED <<fd, pending>>
          /\ state' # "open" => state # "open"
          /\ call' \in {call, "send_cb", "completed", "close_cb", "none"}
          /\ pollout' = pollout
      BY <1>7 DEF RunCompleted, SendCbReturns, CompletedDone, FinishClose,
         CloseCbReturns, PollNothing, NextIteration, Drain
    <2> QED BY <2>1
  <1>8. CASE UNCHANGED vars
    BY Zenon, <1>8 DEF vars
  <1> QED BY Zenon, <1>1, <1>2, <1>3, <1>4, <1>5, <1>6, <1>7, <1>8 DEF Next, UserCall, LoopStep

\* If recv_cb does not close the handle while POLLOUT is still to be handled, a
\* handle that uv_close was called for is never in pending_queue again
\* (udp.c:91-99, 174-187).
THEOREM ClosedIsQuiet ==
    ASSUME ~CloseWithPollout
    PROVE  Spec => []QuietAfterClose
  <1>1. Init => QuietInv
    BY DEF Init, QuietInv
  <1>2. TypeInv /\ QuietInv /\ [Next]_vars => QuietInv'
    BY Zenon, QuietInvNext
  <1>3. QuietInv => QuietAfterClose
    BY Zenon DEF QuietInv, QuietAfterClose
  <1> QED BY <1>1, <1>2, <1>3, TypeInvariance, PTL DEF Spec
=============================================================================
