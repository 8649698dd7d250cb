------------------------------- MODULE WinPoll -------------------------------
(***************************************************************************)
(* A poll handle of the Windows port (win/poll.c) with its two requests.   *)
(* In the fast way a request is an exclusive poll of the socket driver,    *)
(* which makes the other one return; in the slow way it is a select() on a *)
(* thread of the system's pool.                                            *)
(***************************************************************************)
EXTENDS WinHandle

CONSTANTS SlowWays,      \* the ways a handle may poll: a subset of BOOLEAN
          Interests,     \* what the program may ask for: sets of "R", "W", "D"
          MaxPollCalls, MaxChanges   \* bounds

Reqs == {"r1", "r2"}
Other(r) == IF r = "r1" THEN "r2" ELSE "r1"

\* uv_poll_init_socket: a socket of the default driver is polled the fast way.
Init ==
    /\ \E slow \in SlowWays :
         s = HandleInit @@
             [slow |-> slow, events |-> {}, submitted |-> [r \in Reqs |-> {}],
              mask |-> [r \in Reqs |-> {}]]
    /\ os = [iocp |-> <<>>, flight |-> {}, ready |-> {}, socket |-> "open",
             queued |-> {}, asks |-> [r \in Reqs |-> {}],
             error |-> [r \in Reqs |-> FALSE], got |-> [r \in Reqs |-> {}]]
    /\ run = RunInit
    /\ hist = [calls |-> 0, changes |-> 0, told |-> {}, unwanted |-> FALSE]

Call == Program /\ hist.calls < MaxPollCalls

-----------------------------------------------------------------------------
\* Which request is free: the first one that is.
Free(h) == IF h.submitted["r1"] = {} THEN "r1" ELSE IF h.submitted["r2"] = {} THEN "r2" ELSE None

\* What the new request reports is masked in the other one.
Marked(h, r) ==
    [h EXCEPT !.submitted[r] = h.events, !.mask = [q \in Reqs |-> IF q = r THEN {} ELSE h.events]]

\* The driver returns a request that another one replaces, without an event.
Returned(o, q) ==
    IF q \in o.flight
    THEN [o EXCEPT !.flight = @ \ {q}, !.iocp = Append(@, q), !.error[q] = FALSE, !.got[q] = {},
                     !.asks[q] = {}]
    ELSE o

\* uv__fast_poll_submit_poll_req and uv__slow_poll_submit_poll_req
Submit(h) ==
    LET r == Free(h)
    IN IF r = None THEN s' = h /\ UNCHANGED os
       ELSE IF h.slow
       THEN s' = Marked(h, r) /\ os' = [os EXCEPT !.queued = @ \cup {r}]
       ELSE IF os.socket = "open"
       THEN s' = Marked(h, r) /\ os' = [Returned(os, Other(r)) EXCEPT !.flight = @ \cup {r},
                                          !.asks[r] = h.events]
       ELSE s' = InsertPending(Marked(h, r), r) /\ os' = [os EXCEPT !.error[r] = TRUE]

\* Mutant of Uncovered: a request that is under way is taken to ask for everything.
UncoveredIdle(h) == h.events # {} /\ h.submitted["r1"] \cup h.submitted["r2"] = {}

Uncovered(h) == h.events \ (h.submitted["r1"] \cup h.submitted["r2"]) # {}

\* uv_poll_start, and uv_poll_stop for no event: uv__fast_poll_set, uv__slow_poll_set
Set(events) ==
    /\ Call /\ hist' = [hist EXCEPT !.calls = @ + 1, !.told = {}]
    /\ s.slow => "D" \notin events
    /\ LET h == [s EXCEPT !.events = events, !.active = events # {}]
       IN IF Uncovered(h) THEN Submit(h) ELSE s' = h /\ UNCHANGED os
    /\ UNCHANGED run

Outstanding(h) == \E r \in Reqs : h.submitted[r] # {}

\* uv__fast_poll_close returns the requests with one more poll; uv__slow_poll_close waits.
Close ==
    /\ Call /\ hist' = [hist EXCEPT !.calls = @ + 1]
    /\ LET h == HandleClosing([s EXCEPT !.events = {}])
       IN s' = IF Outstanding(s) THEN h ELSE WantEndgame(h)
    /\ os' = IF Outstanding(s) /\ ~s.slow THEN Returned(Returned(os, "r1"), "r2") ELSE os
    /\ UNCHANGED run

-----------------------------------------------------------------------------
\* The socket becomes ready and is drained, or the program closes it.
Change ==
    /\ hist.changes < MaxChanges /\ os.socket = "open"
    /\ \/ \E e \in {"R", "W", "D"} : os' = [os EXCEPT !.ready = @ \cup {e}]
       \/ os.ready # {} /\ os' = [os EXCEPT !.ready = {}]
       \/ run.pc \in {"idle", "cb"} /\ os' = [os EXCEPT !.socket = "closed"]
    /\ hist' = [hist EXCEPT !.changes = @ + 1]
    /\ UNCHANGED <<s, run>>

\* The driver reports what the request asks for, and a disconnect with reading.
Hits(asks) == (asks \cap os.ready) \cup (IF "R" \in asks THEN {"D"} \cap os.ready ELSE {})

Complete(r) ==
    /\ r \in os.flight /\ ~s.slow
    /\ Hits(os.asks[r]) # {} \/ os.socket = "closed"
    /\ os' = [os EXCEPT !.flight = @ \ {r}, !.iocp = Append(@, r), !.error[r] = FALSE,
                        !.asks[r] = {}, !.got[r] = IF os.socket = "closed" THEN {"closed"} ELSE Hits(os.asks[r])]
    /\ UNCHANGED <<s, run, hist>>

\* uv__slow_poll_thread_proc reads handle->events when the thread runs ...
SelectStarts(r) ==
    /\ r \in os.queued
    /\ os' = [os EXCEPT !.queued = @ \ {r}, !.flight = @ \cup {r}, !.asks[r] = s.events]
    /\ UNCHANGED <<s, run, hist>>

\* ... and select() returns with an event, after three minutes, or with an error: for a
\* closed socket and for no socket at all.  An error is noted in the first request.
SelectEnds(r) ==
    /\ r \in os.flight /\ s.slow
    /\ LET done == [os EXCEPT !.flight = @ \ {r}, !.iocp = Append(@, r), !.asks[r] = {}]
       IN IF os.asks[r] = {} \/ os.socket = "closed"
          THEN os' = [done EXCEPT !.error["r1"] = TRUE]
          ELSE os' = [done EXCEPT !.error[r] = FALSE, !.got[r] = os.asks[r] \cap os.ready]
    /\ UNCHANGED <<s, run, hist>>

-----------------------------------------------------------------------------
\* Mutant of Reported: what the program asked for in the meantime is not looked at.
ReportedStale(h, r, got) == got \ h.mask[r]

\* What the callback is told: what is wanted now, and not left to the other request.
Reported(h, r, got) == got \cap (h.events \ h.mask[r])

\* A disconnect counts as readable.
Seen(got) == (got \ {"closed"}) \cup (IF "D" \in got THEN {"R"} ELSE {})

\* uv__fast_poll_process_poll_req and uv__slow_poll_process_poll_req up to the callback:
\* an error ends the watching, and so does the end of the socket.
ProcessPoll(r) ==
    /\ Req(r)
    /\ LET h == [s EXCEPT !.submitted[r] = {}]
           told == Reported(s, r, Seen(os.got[r]))
           ended == IF "closed" \in os.got[r] /\ ~s.slow
                    THEN [h EXCEPT !.events = {}, !.active = FALSE] ELSE h
       IN IF os.error[r]
          THEN /\ s' = [h EXCEPT !.events = {}]
               /\ run' = [Taken EXCEPT !.pc = IF s.events # {} THEN "cb" ELSE "submit",
                                       !.back = "submit"]
               /\ UNCHANGED hist
          ELSE /\ s' = ended
               /\ run' = [Taken EXCEPT !.pc = IF told # {} THEN "cb" ELSE "submit",
                                       !.back = "submit"]
               /\ hist' = [hist EXCEPT !.told = @ \cup told,
                                       !.unwanted = @ \/ ~(told \subseteq s.events)]
    /\ os' = IF s.slow THEN os ELSE [os EXCEPT !.got[r] = {}]

\* Mutant of Last: the other request is not waited for.
LastEither(h) == h.closing

Last(h) == h.closing /\ ~Outstanding(h)

\* ... and after it: ask again for what no request asks for, or close.
Resubmit ==
    /\ run.pc = "submit"
    /\ IF Uncovered(s) THEN Submit(s)
       ELSE s' = (IF Last(s) THEN WantEndgame(s) ELSE s) /\ UNCHANGED os
    /\ run' = [run EXCEPT !.pc = "reqs", !.back = None]
    /\ UNCHANGED hist

\* uv_poll_endgame
Endgame ==
    /\ run.pc = "endgame"
    /\ s' = HandleClose([s EXCEPT !.endgame = FALSE])
    /\ run' = [run EXCEPT !.pc = "idle"]
    /\ UNCHANGED <<os, hist>>

LoopStep == LoopRounds \/ Resubmit \/ Endgame \/ \E r \in Reqs : ProcessPoll(r)
KernelStep == \E r \in Reqs : Complete(r) \/ SelectStarts(r) \/ SelectEnds(r)

Next == (\E events \in Interests : Set(events)) \/ Close \/ Change \/ LoopStep \/ KernelStep

Spec == Init /\ [][Next]_vars /\ WF_vars(LoopStep) /\ WF_vars(KernelStep)

-----------------------------------------------------------------------------
\* The type invariant.
TypeOK ==
    /\ s.events \subseteq {"R", "W", "D"} /\ os.flight \subseteq Reqs
    /\ os.queued \subseteq Reqs /\ run.pc \in {"idle", "cb", "reqs", "submit", "endgame"}

\* A request counts as submitted exactly while the driver, a thread, the port or the loop
\* has it: a handle is not closed under a poll, and no poll is submitted twice.
SubmittedExact ==
    \A r \in Reqs : Places(r) + One(r \in os.queued) = One(s.submitted[r] # {})

\* The close callback comes when no poll is under way: the program frees the handle in it.
PollFreed == s.closed => ~Outstanding(s)

\* The callback is told only events the program wants at that time.
PollWanted == ~hist.unwanted

\* What is ready and wanted is reported, or the watching ends with an error.
PollOwes == (s.events \cap os.ready \cap {"R", "W"}) \ hist.told # {} /\ os.socket = "open"

=============================================================================
