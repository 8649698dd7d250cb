----------------------------- MODULE WorkQueue ------------------------------
(***************************************************************************)
(* What uv_queue_work and uv_cancel promise a program, without threads,    *)
(* locks, queues or wakeups: each request is run at most once per          *)
(* submission, can be cancelled only before it starts, and is delivered    *)
(* exactly once with a status that says which of the two happened.         *)
(***************************************************************************)
CONSTANT Reqs

VARIABLES state,    \* the life cycle of each request
          result    \* the status of its last done callback

TypeOK ==
    /\ state \in [Reqs -> {"idle", "queued", "running", "finished", "cancelled"}]
    /\ result \in [Reqs -> {"none", "0", "ECANCELED"}]

Init ==
    /\ state = [r \in Reqs |-> "idle"]
    /\ result = [r \in Reqs |-> "none"]

Advance(r, from, to) ==
    /\ state[r] = from
    /\ state' = [state EXCEPT ![r] = to]
    /\ UNCHANGED result

Submit(r) == Advance(r, "idle", "queued")
Start(r)  == Advance(r, "queued", "running")
Finish(r) == Advance(r, "running", "finished")
Cancel(r) == Advance(r, "queued", "cancelled")

Deliver(r) ==
    /\ state[r] \in {"finished", "cancelled"}
    /\ result' = [result EXCEPT ![r] = IF state[r] = "finished" THEN "0" ELSE "ECANCELED"]
    /\ state' = [state EXCEPT ![r] = "idle"]

Next == \E r \in Reqs : Submit(r) \/ Start(r) \/ Finish(r) \/ Cancel(r) \/ Deliver(r)

Spec == Init /\ [][Next]_<<state, result>>
=============================================================================
