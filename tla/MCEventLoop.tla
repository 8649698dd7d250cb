----------------------------- MODULE MCEventLoop -----------------------------
(***************************************************************************)
(* Instances of EventLoop for TLC, each with requests and fewer calls, or  *)
(* without requests and with more: the values of the configuration         *)
(* ("plain", "requests"), and a timer and an async handle under fairness    *)
(* ("live", "live requests").                                              *)
(***************************************************************************)
EXTENDS EventLoop, TLC

CONSTANTS t1, t2, i1, a1, a2, wq, s1, s2, r1,
          MaxRequestCalls   \* bound

VARIABLE kind

Plain == INSTANCE EventLoop WITH Reqs <- {}
Requests == INSTANCE EventLoop WITH MaxCalls <- MaxRequestCalls

Live == INSTANCE EventLoop
        WITH Timers <- {t1}, Idles <- {}, Asyncs <- {wq, a1}, Reqs <- {}, NullCb <- {},
             Threads <- {s1}, Timeouts <- {1}, Repeats <- {0, 1}, Modes <- {"default", "once"},
             MaxClock <- 2, MaxCalls <- 4, MaxSends <- 1, MaxSignals <- 1

LiveRequests == INSTANCE EventLoop
        WITH Timers <- {t1}, Idles <- {}, Asyncs <- {wq, a1}, Reqs <- {r1}, NullCb <- {},
             Threads <- {s1}, Timeouts <- {1}, Repeats <- {0}, Modes <- {"default", "once"},
             MaxClock <- 2, MaxCalls <- 3, MaxSends <- 1, MaxSignals <- 1

InitGiven == \/ kind = "plain" /\ Plain!Init
             \/ kind = "requests" /\ Requests!Init

NextGiven ==
    /\ \/ kind = "plain" /\ Plain!Next
       \/ kind = "requests" /\ Requests!Next
    /\ UNCHANGED kind

SpecGiven == InitGiven /\ [][NextGiven]_<<kind, vars>>

\* The timers are alike: what tells them apart is when they were started.
TimersAlike == Permutations(Timers)

InitAll == \/ InitGiven
           \/ kind = "live" /\ Live!Init
           \/ kind = "live requests" /\ LiveRequests!Init

NextAll ==
    \/ NextGiven
    \/ kind = "live" /\ Live!Next /\ UNCHANGED kind
    \/ kind = "live requests" /\ LiveRequests!Next /\ UNCHANGED kind

\* A step that is A in one live instance and B in the other.
Either(A, B) ==
    /\ \/ kind = "live" /\ A
       \/ kind = "live requests" /\ B
    /\ UNCHANGED kind

\* The loop thread goes on, the program runs the loop again, time passes, a thread inside
\* uv_async_send finishes, and the thread pool does its work.
SpecAll ==
    /\ InitAll /\ [][NextAll]_<<kind, vars>>
    /\ WF_<<kind, vars>>(Either(Live!LoopStep, LiveRequests!LoopStep))
    /\ WF_<<kind, vars>>(Either(Live!RunBegin \/ Live!RunNothing,
                                LiveRequests!RunBegin \/ LiveRequests!RunNothing))
    /\ WF_<<kind, vars>>(Either(Live!Tick, LiveRequests!Tick))
    /\ WF_<<kind, vars>>(Either(Live!SendWrite(s1), LiveRequests!SendWrite(s1)))
    /\ WF_<<kind, vars>>(Either(FALSE, LiveRequests!Worker))

-----------------------------------------------------------------------------
\* What uv_run owes the program it does: a closing handle gets out of the loop
\* (CloseFinishes of EventLoop), a send to a referenced open handle is delivered
\* (SendsDelivered), a timer that is due is fired, restarted or stopped (DueTimersFire),
\* and a request gets its callback, whether its outcome was known at once or comes from
\* the thread pool, also when nothing else keeps the loop alive or wakes it.
CloseOwes == (kind = "live" /\ Live!CloseOwed) \/ (kind = "live requests" /\ LiveRequests!CloseOwed)
SendOwes == (kind = "live" /\ Live!SendOwed) \/ (kind = "live requests" /\ LiveRequests!SendOwed)
TimerOwes == (kind = "live" /\ Live!TimerOwed) \/ (kind = "live requests" /\ LiveRequests!TimerOwed)
RequestOwes == kind = "live requests" /\ LiveRequests!RequestOwed
LoopAnswers ==
    /\ CloseOwes ~> ~CloseOwes
    /\ SendOwes ~> ~SendOwes
    /\ TimerOwes ~> ~TimerOwes
    /\ RequestOwes ~> ~RequestOwes
=============================================================================
