\* "plain" and "requests": two async handles beside wq_async, two sending threads, an idle handle, a request.
CONSTANTS
    t1 = t1 t2 = t2 i1 = i1 a1 = a1 a2 = a2 wq = wq s1 = s1 s2 = s2 r1 = r1
    Timers = {}
    Idles = {i1}
    Asyncs = {wq, a1, a2}
    WqAsync = wq
    Reqs = {r1}
    NullCb = {a2}
    Threads = {s1, s2}
    NoHandle = NoHandle
    Timeouts = {0}
    Repeats = {0}
    UintMax = 7
    IntMax = 6
    Modes = {"default", "nowait"}
    CloseEarly = FALSE
    MaxClock = 0
    MaxCalls = 5
    MaxRequestCalls = 4
    MaxSends = 2
    MaxSignals = 0
SPECIFICATION SpecAll
INVARIANT SendsKept
PROPERTIES CallbacksOnlyWhileOpen LoopAnswers
CHECK_DEADLOCK FALSE
