\* Two timers, an idle handle and a request; uv_loop_close may come too early.
CONSTANTS
    t1 = t1 t2 = t2 i1 = i1 a1 = a1 a2 = a2 wq = wq s1 = s1 s2 = s2 r1 = r1
    Timers = {t1, t2}
    Idles = {i1}
    Asyncs = {wq}
    WqAsync = wq
    Reqs = {r1}
    NullCb = {}
    Threads = {}
    NoHandle = NoHandle
    Timeouts = {0, 1, 7}
    Repeats = {0, 1}
    UintMax = 7
    IntMax = 6
    Modes = {"default", "once"}
    CloseEarly = TRUE
    MaxClock = 2
    MaxCalls = 6
    MaxRequestCalls = 5
    MaxSends = 0
    MaxSignals = 1
SPECIFICATION SpecGiven
SYMMETRY TimersAlike
INVARIANTS ActiveCountExact ListsSound
PROPERTIES TimersNeverEarly RunsUntilDead
CHECK_DEADLOCK FALSE
