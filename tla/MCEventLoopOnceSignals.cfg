\* One timer; signals interrupt epoll_wait.
CONSTANTS
    t1 = t1 t2 = t2 i1 = i1 a1 = a1 a2 = a2 wq = wq s1 = s1 s2 = s2 r1 = r1
    Timers = {t1}
    Idles = {}
    Asyncs = {wq}
    WqAsync = wq
    Reqs = {}
    NullCb = {}
    Threads = {}
    NoHandle = NoHandle
    Timeouts = {4}
    Repeats = {0}
    UintMax = 7
    IntMax = 6
    Modes = {"once"}
    CloseEarly = FALSE
    MaxClock = 5
    MaxCalls = 2
    MaxRequestCalls = 0
    MaxSends = 0
    MaxSignals = 2
SPECIFICATION SpecGiven
PROPERTY OnceMakesProgress
CHECK_DEADLOCK FALSE
