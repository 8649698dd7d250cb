CONSTANTS
    Reqs = {r1, r2}
    NullCb = {}
    RecvMax = 1
    BindWhileWatched = FALSE
    CloseWithPollout = TRUE
    MaxCalls = 6
    MaxFills = 1
SPECIFICATION Spec
INVARIANT QuietAfterClose
CHECK_DEADLOCK FALSE
