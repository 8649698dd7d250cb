CONSTANTS
    Reqs = {r1}
    NullCb = {}
    RecvMax = 1
    BindWhileWatched = FALSE
    CloseWithPollout = FALSE
    MaxCalls = 1
    MaxFills = 1
SPECIFICATION FairSpec
PROPERTY EverySendCompletes
CHECK_DEADLOCK FALSE
