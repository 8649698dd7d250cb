CONSTANTS
    Reqs = {r1, r2, r3}
    NullCb = {r3}
    RecvMax = 1
    BindWhileWatched = FALSE
    CloseWithPollout = FALSE
    MaxCalls = 7
    MaxFills = 2
SPECIFICATION FairSpec
INVARIANTS
    SendsInOrder
    WatcherSound
    QuietAfterClose
PROPERTY CallbacksCome
CHECK_DEADLOCK FALSE
