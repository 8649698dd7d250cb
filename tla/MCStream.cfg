CONSTANTS
    r1 = r1
    r2 = r2
    c1 = c1
    c2 = c2
    h1 = h1
    h2 = h2
    Types = {"tcp", "pipe"}
    Reqs = {r1, r2}
    Size <- SizeDef
    BufLen = 2
    ReadMax = 2
    RetryConnect = FALSE
    HasSoError = TRUE
    MaxCalls = 4
    MaxData = 3
    MaxFills = 1
    MaxNoMem = 1
    Clients = {c1, c2}
    Limit = 4
    MaxConns = 3
    MaxOthers = 2
    MaxErrors = 1
    MaxServerCalls = 5
    Handles = {h1, h2}
    Chunk = 2
    MaxForeign = 2
    MaxIpcCalls = 6
    MaxSelectCalls = 4
    MaxReady = 3
SPECIFICATION Spec
INVARIANTS OutputInOrder OwnedOnce StaysArmed
PROPERTIES ToldTruth Answered
CHECK_DEADLOCK FALSE
