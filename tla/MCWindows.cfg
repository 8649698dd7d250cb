CONSTANTS
    Kinds = {"loop", "loops", "tcp", "server", "udp", "poll", "pipe", "pipe server", "pipe thread",
             "ipc", "signal", "fs event", "process", "args", "env", "search",
             "fs request", "fs", "links", "transfer", "thread", "rwlock", "cond", "barrier"}
    t1 = t1  t2 = t2  a1 = a1  a2 = a2  wq = wq  w1 = w1  w2 = w2  w3 = w3
SPECIFICATION Spec
INVARIANTS CountsExact ClosedQuiet StaysArmed DataInOrder ResultTold ThreadsSafe
PROPERTIES CallbackWanted Answered
