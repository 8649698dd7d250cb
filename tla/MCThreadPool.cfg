\* Two workers, one loop, two requests.
CONSTANTS
    w1 = w1 w2 = w2 l1 = l1 r1 = r1 r2 = r2
    Workers = {w1, w2}
    Loops = {l1}
    Reqs = {r1, r2}
    LoopOf <- OneLoop
    ExitMsg = ExitMsg
    NoReq = NoReq
    NoThread = NoThread
SPECIFICATION Spec
INVARIANTS TypeOK RequestInOnePlace NeverAborts IdleCountExact NoLostWakeup
PROPERTIES StatusTellsWhetherRan ImplementsWorkQueue
