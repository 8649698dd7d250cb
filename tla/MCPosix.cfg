CONSTANTS
    Kinds = {"poller", "signal", "process", "spawn", "cloexec", "fspoll", "fsrequest",
             "fstransfer", "inotify", "fsevents", "barrier", "loopinit", "rbtree"}
    l1 = l1  l2 = l2  h1 = h1  h2 = h2
SPECIFICATION Spec
INVARIANTS BooksExact OwnedOnce OutcomeExact
PROPERTIES CallbackWanted Answered
CHECK_DEADLOCK FALSE
