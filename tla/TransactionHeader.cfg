\* Two callers at the lock of one connection, with statements, previews, plans and saves,
\* and the fairness of the client.
SPECIFICATION HeaderFairSpec
CONSTANTS
    Tasks = {t1, t2}
    Conns = {k1}
    Owners = {"Reader"}
    ReaderTasks = {t1, t2}
    Jobs = {"begin", "preview", "explain", "save"}
    None = None
INVARIANT HeaderKept
PROPERTY CancelAnswered
CHECK_DEADLOCK FALSE
