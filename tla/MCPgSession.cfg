\* A reader's session, one caller at a time: every job, a connection in use and
\* one dropped; or an agent's, with two calls either of which may run out of time.
SPECIFICATION Spec
CONSTANTS
    Tasks = {t1, t2}
    ReaderTasks = {t1}
    Conns = {k1, k2}
    Owners = {"Reader", "Agent"}
    Jobs = {"begin", "commit", "rollback", "write", "preview", "explain", "save", "reading", "escape"}
    None = None
INVARIANTS ReportedTruly NothingLeft
PROPERTIES TransactionKept SaveTold PromiseKept
SYMMETRY Symmetry
CHECK_DEADLOCK FALSE
