\* A stop between a run's registration and its watcher.
SPECIFICATION FairSpec
CONSTANTS
    Conns = {i1}
    Runs = {r1}
    Tasks = {t1, t2}
    Quits = FALSE
    None = None
PROPERTY StopReturns
CHECK_DEADLOCK FALSE
