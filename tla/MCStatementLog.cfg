\* Two calls under one id, over two connections, with a history of two rows.
SPECIFICATION FairSpec
CONSTANTS
    Calls = {c1, c2}
    Ids = {i1}
    Connections = {x1, x2}
    Keep = 2
    Recent = 1
    AtMost = 1
    Within = 2
    MaxRecords = 3
    None = None
INVARIANTS Cancellable Counted
PROPERTY CallEnds
CHECK_DEADLOCK FALSE
