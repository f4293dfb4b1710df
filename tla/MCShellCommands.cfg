\* Three calls on a connection, two shells, and the app may quit.
SPECIFICATION Spec
CONSTANTS
    Conns = {i1}
    Runs = {r1, r2}
    Tasks = {t1, t2, t3}
    Quits = TRUE
    None = None
INVARIANTS ShellsUp Agrees
PROPERTY SuccessorKept
SYMMETRY Symmetry
CHECK_DEADLOCK FALSE
