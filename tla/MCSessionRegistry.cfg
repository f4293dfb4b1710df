CONSTANTS
    Ids = {i1}
    Callers = {c1, c2}
    Writers = {w1, w2}
    Configs = {x1}
    Passwords = {p1, p2}
    None = None
    StoreFails = TRUE
    MaxCloses = 3
SPECIFICATION Spec
SYMMETRY Symmetry
INVARIANTS TypeOK SessionsCurrent PasswordStored
PROPERTY SessionShared
CHECK_DEADLOCK FALSE
