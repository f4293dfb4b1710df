\* A get and a save, with stores that refuse nothing; two calls and two shells.
SPECIFICATION EndingsSpec
CONSTANTS
    Ids = {i1}
    Callers = {c1}
    Writers = {w1}
    Configs = {x1}
    Passwords = {p1, p2}
    StoreFails = FALSE
    MaxCloses = 2
    Runs = {r1, r2}
    Tasks = {t1, t2}
    Quits = FALSE
    None = None
PROPERTIES StrayEnds EndingAnnounced GetEnds
CHECK_DEADLOCK FALSE
