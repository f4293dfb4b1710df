\* Two requests of two agents at one place, and a server that stops and starts once.
SPECIFICATION FairSpec
CONSTANTS
    Calls = {a1, a2}
    Clients = {c1, c2}
    Tokens = {t1, t2}
    Ports = {p1, p2}
    AtOnce = 1
    MaxServers = 2
    MaxStarts = 1
    None = None
INVARIANT AgentsAnswered
PROPERTIES StopReturns 
CHECK_DEADLOCK FALSE
