\* One document, one request; the connection's server is stopped once, and dies
\* on its own at any time.
SPECIFICATION FairSpec
CONSTANTS
    Starts = {s1, s2}
    Creds = {old, new}
    Uris = {u1}
    Asks = {q1}
    MaxVersion = 1
    MaxStops = 1
    MaxAsked = 1
    Slow = TRUE
    Installs = TRUE
    None = None
INVARIANTS OneServer DeadNoticed
PROPERTY CompletionEnds
CHECK_DEADLOCK FALSE
