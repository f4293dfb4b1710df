\* One agent's call, whose time may be up once its job has a name.
SPECIFICATION BqSpec
CONSTANTS
    JobCalls = {a}
    Limits = {2}
    MaxRows = 3
    PageMost = 2
    MaxSigns = 1
    Nobody = Nobody
INVARIANT GivenUpTakesJob
CHECK_DEADLOCK FALSE
