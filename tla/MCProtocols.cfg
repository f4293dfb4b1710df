\* Each part with its smallest instance in which its cases happen.
SPECIFICATION PartsSpec
CONSTANTS
    a = a
    b = b
    JobCalls = {a, b}
    Limits = {2}
    MaxRows = 3
    PageMost = 2
    MaxSigns = 1
    Nobody = Nobody
    Keys = {a, b}
    Values = {u, v}
    MaxEdits = 2
    MaxTx = 2
    NoRow = NoRow
    Ids = {i1, i2}
    Passwords = {p, q}
    NoSecret = NoSecret
    Unsure = Unsure
    TabIds = {t1, t2, t3}
    Ways = {"open", "agent", "close"}
    Records = {r1, r2, r3}
    Names <- TemplateNames
    MaxAsked = 2
    Installers = {a, b}
    MaxEnds = 1
INVARIANTS
    JobKept
    BundleKept
    TabsKept
    InstallsKept
PROPERTIES
    SignInHeard
    SaveKept
    DraftsKept
    RailKept
SYMMETRY Symmetry
CHECK_DEADLOCK FALSE
