\* Every input within the bounds, each part's own.
SPECIFICATION PartsSpec
CONSTANTS
    C1 = C1
    C2 = C2
    T1 = T1
    T2 = T2
    Completers = {C1, C2}
    Tables = {T1, T2}
    Rounds = 2
    MaxSaves = 2
    Nothing = Nothing
    TablesOf = {T1, T2}
    MaxNodes = 2
    MaxPieces = 3
    Texts <- MessageTexts
    Most = 3
    MaxTold = 2
    MaxTokens = 3
    MaxChanges = 2
    MaxTries = 1
    MaxMade = 5
    SafeInteger = 3
    MostInteger = 7
    Numerics <- SomeNumerics
    Instants <- SomeInstants
    Structs <- SomeStructs
    MaxElements = 2
    MaxColumns = 2
    MaxVersions = 2
    Limit = 1
INVARIANTS
    CompletionTrue
    RegretsAsked
    FramesTrue
    EditorTrue
    SchemaTrue
    ShownTrue
SYMMETRY Symmetry
CHECK_DEADLOCK FALSE
