SPECIFICATION Spec
CONSTANTS
    Clusters = {a, b}
    Names = {theirs, n}
    ForeignName = theirs
    Foreign = Foreign
    Invocations = {i, j}
    Concurrency = 2
    Crashes = TRUE
    MaxVersion = 1
    Corrupt = Corrupt
    Cut = Cut
    None = None
INVARIANTS TypeOK ContextsKept ContextsWhole
