SPECIFICATION Spec
CONSTANTS
    NodeGroups = {g1, g2}
    PageSize = 2
    MaxAttempts = 4
    Waits = {"active", "deleted", "runtime", "tool"}
INVARIANTS
    TypeOK
    ExitZeroIsTrue
PROPERTIES
    WaitEnds
