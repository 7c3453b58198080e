SPECIFICATION Spec
CONSTANTS
    NodeGroups = {g1}
    PageSize = 1
    MaxAttempts = 3
    Waits = {"deleted"}
INVARIANTS
    FailureEndsWait
