SPECIFICATION Spec
CONSTANTS
    NodeGroups = {g1, g2}
    PageSize = 1
    MaxAttempts = 3
    Waits = {"deleted"}
INVARIANTS
    PreviewIsComplete
