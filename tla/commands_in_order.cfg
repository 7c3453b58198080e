SPECIFICATION Spec
CONSTANTS
    Commands <- AllCommands
    Unpredicted <- UnpredictedCommands
    MaxChanges = 1
    MaxResends = 1
INVARIANT
    InOrder
