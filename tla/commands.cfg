SPECIFICATION Spec
CONSTANTS
    Commands <- AllCommands
    Unpredicted <- UnpredictedCommands
    MaxChanges = 2
    MaxResends = 1
INVARIANTS
    TypeOK
    SentWithConsent
    DryRunPredicts
    DropsAreWarned
PROPERTIES
    UnnamedKept
