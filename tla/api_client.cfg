SPECIFICATION Spec
CONSTANTS
    Clients = {"greennode", "agentbase"}
    MaxCalls = 2
    MaxTokens = 10
INVARIANTS
    TypeOK
    OutcomeIsTrue
    AppliesOncePerAttempt
PROPERTIES
    CallEnds
