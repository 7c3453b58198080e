SPECIFICATION Spec
CONSTANTS
    Requests = {r1, r2}
    NoRequest = NoRequest
    AcceptFaults = TRUE
INVARIANTS
    TypeOK
    SuccessNeedsNonce
    ReturnsDrained
PROPERTIES
    ServeReturns
