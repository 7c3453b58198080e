SPECIFICATION Spec
CONSTANTS
    Requests = {r1}
    NoRequest = NoRequest
    AcceptFaults = FALSE
INVARIANTS
    CallbackReported
