SPECIFICATION Spec
CONSTANTS
    Users = {u1, u2}
    PageSize = 1
    MaxPages = 2
    MaxVersions = 3
INVARIANTS
    ReadsTheLatestAlways
