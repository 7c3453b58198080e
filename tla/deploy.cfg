SPECIFICATION Spec
CONSTANTS
    Invocations = {i1, i2, i3}
    Commands = {"up", "up-no-wait", "up-stateless", "destroy", "destroy-purge"}
    Schedules <- AllSchedules
    Ids = {a, b, c}
    None = None
    Faults = {"refused", "lost", "killed"}
    Services = {}
INVARIANTS
    TypeOK
    OneOfEach
    DeletedIsGone
PROPERTIES
    ReportsAreTrue
SYMMETRY Symmetric
