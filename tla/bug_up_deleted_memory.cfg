SPECIFICATION Spec
CONSTANTS
    Invocations = {i1, i2, i3}
    Commands = {"up", "destroy"}
    Schedules <- InSequence
    Ids = {a, b, c}
    None = None
    Faults = {}
    Services = {"lists deleted"}
PROPERTIES
    ReportsAreTrue
