SPECIFICATION Spec
CONSTANTS
    Invocations = {i1, i2, i3}
    Commands = {"up"}
    Schedules <- AtOnce
    Ids = {a, b, c}
    None = None
    Faults = {}
    Services = {}
INVARIANTS
    OneOfEachAlways
