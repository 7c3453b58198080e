SPECIFICATION ConfigSpec
CONSTANTS
    Profiles = {p}
    Invocations = {i, j}
    Concurrency = 2
    Commands = {"login", "set project"}
    Legacy = FALSE
    ShellVars = {}
    Crashes = FALSE
    None = None
    Missing = Missing
SYMMETRY Symmetric
PROPERTIES UnrelatedPreservedAlways
