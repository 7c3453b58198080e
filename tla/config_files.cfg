SPECIFICATION ConfigSpec
CONSTANTS
    Profiles = {p, q}
    Invocations = {i, j, k}
    Concurrency = 1
    Commands = {"configure", "login", "set key", "set region", "set output", "set project"}
    Legacy = TRUE
    ShellVars = {"region", "project"}
    Crashes = TRUE
    None = None
    Missing = Missing
SYMMETRY Symmetric
INVARIANT ConfigTypeOK
PROPERTIES UnrelatedPreserved CommandsDeliver
