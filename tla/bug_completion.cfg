SPECIFICATION Spec
CONSTANTS
    Profiles = {p1, p2}
    Keys = {k1}
    RefreshTokens = {t1, t2, t3}
    IamEnvs = {prod}
    Agents = {a1}
    ShellKey = kenv
    None = None
    Torn = Torn
    t1 = t1
    t2 = t2
    Invocations = {c1}
    Commands = {"complete"}
    ShellSettings <- NoShell
    LoginClients = {"baked"}
    FirstToken <- MCFirstToken
    Faults = {}
    Concurrency = 1
    MaxRefreshes = 1
INVARIANTS
    StoredTokenLiveAlways
