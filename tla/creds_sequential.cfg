SPECIFICATION Spec
CONSTANTS
    Profiles = {p1, p2}
    Keys = {k1}
    RefreshTokens = {t1, t2, t3}
    IamEnvs = {prod, dev}
    Agents = {a1}
    ShellKey = kenv
    None = None
    Torn = Torn
    t1 = t1
    t2 = t2
    Invocations = {c1, c2}
    Commands = {"api", "complete", "create-agent", "configure", "set-secret", "set-env", "login", "logout", "use-agent"}
    ShellSettings <- NoShell
    LoginClients = {"baked"}
    FirstToken <- MCFirstToken
    Faults = {"crash", "reply"}
    Concurrency = 1
    MaxRefreshes = 1
SYMMETRY Symmetry
INVARIANTS
    StoredTokenUsable
PROPERTIES
    Atomic
