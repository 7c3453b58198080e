SPECIFICATION Spec
CONSTANTS
    Profiles = {p1, p2}
    Keys = {k1}
    RefreshTokens = {t1, t2, t3}
    IamEnvs = {prod}
    Agents = {a1}
    ShellKey = kenv
    None = None
    Torn = Torn
    t1 = t1
    t2 = t2
    Invocations = {c1, c2}
    Commands = {"api", "create-agent", "configure", "set-secret", "set-env", "login", "logout", "use-agent"}
    ShellSettings <- NoShell
    LoginClients = {"baked"}
    FirstToken <- MCFirstToken
    Faults = {"crash", "save", "reply"}
    Concurrency = 2
    MaxRefreshes = 1
SYMMETRY Symmetry
INVARIANTS
    TypeOK
    LoginKeysTogether
    TokensStayInTheirProfile
    NoTempFileLeft
PROPERTIES
    KeysHaveTheirWriters
