SPECIFICATION Spec
CONSTANTS
    Tools = {t1}
    Kinds = {"website", "email"}
    Subjects = {t1}
    Hosts = {h1}
    LocalHosts = {}
    Domains = {d1}
    Reports <- Careless
    None = None
    MaxRequests = 5
INVARIANT
    GateOutlivesRestart
