SPECIFICATION Spec
CONSTANTS
    Tools = {t1}
    Kinds = {"website", "email"}
    Subjects = {t1}
    Hosts = {h1}
    LocalHosts = {}
    Domains = {d1}
    Reports <- Described
    None = None
    MaxRequests = 5
INVARIANTS
    RefusedHostNotRouted
