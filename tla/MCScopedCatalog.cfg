SPECIFICATION Spec
CONSTANTS
    mail = mail
    chat = chat
    own = own
    r1 = r1
    r2 = r2
    t1 = t1
    t2 = t2
    n1 = n1
    n2 = n2
    None = None
    Tenants = {t1, t2}
    Nodes = {n1, n2}
    Apps = {mail, chat, own}
    Lists = {{mail, own}}
    LocalApps <- Adds
    Requests = {r1, r2}
    Global <- GlobalCatalog
CONSTRAINT OneFile
SYMMETRY Symmetric
INVARIANTS
    TenantPolicyStands
    NodePolicyStands
