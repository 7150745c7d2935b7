SPECIFICATION SurfaceSpec
CONSTANTS
    s1 = s1
    o1 = o1
    r1 = r1
    r2 = r2
    root = root
    sub = sub
    k1 = k1
    k2 = k2
    svc = svc
    None = None
    Subjects = {s1}
    Operators = {o1}
    MaxChanges = 2
    Requests = {r1, r2}
    DnsNames = {root, sub}
    OwnNames = {root, sub}
    Keys = {k1, k2}
    Services = {svc}
INVARIANTS
    GatedMutation
    RotationServes
    MaintenanceLogged
    OneRecordUnlessRaced
CONSTRAINT
    Apart
SYMMETRY
    Symmetry
