SPECIFICATION HealthSpec
CONSTANTS
    t1 = t1
    u1 = u1
    u2 = u2
    None = None
    Tools = {t1}
    Upstreams = {u1, u2}
    Late = 4
INVARIANTS
    HealthTypeOK
PROPERTIES
    AliveToolRecovers
    DeadToolLapses
