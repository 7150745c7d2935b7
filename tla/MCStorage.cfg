SPECIFICATION StorageSpec
CONSTANTS
    p1 = p1
    v1 = v1
    v2 = v2
    r1 = r1
    r2 = r2
    PoolIds = {p1}
    VolumeIds = {v1, v2}
    Requests = {r1, r2}
    Totals = {1}
    Sizes = {1}
    MaxRegistered = 2
    MaxFaults = 1
SYMMETRY Symmetric
INVARIANTS
    StorageTypeOK
    NoUnpaidVolume
    FitsUnlessRaced
