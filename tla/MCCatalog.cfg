SPECIFICATION Spec
CONSTANTS
    t1 = t1
    t2 = t2
    ada = ada
    bob = bob
    k1 = k1
    k2 = k2
    Tools = {t1}
    Actors = {ada, bob}
    Keys = {k1, k2}
    NoKey = NoKey
    Bodies = {b1, b2}
    None = None
    SeedTools = {t1}
    SeedVersion = 1
    Requests = {r1, r2}
    Offered <- OneTool
    MaxVersion = 2
    MaxLedger = 3
    MaxUnsettled = 1
INVARIANTS
    KeyAppliedOnce
    ConfirmedKeySurvives
    ConfirmedLedgerKept
    LedgerExplainsApproval
    ReviewConsistent
    NoSwapBehindApproval
SYMMETRY Symmetry
