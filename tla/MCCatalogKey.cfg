SPECIFICATION Spec
CONSTANTS
    t1 = t1
    t2 = t2
    ada = ada
    bob = bob
    k1 = k1
    k2 = k2
    Tools = {t1, t2}
    Actors = {ada}
    Keys = {k1, k2}
    NoKey = NoKey
    Bodies = {b1}
    None = None
    SeedTools = {}
    SeedVersion = 1
    Requests = {r1, r2}
    Offered <- TwoTools
    MaxVersion = 1
    MaxLedger = 2
    MaxUnsettled = 2
INVARIANTS
    OneDecisionPerKey
