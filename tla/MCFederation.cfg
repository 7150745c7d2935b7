SPECIFICATION FairSpec
CONSTANTS
    h1 = h1
    h2 = h2
    Hosts = {h1, h2}
    Bootstrap = {h1}
    Names <- Named
    MinTrust = "trusted"
    Ttl = 1
    MaxPeers = 2
    MaxClock = 1
    MaxFaults = 1
INVARIANTS
    TrustHasSource
PROPERTIES
    LapsedTrustEnds
