SPECIFICATION Spec
CONSTANTS
    Workloads = {w1, w2}
    Foreign = {f1}
    MaxUnits = 3
    MaxFaults = 1
INVARIANTS
    StoppedIsDark
