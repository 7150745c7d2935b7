SPECIFICATION Spec
CONSTANTS
    Procs = {p1, p2}
    Absent = Absent
    Torn = Torn
    MaxSaves = 3
    MaxClock = 1
INVARIANTS
    RestartKeepsConfirmed
CHECK_DEADLOCK FALSE
