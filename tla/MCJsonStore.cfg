SPECIFICATION Spec
CONSTANTS
    Absent = Absent
    Torn = Torn
    MaxSaves = 3
    MaxRots = 1
INVARIANTS
    PrimaryNeverTorn
    AckedSurvives
    VisibleIsStored
    BackupCoversOneRot
PROPERTIES
    ImplementsCell
