SPECIFICATION Spec
CONSTANTS
    Pods = {p1, p2}
    Keys = {k1}
    Absent = Absent
    Down = Down
    OrgLimit = 2
    LatchTTL = 2
    RateWindow = 1
    MaxLevel = 3
    MaxTime = 4
SYMMETRY MCSymmetry
CONSTRAINT MCOnScript
INVARIANTS
    UsageSurvives
    ReapedIsCarried
    ChargedOnce
