SPECIFICATION Spec
CONSTANTS
    Pods = {p1}
    Keys = {k1}
    Absent = Absent
    Down = Down
    OrgLimit = 1
    LatchTTL = 2
    RateWindow = 1
    MaxLevel = 1
    MaxTime = 3
CONSTRAINT MCOnScript
INVARIANTS
    NeverOnStaleVerdict
