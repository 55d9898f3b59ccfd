SPECIFICATION FairSpec
CONSTANTS
    Callers = {c1, c2}
    Users = {u1}
    None = None
    Configs <- MCConfigs
    Subjects <- MCSubjects
    Costs = {1, 2}
    Limit = 1
    Burst = 1
    UserLimit = 2
    Window = 1
    MaxPeriod = 1
INVARIANTS OvershootBounded NeverUndercounts PartitionsAgree OverLimitObserved
PROPERTY NeverLockedOut
