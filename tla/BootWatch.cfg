SPECIFICATION FairSpec
CONSTANTS
    Subjects <- MCSubjects
    Operators = {o1}
    Starter = Starter
    OldSecret = OldSecret
    NewSecret = NewSecret
    MaxAuthFaults = 1
    Configs <- MCConfigs
    Conditions = {"unreachable", "badAuth", "cluster", "proxied", "infoHidden", "configHidden", "evicting", "unpersisted", "persistFails", "noScript", "oldVersion", "evicted", "lowMemory", "keyspaceConflict", "ddbDown", "ddbUnsafe", "pitrOff"}
    Drifting = {"unreachable", "cluster"}
    MaxBroken = 1
    MaxChanges = 2
    MaxTries = 1
    MaxBoots = 2
CHECK_DEADLOCK FALSE
INVARIANTS
    GatesHold
    HealthyIsBacked
    OperatorKnows
    GapIsLoud
PROPERTIES
    HealthTracksWorld
    CloseEndsAll
    RotationEnds
