SPECIFICATION FairSpec
CONSTANTS
    r1 = r1
    r2 = r2
    Resources <- MCResources
    Bundles <- MCPairBundle
    OrgLimit <- MCOrgLimit
    UserLimit <- MCUserLimit
    NoLimit = NoLimit
    Ids = {a1, a2}
    NoId = NoId
    Users = {u1}
    NoUser = NoUser
    IdemKeys = {k1}
    NoKey = NoKey
    Settlers = {s1}
    Costs = {c1, c2}
    NoCost = NoCost
    Modes = {"enforce", "shadow", "disabled"}
    TierMayFail = TRUE
    AtomicSettle = TRUE
    Faults = FALSE
CHECK_DEADLOCK FALSE
INVARIANTS
    SettleNeverSilent
PROPERTIES
    ReleaseReturns
    LifecycleNeverRewinds
