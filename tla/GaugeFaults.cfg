SPECIFICATION Spec
CONSTANTS
    r1 = r1
    r2 = r2
    Resources <- MCResources
    Bundles <- MCBundles
    OrgLimit <- MCOrgLimit
    UserLimit <- MCUserLimit
    NoLimit = NoLimit
    Ids = {a1, a2, a3}
    NoId = NoId
    Users = {u1}
    NoUser = NoUser
    IdemKeys = {}
    NoKey = NoKey
    Settlers = {s1}
    Costs = {c1}
    NoCost = NoCost
    Modes = {"enforce", "killed"}
    TierMayFail = FALSE
    AtomicSettle = FALSE
    Faults = TRUE
CHECK_DEADLOCK FALSE
SYMMETRY MCSymmetry
INVARIANTS
    GaugesExact
    NeverUndercount
    AdmissionBounded
PROPERTIES
    LifecycleNeverRewinds
    ImplementsHoldings
