SPECIFICATION HealSpec
CONSTANTS
    r1 = r1
    loop1 = loop1
    api1 = api1
    Resources <- MCResources
    Bundles <- MCBundles
    OrgLimit <- MCOrgLimit
    UserLimit <- MCUserLimit
    NoLimit = NoLimit
    Ids = {a1, a2}
    NoId = NoId
    Users = {}
    NoUser = NoUser
    IdemKeys = {}
    NoKey = NoKey
    Settlers = {}
    Costs = {c1}
    NoCost = NoCost
    Modes = {"enforce"}
    TierMayFail = FALSE
    AtomicSettle = FALSE
    Faults = FALSE
    Healers = {loop1}
    KindsOf <- MCKindsOf
    NoProvider = NoProvider
    Providers <- MCNoProvider
    ProviderFails = FALSE
    Foreign = FALSE
SYMMETRY MCSymmetry
INVARIANTS
    NeverUndercount
