SPECIFICATION HealFairSpec
CONSTANTS
    r1 = r1
    loop1 = loop1
    api1 = api1
    Resources <- MCResources
    Bundles <- MCBundles
    OrgLimit <- MCOrgLimit
    UserLimit <- MCUserLimit
    NoLimit = NoLimit
    Ids = {a1}
    NoId = NoId
    Users = {u1}
    NoUser = NoUser
    IdemKeys = {}
    NoKey = NoKey
    Settlers = {s1}
    Costs = {c1}
    NoCost = NoCost
    Modes = {"enforce"}
    TierMayFail = FALSE
    AtomicSettle = FALSE
    Faults = TRUE
    Healers = {loop1, api1}
    KindsOf <- MCKindsOf
    NoProvider = NoProvider
    Providers <- MCProviders
    ProviderFails = TRUE
    Foreign = TRUE
INVARIANTS
    UnverifiedStaysExact
PROPERTIES
    Converges
