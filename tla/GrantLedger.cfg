SPECIFICATION Spec
CONSTANTS
    created = created
    assigned = assigned
    u1 = u1
    o1 = o1
    o2 = o2
    free = free
    Events = {created, assigned}
    NoEvent = NoEvent
    Users = {u1}
    NoUser = NoUser
    Orgs = {o1, o2}
    NoOrg = NoOrg
    Tiers = {free}
    NoTier = NoTier
    UserOf <- MCUserOf
    OrgOf <- MCOrgOf
    TiersOf <- MCTiersOf
    Granting = {free}
    Policies = {"per_user_per_tier", "per_org_global"}
    Workers = {w1, w2}
    Backend = "redis"
    MaxAttempts = 2
    MaxRuns = 2
    Faults = TRUE
SYMMETRY MCSymmetry
INVARIANTS
    CreditedOnce
    DecidedMeansCredited
    LeaseExclusive
PROPERTIES
    TerminalBlocks
