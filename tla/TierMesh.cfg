SPECIFICATION FairSpec
CONSTANTS
    Replicas = {r1}
    Requests = {q1, q2}
    Tiers = {free, pro}
    DefaultTier = dflt
    None = None
    TTLs <- MCTTLs
    LkgMaxAges <- MCLkgMaxAges
    FetchTimeout = 1
    SustainedFailureThreshold = 2
    MaxChanges = 1
    MaxRestarts = 1
INVARIANTS NeverPoisoned StalenessBounded NeverDowngraded
PROPERTIES Converges SustainedIsLoud
