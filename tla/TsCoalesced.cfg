\* A provider with a stable identity and a single-flight key.
SPECIFICATION FairSpec
CONSTANTS
    Calls = {c1, c2, c3}
    ResourceSets = {none}
    DefaultResourceSet = none
    RetryKeys = {rk}
    DefaultRetryKey = rk
    Identities = {workload}
    AuthCacheKeys = {Undefined}
    AuthCacheKeyOf <- NoKey
    IdentityKey = stable
    Lifetimes = {2}
    NoExpiry = NoExpiry
    Skew = 1
    MaxNow = 1
    Undefined = Undefined
INVARIANTS
    EntriesAreCleanedUp
    SharedWorkRunsOnce
PROPERTIES
    CachedSessionKept
    EveryCallSettles
