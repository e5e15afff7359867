\* A provider with a stable identity and a single-flight key.
SPECIFICATION FairSpec
CONSTANTS
    Threads = {t1, t2}
    MaxCalls = 2
    ResourceSets = {none}
    DefaultResourceSet = none
    RetryKeys = {rk}
    DefaultRetryKey = rk
    Identities = {workload}
    AuthCacheKeys = {Nothing}
    AuthCacheKeyOf <- NoKey
    IdentityKey = stable
    Interruptible = {t1}
    Lifetimes = {2}
    NoExpiry = NoExpiry
    Skew = 1
    MaxNow = 1
    Nothing = Nothing
INVARIANTS
    TypeOK
    OneFlightPerKey
    NoOrphanedWaiter
    EntriesHaveLeaders
PROPERTIES
    CachedSessionKept
    EveryCallReturns
