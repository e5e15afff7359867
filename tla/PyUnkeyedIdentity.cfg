\* A built-in provider with a dynamic token source: no cache keys.
SPECIFICATION FairSpec
CONSTANTS
    Threads = {t1, t2}
    MaxCalls = 1
    ResourceSets = {none, rs}
    DefaultResourceSet = none
    RetryKeys = {rk}
    DefaultRetryKey = rk
    Identities = {alice, bob}
    AuthCacheKeys = {Nothing}
    AuthCacheKeyOf <- NoKey
    IdentityKey = Nothing
    Interruptible = {}
    Lifetimes = {1}
    NoExpiry = NoExpiry
    Skew = 0
    MaxNow = 1
    Nothing = Nothing
INVARIANT
    SessionServesItsIdentity
