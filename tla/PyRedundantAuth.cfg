\* Does a call authenticate although the cache could serve it?
SPECIFICATION FairSpec
CONSTANTS
    Threads = {t1, t2}
    MaxCalls = 1
    ResourceSets = {none, rs}
    DefaultResourceSet = none
    RetryKeys = {rk}
    DefaultRetryKey = rk
    Identities = {alice, bob}
    AuthCacheKeys = {alice, bob}
    AuthCacheKeyOf <- KeyPerIdentity
    IdentityKey = Nothing
    Interruptible = {}
    Lifetimes = {1}
    NoExpiry = NoExpiry
    Skew = 0
    MaxNow = 1
    Nothing = Nothing
PROPERTY
    NoRedundantAuthentication
