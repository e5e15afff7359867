\* A provider that may present either of two identities, told apart by key.
SPECIFICATION Spec
CONSTANTS
    Threads = {t1, t2, t3}
    MaxCalls = 1
    ResourceSets = {none, rs}
    DefaultResourceSet = none
    RetryKeys = {rk}
    DefaultRetryKey = rk
    Identities = {alice, bob}
    AuthCacheKeys = {alice, bob}
    AuthCacheKeyOf <- KeyPerIdentity
    IdentityKey = Nothing
    Interruptible = {}
    Lifetimes = {1}
    NoExpiry = NoExpiry
    Skew = 0
    MaxNow = 1
    Nothing = Nothing
INVARIANTS
    SessionServesItsCall
PROPERTIES
    ImplementsBroker
SYMMETRY AlikeThreadsAndIdentities
