\* A token provider with a dynamic source: identities told apart by digest.
SPECIFICATION Spec
CONSTANTS
    Calls = {c1, c2, c3}
    ResourceSets = {none, rs}
    DefaultResourceSet = none
    RetryKeys = {rk, other}
    DefaultRetryKey = rk
    Identities = {alice, bob}
    AuthCacheKeys = {alice, bob}
    AuthCacheKeyOf <- DigestKey
    IdentityKey = Undefined
    Lifetimes = {1}
    NoExpiry = NoExpiry
    Skew = 0
    MaxNow = 1
    Undefined = Undefined
INVARIANTS
    TypeOK
    SessionServesItsIdentity
PROPERTIES
    NoSupersededSession
    ImplementsBroker
SYMMETRY AlikeCallsAndIdentities
