\* Calls from arguments to result, with another thread at work on the cache.
SPECIFICATION Spec
CONSTANTS
    ResourceSets = {rs1, rs2}
    ServerRefs <- Servers
    BlankHosts <- EmptyHosts
    Lifetimes <- SomeLifetimes
    Countless <- SomeCountless
    Skew = 1
    MaxLatency = 1
    LastInstant = 4
    MaxCalls = 2
    MaxSessions = 2
    MaxNow = 3
    Nothing = Nothing
SYMMETRY
    AlikeResourceSets
INVARIANTS
    TypeOK
    CachedSessionAlive
    ScopesAgree
    OnlyValidCallsReachOut
    ErrorsTellTheStage
