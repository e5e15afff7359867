\* One delay unit is 100 ms; the defaults are the SDK's.
SPECIFICATION FairSpec
CONSTANTS
    Requests = {r1, r2}
    ClientOverride <- ClientSettings
    CallOverrides <- CallSettings
    Statuses = {302, 401, 409, 429, 503}
    None = None
    Invalid = Invalid
    DefaultMaxAttempts = 3
    DefaultBaseDelay = 2
    DefaultMaxDelay = 20
INVARIANTS
    TransportTypeOK
    EffortIsBounded
    SurrendersLast
    SharersRetryAlike
    CallSettingsWin
PROPERTIES
    RequestsEnd
