\* One delay unit is 100 ms. The default cap, 2000 ms in the SDKs, is lowered to
\* 300 ms so that three attempts reach it; the other defaults are the SDKs'.
SPECIFICATION FairSpec
CONSTANTS
    Operations <- PythonOperations
    Overrides <- Settings
    Statuses = {404, 429, 503}
    None = None
    Invalid = Invalid
    DefaultMaxAttempts = 3
    DefaultBaseDelay = 2
    DefaultMaxDelay = 3
INVARIANTS
    PythonFailsFast
