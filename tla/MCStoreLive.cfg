SPECIFICATION FairSpec
CONSTANTS
    Keys = {a, b}
    EmptyKey = EmptyKey
    half = half
    full = full
    Payloads <- MCPayloads
    Size <- MCSize
    MaxBytes = 2
    None = None
    Threads = {t1, t2}
    ExpectedVersions = {1}
    MaxPuts = 3
PROPERTIES
    LockIsReleased
