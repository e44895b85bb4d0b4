SPECIFICATION SpecK
CONSTANTS
    Keys = {a, b}
    EmptyKey = EmptyKey
    p1 = p1
    p2 = p2
    Payloads <- MCPayloads
    Size <- MCSize
    MaxBytes = 1
    None = None
    Threads = {t1, t2}
    ExpectedVersions = {1}
    MaxPuts = 4
INVARIANT CasReplacesWhatWasRead
