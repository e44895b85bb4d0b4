SPECIFICATION SpecH
CONSTANTS
    Keys = {a, b, c}
    EmptyKey = EmptyKey
    empty = empty
    half = half
    full = full
    large = large
    Payloads <- MCPayloads
    Size <- MCSize
    MaxBytes = 2
    None = None
    Threads = {t1, t2}
    ExpectedVersions = {1}
    MaxPuts = 3
SYMMETRY MCSymmetry
INVARIANTS
    TypeOK
    BytesBounded
    NewestSurvives
PROPERTIES
    VersionsAdvance
    ImplementsStateStore
