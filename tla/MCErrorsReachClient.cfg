SPECIFICATION Spec
CONSTANTS
    Clients = {c1, c2}
    Conns = {1, 2}
    k = k
    long = long
    Keys = {k, long}
    EmptyKey = EmptyKey
    None = None
    NoBytes = NoBytes
    Cut = Cut
    small = small
    medium = medium
    large = large
    huge = huge
    edge = edge
    wide = wide
    Payloads <- MCPayloads
    Size <- MCSize
    MaxBytes = 2
    Requests <- MCRequests
    ServerLimit = 3
    ClientLimit = 1
    HeaderLimit = 4
    KeyBytes <- MCKeyBytes
    Metadata <- MCMetadata
    RequestHeader <- MCRequestHeader
    FoundHeader = 3
    Stops = FALSE
CHECK_DEADLOCK FALSE
INVARIANT ErrorsReachClient
