SPECIFICATION Spec
CONSTANTS
    Values <- MCValues
    Devices = {"cpu", "cuda"}
    MaxNesting = 5
INVARIANTS
    RoundTrip
    WireIsPlain
