SPECIFICATION Spec
CONSTANTS
    Managers = {m1, m2}
    Requests <- MCRequests
    Size <- MCSize
    MaxBytes = 1
    MaxLocal = 1
    Configs <- MCConfigs
    MaxAcquires = 2
    EmptyKey = EmptyKey
    None = None
INVARIANT ComputedStateIsDelivered
