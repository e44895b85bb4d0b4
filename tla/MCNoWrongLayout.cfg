SPECIFICATION BenchSpec
CONSTANTS
    Processes = {"p1", "p2"}
    InstanceCount = 2
    RoleSum <- MCRoleSum
    Arguments <- MCArguments
    Launches <- MCLaunches
    Managers <- MCManagers
    Requests <- Invocations
    Size <- MCSize
    MaxBytes = 4
    MaxLocal = 2
    Configs <- MCConfigs
    MaxAcquires = 20
    MaxRestarts = 1
    EmptyKey = EmptyKey
    None = None
INVARIANT NoWrongLayout
