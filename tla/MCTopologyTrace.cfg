SPECIFICATION TraceSpec
CONSTANTS
    Invalid = Invalid
    RoleLists <- MCRoleLists
    EdgeLists <- MCEdgeLists
    Files <- MCFiles
INVARIANTS
    TypeOK
    OrderIsSound
    CycleVerdict
    DefectVerdict
    OrderIsLeast
    TraceVerdict
PROPERTIES
    LoadEnds
