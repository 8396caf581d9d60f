\* Every DAG of up to six nodes, and up to four with properties and constraints.
SPECIFICATION Spec
CONSTANTS
    Names <- MCNames
    Values <- MCValues
    PropNames <- MCPropNames
    Bounds <- MCBounds
INVARIANTS
    TypeOK
    Acyclic
    TallyUnique
    SingleOwner
    LegsRegistered
PROPERTIES
    NodesAreKept
    LaterOutranks
CHECK_DEADLOCK FALSE
