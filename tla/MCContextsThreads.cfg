\* Two contexts built at the same time, under a common parent or apart.
SPECIFICATION Spec
CONSTANTS
    Names <- FileNames
    Values <- FileValues
    PropNames <- FileProps
    Dags <- OrderDags
    Requests <- TwoRequests
    MaxContexts = 3
    MaxBuilding = 2
INVARIANTS
    OrderIndependent
PROPERTIES
    BuiltIsKept
    Terminates
CHECK_DEADLOCK FALSE
