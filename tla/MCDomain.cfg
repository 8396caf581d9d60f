\* Up to four contexts in a row, loads in between, every order within each.
SPECIFICATION DomainSpec
CONSTANTS
    Names <- FileNames
    Values <- FileValues
    PropNames <- FileProps
    Dags <- Versions
    Loads <- AllFiles
    Requests <- FewRequests
    MaxContexts = 4
    MaxBuilding = 1
INVARIANTS
    TypeOK
    CacheCoherent
    TallyCoherent
    StaleOnlyMisses
    RulesDecide
PROPERTIES
    ImplementsAbstract
    SearchGrows
CHECK_DEADLOCK FALSE
