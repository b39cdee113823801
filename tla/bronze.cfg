SPECIFICATION BronzeSpec
CONSTANTS
    Projects = {p1, p2}
    Deployments = {{"cdc"}, {"snapshot"}}
    MaxUpdates = 2
    MaxSeeds = 1
    MaxEvents = 1
    NoValue = NoValue
SYMMETRY ProjectSymmetry
INVARIANTS
    SeedFollowsConfig
    
    
CHECK_DEADLOCK FALSE
