SPECIFICATION FairSpec
CONSTANTS
    Connections = {c1}
    Workers = {w1}
    MaxRuns = 2
    MaxTime = 1
    MaxCrashes = 1
    CdcInterval = 1
    NotebookDownload = TRUE
    Null = Null
INVARIANTS
    TypeOK
    
    
PROPERTIES
    EveryRunEnds
