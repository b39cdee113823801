SPECIFICATION FairSpec
CONSTANTS
    Threads = {t1}
    MaxRuns = 2
    MaxFaults = 1
    Null = Null
PROPERTIES
    EveryRunSettles
CHECK_DEADLOCK FALSE
