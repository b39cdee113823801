SPECIFICATION Spec
CONSTANTS
    Files = {f1, f2}
    MaxFaults = 3
    Null = Null
INVARIANTS
    
    FailedMeansEmpty
    RequestedOnce
CHECK_DEADLOCK FALSE
