SPECIFICATION Spec
CONSTANTS
    Threads = {t1, t2}
    MaxGens = 3
    MaxTicks = 2
    MaxFaults = 1
    Null = Null

    
PROPERTIES
    
    RetryIsEnough
    
