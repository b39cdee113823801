SPECIFICATION Spec
CONSTANTS
    Threads = {t1, t2}
    MaxRuns = 2
    MaxFaults = 1
    Null = Null
SYMMETRY ThreadSymmetry
INVARIANTS
    CompleteMeansIngested
    CdcAfterBaseline
PROPERTIES
    EndedIsLeftAlone
CHECK_DEADLOCK FALSE
