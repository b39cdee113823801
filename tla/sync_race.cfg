SPECIFICATION Spec
CONSTANTS
    Connections = {c1}
    Workers = {w1, w2}
    MaxRuns = 2
    MaxTime = 0
    MaxCrashes = 0
    CdcInterval = 1
    NotebookDownload = FALSE
    Null = Null
SYMMETRY ThreadSymmetry
INVARIANTS
    OverlapOnlyInGuardWindow
    CollideOnlyInGuardWindow
    
