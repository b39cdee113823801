SPECIFICATION Spec
CONSTANTS
    Runners = {w1, w2}
    MaxRuns = 2
    MaxTime = 3
    Null = Null
SYMMETRY RunnerSymmetry
INVARIANT LostOnlyDuringRuns
PROPERTY RetryKeepsWindow
CHECK_DEADLOCK FALSE
