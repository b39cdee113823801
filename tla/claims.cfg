SPECIFICATION Spec
CONSTANTS
    Users = {u1, u2}
    Connections = {k1}
    c1 = c1
    Catalogs = {c1, c2}
    Threads = {t1, t2}
    MaxClaims = 3
    MaxUpheavals = 1
    Null = Null
    TargetOf <- SameTarget
SYMMETRY ThreadUserSymmetry
INVARIANTS
    ProvisionAuthorised
    OneProvisionerUnlessReset
    MarkedMeansRunning
    
PROPERTIES
    RetryKeepsClaim
CHECK_DEADLOCK FALSE
