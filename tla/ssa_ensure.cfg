SPECIFICATION Spec
CONSTANTS
    Hubs = {h1, h2}
    Processes = {p1, p2}
    Quota = 2
    MaxKeys = 3
    MaxRotations = 1
    MaxFaults = 2
    LiveExpiry = FALSE
    Null = Null
SYMMETRY Symmetry
INVARIANTS
    OneRobotUnlessLost
    RobotsRecorded
    MintableAtRest
PROPERTIES
    KeepsOneRobot
CHECK_DEADLOCK FALSE
