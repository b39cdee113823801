SPECIFICATION FairSpec
CONSTANTS
    Threads = {t1, t2}
    Ids = {1, 2, 3, 4, 5, 6, 7, 8, 9, 10}
    MaxFaults = 2
    Null = Null
INVARIANTS
    CompleteMeansUsable
    OneOfEachName
    MissingOnlyWhenReplaced
    EndIsShown

    
