SPECIFICATION FairSpec
CONSTANTS
    t1 = t1
    t2 = t2
    i1 = i1
    Workers = {1, 2, 3, 4}
    Tasks <- MCTasks
    Instances = {i1}
    Strategies <- MCStrategies
    FirstStrategy = "one"
    Readings = {0, 9}
    FailThreshold = 2
    MinAvailable = 1
    Policies = {"restart", "reload"}
    MaxRetries = 1
    MaxEvents = 3
    MaxIds = 2
INVARIANTS
    TypeOK
    NoCaptureWhileFused
    CapturingIsManaged
    
    
PROPERTIES
    TripConfirmed
    
