SPECIFICATION Spec
CONSTANTS
    Keys = {k1}
    Lod0 = {k1}
    Demands <- MeshDemands
    Priorities = {0, 2}
    FocusPriority = 1
    SupportPriority = 2
    BackgroundWorkers = {back}
    InteractionWorkers = {near}
    QueueCapacity = 1
    GpuCapacity = 1
    DeferredCapacity = 1
    ResultCapacity = 1
    MaxEvents = 3
INVARIANTS VisualServed CollisionNotLost
PROPERTY MeshJobsAnswered
CHECK_DEADLOCK FALSE
