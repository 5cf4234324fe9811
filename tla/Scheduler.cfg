CONSTANTS
    k1 = k1
    k2 = k2
    Keys = {k1, k2}
    Revisions = {0, 1}
    Priorities = {0, 1}
    NoEdit = NoEdit
    RecordCapacity = 1
    JobCapacity = 2
    CompletionCapacity = 1
    MaxGeneration = 3
    MaxSequence = 3
SPECIFICATION Spec
CHECK_DEADLOCK FALSE
INVARIANTS TypeOK NoLostWork ReadyMeansMeshed QueueFollowsPriority EditDeltaOfRevision
PROPERTY ImplementsVersions
