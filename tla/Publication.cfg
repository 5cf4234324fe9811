\* One generation of one key: the safety invariants are proved for every
\* number of both, and what blocks, wakes and starves depends on neither.
CONSTANTS
    Keys = {k1}
    Urgencies = {0, 2}
    None = None
    PriorityCapacity = 2
    NormalCapacity = 1
    RenderBudget = 1
    CollisionBudget = 1
    MaxDrain = 2
    MaxGeneration = 1
SPECIFICATION Spec
CHECK_DEADLOCK FALSE
INVARIANTS
    TypeOK
    PayloadAfterExpect
    OneCollisionQueued
PROPERTIES
    PushReturns
    ExpectApplied
