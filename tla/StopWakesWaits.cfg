CONSTANTS
    Keys = {k1}
    Urgencies = {0, 2}
    None = None
    PriorityCapacity = 2
    NormalCapacity = 1
    RenderBudget = 1
    CollisionBudget = 1
    MaxDrain = 2
    MaxGeneration = 1
SPECIFICATION Spec
CHECK_DEADLOCK FALSE
PROPERTIES
    StoppingWakesAllWaits
