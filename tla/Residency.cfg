CONSTANTS
    Keys = {1, 2, 3, 4}
    Lod <- MCLod
    Cover <- MCCover
    Plans <- MCPlans
    StartPlans <- MCStart
    Focus = {1}
    EditCells = {1}
    Faulty = {1, 3, 4}
    MaxEvents = 2
    MaxGeneration = 3
SPECIFICATION Spec
CHECK_DEADLOCK FALSE
INVARIANTS NoOverlap QuietIsSettled
PROPERTIES EditsAreAtomic SwapsKeepCoverage RefinementsAreSewn
