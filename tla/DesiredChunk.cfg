SPECIFICATION Spec
CONSTANTS
  Keys = {a}
  Demands = {{"visual"}, {"collision"}, {"visual", "collision"}}
  ActiveCapacity = 1
  RecordCapacity = 1
  DormantCapacity = 1
  InitialWorld = 0
  MaxWorld = 2
  EventGenerations = 2
  MaxGeneration = 4
  Evictable = {"mesh", "render", "collision"}
  NoShape = NoShape
CHECK_DEADLOCK FALSE
INVARIANTS EditsReachChunks
PROPERTIES ShapesAreAnswered CollisionDebtPaid VisualDebtPaid
