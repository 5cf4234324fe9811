SPECIFICATION SafetySpec
CONSTANTS
  Keys = {a, b}
  Demands = {{"visual"}, {"visual", "collision"}}
  ActiveCapacity = 2
  RecordCapacity = 2
  DormantCapacity = 0
  InitialWorld = 1
  MaxWorld = 2
  EventGenerations = 4
  MaxGeneration = 4
  Evictable = {"collision"}
  NoShape = NoShape
SYMMETRY KeySymmetry
CHECK_DEADLOCK FALSE
INVARIANTS PreflightSuffices
