SPECIFICATION SafetySpec
CONSTANTS
  Keys = {a, b, c}
  Demands = {{"visual"}}
  ActiveCapacity = 2
  RecordCapacity = 2
  DormantCapacity = 1
  InitialWorld = 0
  MaxWorld = 0
  EventGenerations = 4
  MaxGeneration = 4
  Evictable = {}
  NoShape = NoShape
SYMMETRY KeySymmetry
CHECK_DEADLOCK FALSE
INVARIANTS TypeOK RecordsAgree
