SPECIFICATION Spec
CONSTANTS
  Pages = {1, 2, 3}
  Stored = {1, 2}
  Priorities = {1, 2}
  FocusPriority = 2
  BackgroundWorkers = {b}
  InteractionWorkers = {i}
  RequestCapacity = 2
  InteractionReserve = 1
  CompletionCapacity = 1
  EncodedCapacity = 1
  DecodedCapacity = 1
  Keys = {1, 2}
  DependencySets <- TwoChunks
  Neighbours <- OneNeighbour
  Leases = {{}, {1}}
  None = None
  ResultCapacity = 1
  ResumeLimit = 1
  MaxEvents = 3
CHECK_DEADLOCK FALSE
INVARIANTS ActiveIsOnePlace NoLostRequest MeshJobsHaveTheirPages
PROPERTIES SamplesAreAnswered StorageCloses
