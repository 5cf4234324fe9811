CONSTANTS
  MaximumLod = 2
  Catalog <- MCCatalog
  Explicit = FALSE
  Capacity = 5
  ColdRoots = 1
  Hysteresis = 1
  GlobalCoverage = FALSE
  Viewers = {1, 2}
  CollisionViewers = {}
  Places = {3}
  CollisionPlaces = {9}
  ViewerRadius = 1
  ViewerRefine = 1
  ViewerLods = {2}
  FocusSets <- MCNoFocus
  ViewerCapacity = 2
  QueueCapacity = 2
  ZoneCapacity = 1
  RecentZones = 1
  ZoneRadiusMaximum = 3
  MergeDistance = 1
  FocusPriority = 100000
  Policies <- MCBackground
  MasksRemesh = TRUE
  MaxInputs = 3
SPECIFICATION Spec
CHECK_DEADLOCK FALSE
INVARIANT NoRequestLost
