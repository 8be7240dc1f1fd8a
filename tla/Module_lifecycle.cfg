CONSTANTS
  Ids = {1, 2, 3, 4}
  Peers <- MCPeers
  Self = 1
  K_NEIGHBORS = 7
  TaskPlan <- MCNoTasks
  MyLoads = {0}
  Loads = {}
  GcAges = {5}
  TAU = 1
  FRAC = 8
  SeqModulus = 1
SPECIFICATION Spec
INVARIANT LifecycleMatchesNeighbourhood
PROPERTY StableNeighbourhoodReachesActive
PROPERTY LifecycleEnds
