CONSTANTS
  Ids = {1, 2}
  Peers = {2}
  Self = 1
  K_NEIGHBORS = 7
  TaskPlan <- MCTaskPlan
  MyLoads <- MCMyLoads
  Loads = {256}
  GcAges = {5}
  TAU = 1
  FRAC = 8
  SeqModulus = 1
INIT Init
NEXT Next
PROPERTY SelectionFollowsPriority
VIEW MCView
