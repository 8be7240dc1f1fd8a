CONSTANTS
  Ids <- MCIds
  Loads <- MCLoads
  GcAges <- MCGcAges
  TAU = 2
  FRAC = 8
  SeqModulus = 1
INIT FEInit
NEXT FENext
INVARIANT FETypeOK
INVARIANT AggregateIsWeightedMean
