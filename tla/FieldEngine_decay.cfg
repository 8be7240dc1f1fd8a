CONSTANTS
  Ids = {1}
  Loads = {256}
  GcAges = {}
  TAU = 4
  FRAC = 8
  SeqModulus = 1
INIT FEInit
NEXT FENext
PROPERTY DecayNeverRises
