CONSTANTS
  N = 4
  MaxItems = 6
SPECIFICATION Spec
INVARIANT TypeOK
PROPERTY ImplementsFifo
INVARIANT QueryStaysTrue
