CONSTANTS
  Self = 1
  Others <- MCOthers
  BROADCAST_ID = 255
  Threads <- MCThreads
  MaxMsgs = 3
  DelayUs = {1}
  MockTimes = {0}
  MaxTime = 2
SPECIFICATION Spec
INVARIANT TypeOK
PROPERTY DelayAdvancesClock
PROPERTY ImplementsFifo
