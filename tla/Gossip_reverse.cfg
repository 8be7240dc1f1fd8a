CONSTANTS
  Me = 1
  Origins <- MCOrigins
  MaxSeq = 3
  VV_MAX_ENTRIES = 8
  GAP_BUFFER = 4
  PENDING_MAX = 8
  NEIGHBOR_MAX = 7
  RemoteVVs <- MCNoRemoteVVs
SPECIFICATION Spec
INVARIANT CaughtUpWhenAllDelivered
