SPECIFICATION FairSpec
CONSTANTS
  StartHeight = 5
  L2Start = 6
  MaxHeight = 7
  MaxRange = 2
  Cap = 1
  MaxFault = 2
  MaxStop = 1
INVARIANTS
  BlocksHandledInOrder
  OneBlockInFlight
  RowsFollowLayer2
PROPERTIES
  EveryBlockHandled
  SyncingEnds
CHECK_DEADLOCK FALSE
