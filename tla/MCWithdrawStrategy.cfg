SPECIFICATION FairSpec
CONSTANTS
  MaxVin = 3  LargeVin = 4  LargeAmount = 3000  SmallUtxo = 1000
  MaxNetworkFee = 4  MaxVout = 2  ImmediateCount = 2  External = 300
  ConsolidationTrigger = 5  ConsolidationThreshold = 2000  ConsolidationMaxVin = 3
  MaxOrder = 6  MaxTurn = 1
  Withdrawals <- ThreeWithdrawals
  Tasks <- OneTask
  Pools <- TwoPools
  Fees <- ThreeFees
INVARIANTS
  OrdersDisjoint
  FeeExact
  SelectionBest
PROPERTIES
  PaidEventually
CHECK_DEADLOCK FALSE
