SPECIFICATION FairSpec
CONSTANTS
  a = a  b = b  x = x  y = y  z = z  u = u
  Txid = {a, b}
  User = {u}
  Outputs <- StuckOutputs
  Group = Group
  Data = Data
  BadSize = {b}
  Chains <- StuckChains
  Dropped = {b}
  Batch = 2
  SignBatch = 2
  NoDeposit = NoDeposit
  BlockHash = BlockHash
  Expiring <- StuckExpiring
  MaxRequest = 0
  MaxRestart = 0
  MaxReplay = 0
PROPERTIES
  ConfirmedEventually
  FetchedEventually
CHECK_DEADLOCK FALSE
