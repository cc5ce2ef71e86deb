SPECIFICATION LoopSpec
CONSTANTS
  a = a  b = b  x = x  y = y  z = z  u = u
  Txid = {a, b}
  User = {u}
  Outputs <- MixedOutputs
  Group = Group
  Data = Data
  BadSize = {}
  Chains <- MixedChains
  Dropped = {}
  Batch = 2
  SignBatch = 2
  NoDeposit = NoDeposit
  BlockHash = BlockHash
  Expiring = {}
  MaxRequest = 1
  MaxRestart = 1
  MaxReplay = 1
INVARIANTS
  QueueMatchesTable
  ConfirmedProvable
  CreditedProcessed
PROPERTIES
  ProcessedIsFinal
  ImplementsWallet
  FlagReleased
CHECK_DEADLOCK FALSE
