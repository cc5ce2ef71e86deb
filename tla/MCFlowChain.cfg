SPECIFICATION FairFlow
CONSTANTS
  t1 = t1  t2 = t2  u1 = u1  u2 = u2  w1 = w1  w2 = w2
  NoTx = NoTx
  Tx = {t1, t2}
  Utxo = {u1, u2}
  Withdraw = {w1}
  Task = {}
  Ins <- ChainIns
  Outs <- ChainOuts
  Pays <- ChainPays
  Secures <- NoSecures
  Funding <- OneFunding
  MaxOrder = 5
  MaxBuild = 2
  MaxLog = 3
  MaxFault = 0
PROPERTIES
  FinalizedIsSpent
CHECK_DEADLOCK FALSE
