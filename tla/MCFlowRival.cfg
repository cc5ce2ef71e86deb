SPECIFICATION FlowSpec
CONSTANTS
  t1 = t1  t2 = t2  u1 = u1  u2 = u2  w1 = w1  w2 = w2
  NoTx = NoTx
  Tx = {t1, t2}
  Utxo = {u1}
  Withdraw = {w1}
  Task = {}
  Ins <- RivalIns
  Outs <- NoOuts
  Pays <- RivalPays
  Secures <- NoSecures
  Funding <- OneFunding
  MaxOrder = 3
  MaxBuild = 3
  MaxLog = 3
  MaxFault = 1
SYMMETRY RivalSymmetry
INVARIANTS
  AgreedBeforeBroadcast
  FinalizedInputsSpent
  AcceptedNotSelectable
CHECK_DEADLOCK FALSE
