SPECIFICATION Spec
CONSTANTS
  t1 = t1  t2 = t2  u1 = u1  u2 = u2  w1 = w1  k1 = k1
  NoTx = NoTx
  Tx = {t1, t2}
  Utxo = {u1, u2}
  Withdraw = {w1}
  Task = {k1}
  Ins <- ChainIns
  Outs <- ChainOuts
  Pays <- ChainPays
  Secures <- ChainSecures
  MaxOrder = 2
INVARIANTS
  TypeOK
  SettledInputsSpent
  NoLeakedReservation
  WithdrawNamesItsOrder
  TaskFollowsOrder
PROPERTIES
  SpentIsFinal
  SettledIsFinal
