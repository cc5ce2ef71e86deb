SPECIFICATION FairSpec
CONSTANTS
  Relayer = {r1}
  Task <- MCTasks
  Funded = {2}
  Timelock = {t1}
  NoTx = NoTx
  NoCall = NoCall
  Quorum = 1
  MaxOrder = 1
  MaxNonce = 3
  MaxAttempt = 3
  MaxFault = 1
PROPERTIES
  FundsEventuallyReceived
  ConfirmedEventuallyProcessed
CHECK_DEADLOCK FALSE
