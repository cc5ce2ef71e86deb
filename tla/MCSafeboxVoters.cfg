SPECIFICATION Spec
CONSTANTS
  Relayer = {r1, r2}
  Task <- MCTask
  Funded <- MCTask
  Timelock = {t1}
  NoTx = NoTx
  NoCall = NoCall
  Quorum = 2
  MaxOrder = 1
  MaxNonce = 1
  MaxAttempt = 2
  MaxFault = 0
INVARIANT EveryVoterSigns
CHECK_DEADLOCK FALSE
