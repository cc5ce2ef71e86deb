SPECIFICATION Spec
CONSTANTS
  Relayer = {r1, r2}
  Task <- MCTask
  Funded <- MCTask
  Timelock = {t1, t2}
  NoTx = NoTx
  NoCall = NoCall
  Quorum = 1
  MaxOrder = 2
  MaxNonce = 2
  MaxAttempt = 2
  MaxFault = 1
CHECK_DEADLOCK FALSE
CONSTRAINTS
  FewMessages
  NotBurned
SYMMETRY MCSymmetry
INVARIANTS
  RecordedBeforeSent
  RowsFollowContract
PROPERTIES
  RecordedForward
