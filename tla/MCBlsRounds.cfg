SPECIFICATION Spec
CONSTANTS
  p = p  q = q  v = v  w = w
  Relayer = {p, q}
  Candidates = {p, q}
  Kinds = {"block", "order", "finalize"}
  StartBtcHeight = 10
  MaxHeight = 11
  Batch = 2
  Due = {1}
  MaxAsk = 2
  MaxEpoch = 2
  MaxFault = 1
SYMMETRY RelayerSymmetry
INVARIANTS
  TypeOK
  PollerNotStranded
  OrderNotStranded
  SubmittedHasQuorum
  AcceptedIsConfirmed
  FinishedBlockAccepted
CHECK_DEADLOCK FALSE
