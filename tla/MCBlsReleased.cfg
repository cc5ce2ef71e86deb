SPECIFICATION FairSpec
CONSTANTS
  p = p  q = q  v = v  w = w
  Relayer = {p, q}
  Candidates = {p, q}
  Kinds = {"block"}
  StartBtcHeight = 10
  MaxHeight = 11
  Batch = 2
  Due = {}
  MaxAsk = 2
  MaxEpoch = 2
  MaxFault = 0
PROPERTIES
  PollerReleased
CHECK_DEADLOCK FALSE
