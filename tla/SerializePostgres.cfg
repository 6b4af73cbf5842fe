SPECIFICATION FairSpec
CONSTANTS
  p1 = p1  p2 = p2  p3 = p3  n1 = n1  n2 = n2  a = a  b = b
  NoKey = NoKey
  Procs <- TwoProcs  Nodes <- TwoNodes  Places <- Anywhere  Keys <- TwoKeys
  Postgres = TRUE  PoolSize = 2  Ops <- Jobs  Nests <- Outward
  MaxDepth = 2  MaxTx = 2  MaxQueue = 0  Crashes = FALSE
INVARIANTS OneHolder PoolSpared
PROPERTIES CallsGetIn
CHECK_DEADLOCK FALSE
