SPECIFICATION Spec
CONSTANTS
  p1 = p1  p2 = p2  p3 = p3  n1 = n1  n2 = n2  a = a  b = b
  NoKey = NoKey
  Procs <- TwoProcs  Nodes <- OneNode  Places <- AllOnOne  Keys <- TwoKeys
  Postgres = FALSE  PoolSize = 1  Ops <- AllOps  Nests <- Outward
  MaxDepth = 3  MaxTx = 2  MaxQueue = 1  Crashes = TRUE
INVARIANTS SerializedAlone NoDeadlock EffectsFollowCommit
PROPERTIES EffectsKept
SYMMETRY ProcSymmetry
CHECK_DEADLOCK FALSE
