SPECIFICATION Spec
CONSTANTS
  p1 = p1  p2 = p2  p3 = p3  n1 = n1  n2 = n2
  NoProc = NoProc  NoVersion = NoVersion
  Procs = {p1, p2}  Nodes = {n1}  NodeOf <- AllOnOne
  OneAtATime = FALSE
  MaxWrites = 2
INVARIANT StaleDoomed
CHECK_DEADLOCK FALSE
