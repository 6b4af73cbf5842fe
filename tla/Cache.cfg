SPECIFICATION FairSpec
CONSTANTS
  p1 = p1  p2 = p2  p3 = p3  n1 = n1  n2 = n2
  NoProc = NoProc  NoVersion = NoVersion
  Procs = {p1, p2, p3}  Nodes = {n1, n2}  NodeOf <- OneApart
  OneAtATime = TRUE
  MaxWrites = 1
INVARIANT StaleDoomed
PROPERTY StaleGoes
CHECK_DEADLOCK FALSE
