CONSTANTS
  p1 = p1  p2 = p2  p3 = p3
  key = key
  Procs = {p1, p2, p3}
  Keys = {key}
  Nesting <- NoNesting
  MaxCalls = 2
  MaxDepth = 2
  NoRef = NoRef
  NoKey = NoKey
SPECIFICATION FairSpec
INVARIANTS TypeOK HolderInside
PROPERTIES FirstComeFirstServed EveryCallerServed ImplementsMutex
CHECK_DEADLOCK FALSE
