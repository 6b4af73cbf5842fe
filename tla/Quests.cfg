SPECIFICATION Spec
CONSTANTS
  p1 = p1  p2 = p2
  Procs <- TwoProcs
  Target = 2  Rewards = 2  Prompt = TRUE
  MaxEvents = 4  MaxResets = 1  MaxMishaps = 2
INVARIANTS ProgressKept PaidAsEarned RunsRemembered
SYMMETRY ProcSymmetry
CHECK_DEADLOCK FALSE
