SPECIFICATION Spec
CONSTANTS
  e1 = e1  e2 = e2  e3 = e3  e4 = e4  w1 = w1  w2 = w2
  NoOne = NoOne  Ticker = Ticker
  Arrivals <- FourPlayers  Workers <- TwoWorkers  Rounds = 2
  Policy = "random"  Ends = 9  EarlyVerdicts = FALSE  Downtime = FALSE
  MaxMishaps = 1
INVARIANTS NobodyPassedOver ByesHandedOut ChampionCrowned FinishedOnce RefusedLeave NoCircle
SYMMETRY WorkerSymmetry
CHECK_DEADLOCK FALSE
