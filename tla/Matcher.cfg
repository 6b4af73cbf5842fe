SPECIFICATION BucketSpec
CONSTANTS
  Kinds <- AllKinds
  MaxUnits = 4
  MaxBlocks = 1
INVARIANTS MatchesSeat MatchesEarned NothingLeft
CHECK_DEADLOCK FALSE
