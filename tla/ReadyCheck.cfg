SPECIFICATION FairSpec
CONSTANTS
  u1 = u1  u2 = u2
  lobby = lobby
  NoRoom = NoRoom  NoUser = NoUser
  Users <- TwoUsers
  Rooms <- Lobby
  Parties <- Nobody
  Hosted <- Lobby
  Bots <- TwoUsers
  Matches <- AnyMatch
  Timed <- Either
  MaxChecks = 1
  MaxTasks = 2
  Mortal <- BeforeTheSeat
INVARIANTS PassedUnanimously GhostsLeave
PROPERTIES VerdictsStand AcceptsStand NobodyUnasked DeadlinesEnd
CHECK_DEADLOCK FALSE
