SPECIFICATION Spec
CONSTANTS
  u1 = u1  u2 = u2  u3 = u3
  Users <- ThreeUsers  PartyOf <- Pair  MaxPlayers = 3
  Asks = {TRUE, FALSE}  OneJoin = FALSE  Callers = {1, 2}
  MaxTickets = 3  MaxClaims = 2  MaxChecks = 1  MaxLobbies = 1  MaxTasks = 2
  MaxAged = 0  Crashes = FALSE
CHECK_DEADLOCK FALSE
INVARIANTS NoneStranded
