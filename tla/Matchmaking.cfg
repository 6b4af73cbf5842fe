SPECIFICATION FairSpec
CONSTANTS
  u1 = u1  u2 = u2  u3 = u3
  Users <- ThreeUsers  PartyOf <- Pair  MaxPlayers = 3
  Asks = {TRUE, FALSE}  OneJoin = TRUE  Callers = {1}
  MaxTickets = 3  MaxClaims = 2  MaxChecks = 1  MaxLobbies = 1  MaxTasks = 2
  MaxAged = 1  Crashes = TRUE
INVARIANTS ClaimsAreHeld
INVARIANTS MatchesWhole
INVARIANTS NobodyLeftBehind
INVARIANTS OneTicketEach
CHECK_DEADLOCK FALSE
PROPERTIES ClaimsEnd
