SPECIFICATION Spec
CONSTANTS
  u1 = u1  u2 = u2  c1 = c1  c2 = c2  k1 = k1  None = None
  Users <- TwoUsers  Calls <- TwoCalls  Sockets <- OneSocket
  MaxTokens = 2  MaxMishaps = 1  MaxSpells = 2
INVARIANTS SocketsFollow SessionIsLast
PROPERTIES RefusedOnlyWhenOver
SYMMETRY Symmetry
CHECK_DEADLOCK FALSE
