\* Three seats and three turns, two effects and two searches one inside the other:
\* one effect overwrites another or waits while it applies, chains of four links
\* and circles of two and of three players, and players who leave.
CONSTANTS
  NumPlayers = 3
  Goldfish = FALSE
  MaxTurns = 3
  MaxEffects = 2
  MaxScopes = 2
SPECIFICATION Spec
INVARIANTS
  DecisionsReachThePlayers
PROPERTIES
  RepeatedBeginIsInert
  KeepsTheClaims
\* The game ends.
CHECK_DEADLOCK FALSE
