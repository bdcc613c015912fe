\* Three seats and up to two effects on the structure of each turn: phases
\* added while added phases are played, upkeep steps, skips, players who leave.
CONSTANTS
  NumPlayers = 3
  Goldfish = FALSE
  TurnLimit = 3
  MaxEffects = 2
SPECIFICATION Spec
INVARIANTS
  ContinuationIsNext
  UpkeepsArePlayed
  RotationIsFair
PROPERTIES
  StopsWithTheGame
  ImplementsTurnPlan
  GameEnds
\* The game ends.
CHECK_DEADLOCK FALSE
