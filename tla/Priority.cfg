\* Three seats, five decisions with the choices that cost some of them: losses
\* while others have passed, objects and triggers of several players.
CONSTANTS
  NumPlayers = 3
  Goldfish = FALSE
  DecisionLimit = 5
  MaxChoices = 1
  MaxStack = 2
  MaxTriggers = 2
SPECIFICATION MCSpec
INVARIANTS
  PassesCountTheLiving
  RoundInTurnOrder
  SettledThroughout
  NoDepartedOnStack
PROPERTIES
  ImplementsPassRound
  Closes
\* The window closes and the loop returns.
CHECK_DEADLOCK FALSE
