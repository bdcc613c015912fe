\* Two legends of one name, a jailer and a thief of three players, who may all
\* take each other, die and lose.
CONSTANTS
  Player = {"ann", "bob", "cat"}
  Card = {"lord", "twin", "jail", "thief"}
  Owner <- Owners
  Commander = {"lord"}
  Namesake = {"lord", "twin"}
  Jailer = {"jail"}
  Thief = {"thief"}
  MaxPasses = 4
  MaxEffects = 3
SPECIFICATION SBSpec
INVARIANTS
  EachArrivalIsOfferedOnce
  SettledIsSettled
  NothingOfTheDeparted
PROPERTIES
  ComesBackAsItLeft
  PassesRunOut
\* The bound on instructions is reached.
CHECK_DEADLOCK FALSE
