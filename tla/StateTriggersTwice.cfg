\* An ability, a copy of it that is countered, and the ability once more.
CONSTANTS
  Player = {p1, p2}
  Source = {s1}
  MaxObjects = 3
  MaxEffects = 2
SPECIFICATION STSpec
SYMMETRY Interchangeable
INVARIANTS
  NeverTriggersTwice
\* Everybody may have left and every bound be reached.
CHECK_DEADLOCK FALSE
