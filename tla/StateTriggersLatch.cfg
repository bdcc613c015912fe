\* A permanent that changes control once.
CONSTANTS
  Player = {p1, p2}
  Source = {s1}
  MaxObjects = 2
  MaxEffects = 1
SPECIFICATION STSpec
SYMMETRY Interchangeable
INVARIANTS
  LatchEndsWithTheAbility
\* Everybody may have left and every bound be reached.
CHECK_DEADLOCK FALSE
