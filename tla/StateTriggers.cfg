\* Two sources and three players, three abilities or copies, three effects: a
\* copy, a change of control and a departure in any order.
CONSTANTS
  Player = {p1, p2, p3}
  Source = {s1, s2}
  MaxObjects = 3
  MaxEffects = 3
SPECIFICATION STSpec
SYMMETRY Interchangeable
INVARIANTS
  HeldBackByItsAbility
  WaitingHoldsBack
\* Everybody may have left and every bound be reached.
CHECK_DEADLOCK FALSE
