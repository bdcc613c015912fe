\* A player leaves, and what ends when their turn would have begun is looked at by
\* no pass.
CONSTANTS
  Player = {p1, p2, p3}
  Timings = {}
  MaxEvents = 2
  MaxTriggers = 0
  MaxTurns = 2
SPECIFICATION TLSpec
SYMMETRY Interchangeable
INVARIANTS
  ConsumedUpToTheCursor
CHECK_DEADLOCK FALSE
