\* Three players, one of whom may leave, and three turns: timings that wait for a
\* later turn and for one's own turn.
CONSTANTS
  Player = {p1, p2, p3}
  Timings = {"nextUpkeep", "yourNextEndStep"}
  MaxEvents = 4
  MaxTriggers = 1
  MaxTurns = 3
SPECIFICATION TLSpec
SYMMETRY Interchangeable
INVARIANTS
  EveryEventIsLookedAtOnce
  FiresAtItsStep
  FiresAtWhatItWatches
\* The log is full, or the last turn is over.
CHECK_DEADLOCK FALSE
