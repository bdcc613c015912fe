\* Two rotations of two games, played by one worker or by two.
CONSTANTS
  NumSeats = 2
  GamesPerSeat = 2
  MaxWorkers = 2
SPECIFICATION MUSpec
INVARIANTS
  CountsWhatWasPlayed
PROPERTIES
  Finishes
\* The matchup returns its result.
CHECK_DEADLOCK FALSE
