\* One game per seat is enough to disagree with both comments.
CONSTANTS
  NumSeats = 2
  GamesPerSeat = 1
  MaxWorkers = 1
SPECIFICATION MUSpec
INVARIANTS
  FailedSlotsHoldTheZeroResult
  DocumentedAccounting
CHECK_DEADLOCK FALSE
