\* The cast that names its targets.
CONSTANTS
  Player = {p1}
  Cast = {"blast"}
  Announced = {"bolt", "doom", "swarm"}
  Proposals <- AllProposals
  Targets <- AllTargets
  NoTargets = "none"
  Sampled = {"swarm"}
  Unfiltered <- DoomIsUnfiltered
  Payable <- CanBePaid
  Later = {"with", "without"}
  Completes <- Succeed
  Activation = {"filter"}
  Pays <- FilterPays
  Hands = {{"blast", "filter"}}
SPECIFICATION CASpec
INVARIANTS
  NoCastIsWithdrawnTooSoon
\* The window has moved on.
CHECK_DEADLOCK FALSE
