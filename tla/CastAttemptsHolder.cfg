\* Somebody loses in the middle of reversed attempts.
CONSTANTS
  Player = {p1, p2}
  Cast = {"bolt"}
  Announced = {"bolt", "doom", "swarm"}
  Proposals <- AllProposals
  Targets <- AllTargets
  NoTargets = "none"
  Sampled = {"swarm"}
  Unfiltered <- DoomIsUnfiltered
  Payable <- CanBePaid
  Later = {"with", "without"}
  Completes <- Succeed
  Activation = {}
  Pays <- FilterPays
  Hands = {{"bolt"}}
SPECIFICATION CASpec
INVARIANTS
  TheRecordIsTheHolders
\* The window has moved on.
CHECK_DEADLOCK FALSE
