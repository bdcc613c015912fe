\* What is paid differs from one attempt to the next.
CONSTANTS
  Player = {p1}
  Cast = {"bolt"}
  Announced = {"bolt", "doom", "swarm"}
  Proposals <- AllProposals
  Targets <- AllTargets
  NoTargets = "none"
  Sampled = {"swarm"}
  Unfiltered <- DoomIsUnfiltered
  Payable <- CanBePaid
  Later = {"with", "without"}
  Completes <- Succeed
  Activation = {}
  Pays <- FilterPays
  Hands = {{"bolt"}}
SPECIFICATION CASpec
INVARIANTS
  WithheldOnceRepeated
\* The window has moved on.
CHECK_DEADLOCK FALSE
