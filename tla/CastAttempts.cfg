\* One or two casts or an activation are tried in every order until the window
\* moves on; one cast is of proposals that are not filtered, one of sampled targets.
CONSTANTS
  Player = {p1, p2}
  Cast = {"bolt", "blast", "doom", "swarm"}
  Announced = {"bolt", "doom", "swarm"}
  Proposals <- AllProposals
  Targets <- AllTargets
  NoTargets = "none"
  Sampled = {"swarm"}
  Unfiltered <- DoomIsUnfiltered
  Payable <- CanBePaid
  Later = {"with", "without"}
  Completes <- Succeed
  Activation = {"filter"}
  Pays <- FilterPays
  Hands <- EachHand
SPECIFICATION CAFairSpec
INVARIANTS
  OnlyWhatFailedIsWithheld
PROPERTIES
  EveryReversalTeaches
  MovesOn
\* The window has moved on.
CHECK_DEADLOCK FALSE
