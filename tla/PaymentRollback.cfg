\* Every order of seven activations, with a library that runs out.
CONSTANTS
  Source <- Abilities
  Cost <- Costs
  Makes <- Mana
  Moves <- LibraryMoves
  Needs <- Dependencies
  Boosts = {"boost"}
  Cards = {c1, c2}
  Floating = {0, 1}
SPECIFICATION PRSpec
INVARIANTS
  PoolBalances
  ReversibleIsUndone
PROPERTIES
  LibrariesStand
\* The payment is over.
CHECK_DEADLOCK FALSE
