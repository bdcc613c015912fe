\* Two players and four instructions: enough for a second dungeon while copies of
\* the last ability of the first still wait.
CONSTANTS
  Player = {p1, p2}
  Dungeon <- SmallDungeons
  Free = {"wilds"}
  Paths <- SmallPaths
  Ordinary = {"mine", "wilds"}
  Undercity = "undercity"
  Targeted <- MayLackTargets
  MaxObjects = 3
  MaxEffects = 4
SPECIFICATION Spec
SYMMETRY Interchangeable
INVARIANTS
  EachIsCompletedOnce
  OneHasTheInitiative
PROPERTIES
  WalksTheDungeon
\* The instructions have been used up.
CHECK_DEADLOCK FALSE
