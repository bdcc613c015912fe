\* The ability of a last room leaves the game with the player it was given to.
CONSTANTS
  Player = {p1, p2}
  Dungeon <- SmallDungeons
  Free = {"wilds"}
  Paths <- SmallPaths
  Ordinary = {"mine", "wilds"}
  Undercity = "undercity"
  Targeted <- MayLackTargets
  MaxObjects = 3
  MaxEffects = 4
SPECIFICATION Spec
INVARIANTS
  LeavingCompletes
CHECK_DEADLOCK FALSE
