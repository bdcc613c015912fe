\* A venture while the ability of a last room waits.
CONSTANTS
  Player = {p1, p2}
  Dungeon <- SmallDungeons
  Free = {"wilds"}
  Paths <- SmallPaths
  Ordinary = {"mine", "wilds"}
  Undercity = "undercity"
  Targeted <- MayLackTargets
  MaxObjects = 3
  MaxEffects = 4
SPECIFICATION Spec
PROPERTIES
  AVentureMovesOn
CHECK_DEADLOCK FALSE
