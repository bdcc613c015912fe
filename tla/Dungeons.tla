------------------------------ MODULE Dungeons ------------------------------
(***************************************************************************)
(* Dungeons as graphs of rooms (CR 309): RoomDef.Next leads on from each   *)
(* room, and a room it leads nowhere from is a last one.  In a dungeon of  *)
(* free traversal any room that has not been visited may come next.        *)
(***************************************************************************)
EXTENDS Integers

CONSTANTS
  Dungeon,
  Free,   \* the dungeons with FreeTraversal
  Paths   \* Paths[d][r]: the rooms that room r of d leads to

\* Room 0 is the entrance, and rooms lead onward.
ASSUME DungeonsAssumption ==
  /\ Free \subseteq Dungeon
  /\ \A d \in Dungeon :
       /\ 0 \in DOMAIN Paths[d]
       /\ \A r \in DOMAIN Paths[d] : Paths[d][r] \subseteq DOMAIN Paths[d]

Rooms(d) == DOMAIN Paths[d]

AllRooms == UNION {Rooms(d) : d \in Dungeon}

Entrances(d) == IF d \in Free THEN Rooms(d) ELSE {0}

\* Where a venture may lead from position s, which remembers the rooms visited.
Onward(s) == IF s.dungeon \in Free THEN Rooms(s.dungeon) \ s.visited ELSE Paths[s.dungeon][s.room]

\* dungeonRoomIsFinal
Final(s) == Onward(s) = {}
=============================================================================
